------------------------------ MODULE BusBinding ------------------------------
(* What the DXE core and the drivers of the PCI devices are promised by    *)
(* the shim and the bus driver behind it, taken together: they are a PCI   *)
(* bus driver.  A root bridge that was accepted may be started, a started  *)
(* one serves calls, and each call reaches the root bridge it was made     *)
(* for, or its host bridge, until the bridge is stopped.                   *)
CONSTANTS Controllers, HostBridgeOf, NULL

VARIABLES
  accepted,  \* the root bridge Supported() was just successful for
  started,   \* the root bridges the bus driver manages
  route      \* the last call: through which root bridge, and where it went

vars == <<accepted, started, route>>

Init ==
  /\ accepted = NULL /\ started = {}
  /\ route = [proto |-> "none", from |-> NULL, to |-> NULL]

\* Supported() returns EFI_SUCCESS.
Accept(c) == accepted = NULL /\ accepted' = c /\ UNCHANGED <<started, route>>

\* Start() takes the bridge over, or does not.
Start(c) ==
  /\ accepted = c /\ c \notin started
  /\ accepted' = NULL /\ started' = started \cup {c}
  /\ UNCHANGED route

Reject == accepted # NULL /\ accepted' = NULL /\ UNCHANGED <<started, route>>

\* Stop(), or a Start() that gives the bridge back.
Stop(c) ==
  /\ accepted = NULL /\ c \in started
  /\ started' = started \ {c}
  /\ UNCHANGED <<accepted, route>>

CallBridge(c) ==
  /\ c \in started
  /\ route' = [proto |-> "rb", from |-> c, to |-> c]
  /\ UNCHANGED <<accepted, started>>

CallAllocator(c) ==
  /\ c \in started
  /\ route' = [proto |-> "ra", from |-> c, to |-> HostBridgeOf[c]]
  /\ UNCHANGED <<accepted, started>>

Next ==
  \/ \E c \in Controllers :
       Accept(c) \/ Start(c) \/ Stop(c) \/ CallBridge(c) \/ CallAllocator(c)
  \/ Reject

Spec == Init /\ [][Next]_vars
=============================================================================
