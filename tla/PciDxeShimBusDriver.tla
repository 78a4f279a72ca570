------------------------- MODULE PciDxeShimBusDriver -------------------------
(* The shim implements BusBinding, whatever fails.  Every step is a step   *)
(* of a bus driver or changes nothing a bus driver shows; a call that ends *)
(* in an undefined access reaches no one, so it shows nothing either.      *)
EXTENDS PciDxeShimRoutes

\* A step that keeps what the bus driver shows.
LEMMA Hidden ==
  ASSUME UNCHANGED <<held, routed>>, Accepted' = Accepted
  PROVE  UNCHANGED Bus!vars
  BY DEF Bus!vars, Started

LEMMA BusSupported ==
  ASSUME NEW c \in Controllers, Supported(c)
  PROVE  [Bus!Next]_(Bus!vars)
<1>1. pc = "idle" /\ UNCHANGED <<held, routed>>
  BY DEF Supported, SupportedUnlocated, SupportedAlreadyStarted, SupportedTestRefused,
     SupportedMapped, SupportedMappedRefused, SupportedAllocFails, SupportedInstallIoFails,
     SupportedBaseRejects, SupportedAllocRaFails, SupportedInstallRaFails,
     SupportedHooks, HookBoth, FirstProbe
<1>2. \/ pc' = "idle" /\ UNCHANGED <<held, routed>>
      \/ pc' = "ready" /\ ctl' = c
  BY <1>1 DEF Supported, SupportedUnlocated, SupportedAlreadyStarted, SupportedTestRefused,
     SupportedMapped, SupportedMappedRefused, SupportedAllocFails, SupportedInstallIoFails,
     SupportedBaseRejects, SupportedAllocRaFails, SupportedInstallRaFails,
     SupportedHooks, HookBoth, Return,
     ReturnSupported, control
<1>3. CASE pc' = "idle"
  BY <1>1, <1>3, Hidden DEF Accepted
<1>4. CASE pc' = "ready" /\ ctl' = c
  BY <1>1, <1>4 DEF Accepted, Started, Bus!Next, Bus!Accept
<1> QED BY <1>2, <1>3, <1>4

\* A call through a substitute RBIO is the call the bus driver serves, or none.
LEMMA BusCallBridge ==
  ASSUME RoutingWell, NEW c \in Controllers, held[c] # NULL, CallBridge(c),
         UNCHANGED held, Accepted' = Accepted
  PROVE  [Bus!Next]_(Bus!vars)
<1>1. c \in Started /\ UNCHANGED Started
  BY DEF Started
<1>2. CASE routed' = [proto |-> "rb", from |-> c, to |-> c]
  BY <1>1, <1>2 DEF Bus!Next, Bus!CallBridge
<1>3. CASE UNCHANGED routed
  BY <1>3, Hidden
<1> QED BY <1>2, <1>3, BridgeCallHome DEF RoutingWell

\* The dump calls through bridges the bus driver has started.
LEMMA BusDump ==
  ASSUME RoutingWell, DumpInstalledDevices
  PROVE  [Bus!Next]_(Bus!vars)
<1>1. /\ pc = "dumping" /\ pc' \in {"dumping", "idle"} /\ UNCHANGED held
      /\ UNCHANGED routed \/ \E d \in Devices \cap handles : CallBridge(BridgeOf[d])
  BY DumpSteps DEF control, Return
<1>2. Accepted' = Accepted
  BY <1>1 DEF Accepted
<1>3. ASSUME NEW d \in Devices \cap handles, CallBridge(BridgeOf[d])
      PROVE  [Bus!Next]_(Bus!vars)
  <2>1. BridgeOf[d] \in Controllers /\ held[BridgeOf[d]] # NULL
    BY <1>1, DeviceAssumption DEF RoutingWell, DumpVisitsStarted, Installed
  <2> QED BY <1>1, <1>2, <1>3, <2>1, BusCallBridge
<1> QED BY <1>1, <1>2, <1>3, Hidden

LEMMA BusStart ==
  ASSUME RoutingWell, Start
  PROVE  [Bus!Next]_(Bus!vars)
<1> USE DEF Return, EnterLoop, NextEntry, BeginDump, RoutingWell, Routing, TypeInv, ShimTypeOK,
        ControlTypeOK, HandlesTypeOK
<1>1. CASE BaseStarts
  <2>1. pc = "baseStart" /\ ctl \in Controllers /\ held[ctl] = NULL /\ ioIface[ctl] # NULL
    BY <1>1 DEF BaseStarts, BaseAccepts
  <2>2. held' = [held EXCEPT ![ctl] = ioIface[ctl]] /\ pc' = "enumerating" /\ UNCHANGED routed
    BY <1>1 DEF BaseStarts
  <2>3. ctl \notin Started /\ Started' = Started \cup {ctl}
    BY <2>1, <2>2 DEF Started
  <2>4. Accepted = ctl /\ Accepted' = NULL
    BY <2>1, <2>2 DEF Accepted
  <2>5. Bus!Start(ctl)
    BY <2>2, <2>3, <2>4 DEF Bus!Start
  <2> QED BY <2>1, <2>5 DEF Bus!Next
<1>2. CASE BaseStartFails
  <2>1. pc = "enumerating" /\ ctl \in Controllers /\ held[ctl] # NULL
    BY <1>2 DEF BaseStartFails, StartsFresh
  <2>2. held' = [held EXCEPT ![ctl] = NULL] /\ pc' = "dumping" /\ UNCHANGED routed
    BY <1>2 DEF BaseStartFails
  <2>3. ctl \in Started /\ Started' = Started \ {ctl}
    BY <2>1, <2>2 DEF Started
  <2>4. Accepted = NULL /\ Accepted' = NULL
    BY <2>1, <2>2 DEF Accepted
  <2>5. Bus!Stop(ctl)
    BY <2>2, <2>3, <2>4 DEF Bus!Stop
  <2> QED BY <2>1, <2>5 DEF Bus!Next
<1>3. ASSUME UNCHANGED <<held, routed>>, pc \in {"ready", "opening", "baseStart"},
             pc' \in {"idle", "dumping"} \/ (pc' \in {"opening", "baseStart"} /\ ctl' = ctl)
      PROVE  [Bus!Next]_(Bus!vars)
  <2>1. CASE pc' \in {"idle", "dumping"}
    <3>1. ctl \in Controllers /\ ctl # NULL
      BY <1>3, NullAssumption
    <3>2. Accepted = ctl /\ Accepted' = NULL
      BY <1>3, <2>1 DEF Accepted
    <3> QED BY <1>3, <3>1, <3>2 DEF Bus!Next, Bus!Reject, Started
  <2>2. CASE pc' \notin {"idle", "dumping"}
    BY <1>3, <2>2, Hidden DEF Accepted
  <2> QED BY <2>1, <2>2
<1>4. CASE StartCall
  BY <1>3, <1>4 DEF StartCall
<1>5. CASE \E b \in IoBlocks : OpenSkip(b) \/ OpenIoFails(b)
  BY <1>3, <1>5 DEF OpenSkip, OpenIoFails, Opening
<1>6. CASE \E b \in IoBlocks : OpenRaFails(b) \/ OpenBoth(b)
  BY <1>3, <1>6 DEF OpenRaFails, OpenBoth, OpenIo, Opening
<1>7. CASE OpenDone \/ BaseStartRefused
  BY <1>3, <1>7 DEF OpenDone, BaseStartRefused
<1>8. CASE BaseStarted
  BY <1>8, Hidden DEF BaseStarted, Accepted
<1> QED BY <1>1, <1>2, <1>4, <1>5, <1>6, <1>7, <1>8, BusDump DEF Start

LEMMA BusCalls ==
  ASSUME RoutingWell, (\E c \in Controllers : RbCall(c)) \/ RaCall
  PROVE  [Bus!Next]_(Bus!vars)
<1>1. ASSUME NEW c \in Controllers, RbCall(c)
      PROVE  [Bus!Next]_(Bus!vars)
  <2>1. held[c] # NULL /\ CallBridge(c) /\ UNCHANGED held /\ Accepted' = Accepted
    BY <1>1 DEF RbCall, Accepted, control
  <2> QED BY <2>1, BusCallBridge
<1>2. ASSUME RaCall
      PROVE  [Bus!Next]_(Bus!vars)
  <2>1. ctl \in Controllers /\ held[ctl] # NULL /\ UNCHANGED held /\ Accepted' = Accepted
    BY <1>2 DEF RaCall, RoutingWell, StartsFresh, Routing, TypeInv, ShimTypeOK, ControlTypeOK,
       Accepted, control
  <2>2. CASE routed' = [proto |-> "ra", from |-> ctl, to |-> HostBridgeOf[ctl]]
    BY <2>1, <2>2 DEF Bus!Next, Bus!CallAllocator, Started
  <2>3. CASE UNCHANGED routed
    BY <2>1, <2>3, Hidden
  <2> QED BY <1>2, <2>1, <2>2, <2>3, AllocatorCallHome DEF RoutingWell
<1> QED BY <1>1, <1>2

LEMMA BusStop ==
  ASSUME RoutingWell, (\E c \in Controllers : Stop(c)) \/ CleanupDriver
  PROVE  [Bus!Next]_(Bus!vars)
<1> USE DEF Return, EnterLoop, NextEntry, RoutingWell, Routing, TypeInv, ShimTypeOK, ControlTypeOK,
        HandlesTypeOK
<1>1. ASSUME NEW c \in Controllers, StopWhole(c)
      PROVE  Bus!Next
  <2>1. c \in Started /\ Started' = Started \ {c}
    BY <1>1 DEF StopWhole, Started
  <2>2. Accepted = NULL /\ Accepted' = NULL /\ UNCHANGED routed
    BY <1>1 DEF StopWhole, Accepted
  <2> QED BY <2>1, <2>2 DEF Bus!Next, Bus!Stop
<1>2. ASSUME NEW c \in Controllers, StopFails(c) \/ StopChildren(c)
      PROVE  UNCHANGED Bus!vars
  BY <1>2, Hidden DEF StopFails, StopChildren, Accepted
<1>3. ASSUME CleanupDriver
      PROVE  UNCHANGED Bus!vars
  <2>1. pc = "closing" /\ pc' \in {"idle", "closing"} /\ UNCHANGED <<held, routed>>
    BY <1>3 DEF CleanupDriver, CloseIoFails, CloseRaFails, UninstallRaFails, UninstallIoFails,
       CloseMapping, CloseScrubbed, CloseDone, CloseRa, CloseIo, UninstallRa, UninstallIo,
       Closing, control
  <2> QED BY <2>1, Hidden DEF Accepted
<1> QED BY <1>1, <1>2, <1>3 DEF Stop

LEMMA BusStep ==
  ASSUME RoutingWell, [Next]_vars
  PROVE  [Bus!Next]_(Bus!vars)
<1>1. CASE BaseLoads \/ UNCHANGED vars
  BY <1>1, Hidden DEF BaseLoads, vars, control, Accepted
<1> QED BY <1>1, BusSupported, BusStart, BusCalls, BusStop DEF Next, DriverBinding

LEMMA BusInit == Init => Bus!Init
  BY DEF Init, Bus!Init, Accepted, Started, NoRoute

\* What the core and the drivers see of the shim and the base driver is a bus
\* driver, for any number of root bridges, and whatever fails.
THEOREM ImplementsBusDriver == Spec => IsBusDriver
  BY BusInit, BusStep, RoutingInit, RoutingStep, PTL DEF Spec, IsBusDriver, Bus!Spec
=============================================================================
