----------------------------- MODULE Substitutes -----------------------------
(* The substitute protocols (PciBridgeIoShim.c, PciResourceAllocationShim.c): *)
(* what happens between a call into a substitute and its return.           *)
(*                                                                         *)
(* PciDxeShim takes such a call for one step.  Here a forwarder looks its  *)
(* original up, calls it, and returns what it returned, and a timer event  *)
(* may come in between and make calls of its own.  An event is handled at  *)
(* a higher task priority than what it interrupts and runs to its end: the *)
(* calls nest, and neither the shim nor the DXE core gets on with a probe, *)
(* a start or a stop before the outermost one has returned.                *)
EXTENDS PciDxeShim

CONSTANTS
  MaxCalls,  \* bound: calls nested in each other
  Nested     \* bound: services called while another call is under way

VARIABLES
  calls,  \* the calls into the substitutes that have not returned, innermost last
  event   \* the last thing an original protocol, or a caller, has seen

subVars == <<vars, calls, event>>

-----------------------------------------------------------------------------
(* The services, and what each function passes on to the original.  The    *)
(* arguments after This are told apart by their position only.             *)

IoServices ==
  { "PollMem", "PollIo", "MemRead", "MemWrite", "IoRead", "IoWrite", "CopyMem", "PciRead",
    "PciWrite", "Map", "Unmap", "AllocateBuffer", "FreeBuffer", "Flush", "GetAttributes",
    "SetAttributes", "Configuration" }

RaServices ==
  { "NotifyPhase", "GetNextRootBridge", "GetAllocAttributes", "StartBusEnumeration",
    "SetBusNumbers", "SubmitResources", "GetProposedResources", "PreprocessController" }

ServicesOf(p) == IF p = "rb" THEN IoServices ELSE RaServices

ArgCount(s) ==
  CASE s = "Flush" -> 0
    [] s \in {"Unmap", "Configuration", "NotifyPhase", "GetNextRootBridge"} -> 1
    [] s \in {"FreeBuffer", "GetAttributes", "GetAllocAttributes", "StartBusEnumeration",
              "SetBusNumbers", "SubmitResources", "GetProposedResources"} -> 2
    [] s \in {"SetAttributes", "PreprocessController"} -> 3
    [] s \in {"Map", "AllocateBuffer"} -> 5
    [] s \in {"PollMem", "PollIo"} -> 6
    [] OTHER -> 4

ArgsOf(s) == [i \in 1..ArgCount(s) |-> i]

\* A function of the shim calls this member of its original with these arguments.
Passes(member, a) == [service |-> member, args |-> a]

RootBridgeIoPollMem(a) == Passes("PollMem", a)
RootBridgeIoPollIo(a) == Passes("PollIo", a)
RootBridgeIoMemRead(a) == Passes("MemRead", a)
RootBridgeIoMemWrite(a) == Passes("MemWrite", a)
RootBridgeIoIoRead(a) == Passes("IoRead", a)
RootBridgeIoIoWrite(a) == Passes("IoWrite", a)
\* A plausible bug: source and destination are passed in the order of memcpy().
RootBridgeIoCopyMemSwapping(a) == Passes("CopyMem", <<a[1], a[3], a[2], a[4]>>)
RootBridgeIoCopyMem(a) == Passes("CopyMem", a)
RootBridgeIoPciRead(a) == Passes("PciRead", a)
RootBridgeIoPciWrite(a) == Passes("PciWrite", a)
RootBridgeIoMap(a) == Passes("Map", a)
RootBridgeIoUnmap(a) == Passes("Unmap", a)
RootBridgeIoAllocateBuffer(a) == Passes("AllocateBuffer", a)
RootBridgeIoFreeBuffer(a) == Passes("FreeBuffer", a)
RootBridgeIoFlush(a) == Passes("Flush", a)
RootBridgeIoGetAttributes(a) == Passes("GetAttributes", a)
RootBridgeIoSetAttributes(a) == Passes("SetAttributes", a)
RootBridgeIoConfiguration(a) == Passes("Configuration", a)

NotifyPhase(a) == Passes("NotifyPhase", a)
GetNextRootBridge(a) == Passes("GetNextRootBridge", a)
GetAttributes(a) == Passes("GetAllocAttributes", a)
StartBusEnumeration(a) == Passes("StartBusEnumeration", a)
SetBusNumbers(a) == Passes("SetBusNumbers", a)
\* Walks over the descriptors of the caller first, and leaves them as they are.
SubmitResources(a) == Passes("SubmitResources", a)
GetProposedResources(a) == Passes("GetProposedResources", a)
PreprocessController(a) == Passes("PreprocessController", a)

\* The slots InstallRootBridgeIoProtocolProtocol() fills ...
RootBridgeIoSlot(s, a) ==
  CASE s = "PollMem" -> RootBridgeIoPollMem(a)
    [] s = "PollIo" -> RootBridgeIoPollIo(a)
    [] s = "MemRead" -> RootBridgeIoMemRead(a)
    [] s = "MemWrite" -> RootBridgeIoMemWrite(a)
    [] s = "IoRead" -> RootBridgeIoIoRead(a)
    [] s = "IoWrite" -> RootBridgeIoIoWrite(a)
    [] s = "CopyMem" -> RootBridgeIoCopyMem(a)
    [] s = "PciRead" -> RootBridgeIoPciRead(a)
    [] s = "PciWrite" -> RootBridgeIoPciWrite(a)
    [] s = "Map" -> RootBridgeIoMap(a)
    [] s = "Unmap" -> RootBridgeIoUnmap(a)
    [] s = "AllocateBuffer" -> RootBridgeIoAllocateBuffer(a)
    [] s = "FreeBuffer" -> RootBridgeIoFreeBuffer(a)
    [] s = "Flush" -> RootBridgeIoFlush(a)
    [] s = "GetAttributes" -> RootBridgeIoGetAttributes(a)
    [] s = "SetAttributes" -> RootBridgeIoSetAttributes(a)
    [] s = "Configuration" -> RootBridgeIoConfiguration(a)

\* ... and those InstallResourceAllocationProtocol() does.
AllocatorSlot(s, a) ==
  CASE s = "NotifyPhase" -> NotifyPhase(a)
    [] s = "GetNextRootBridge" -> GetNextRootBridge(a)
    [] s = "GetAllocAttributes" -> GetAttributes(a)
    [] s = "StartBusEnumeration" -> StartBusEnumeration(a)
    [] s = "SetBusNumbers" -> SetBusNumbers(a)
    [] s = "SubmitResources" -> SubmitResources(a)
    [] s = "GetProposedResources" -> GetProposedResources(a)
    [] s = "PreprocessController" -> PreprocessController(a)

Slot(p, s, a) == IF p = "rb" THEN RootBridgeIoSlot(s, a) ELSE AllocatorSlot(s, a)

-----------------------------------------------------------------------------
(* The calls.                                                              *)

SubInit == Init /\ calls = <<>> /\ event = [kind |-> "none"]

\* No call into a substitute is under way.
Quiet == calls = <<>>

Binding == Quiet /\ DriverBinding /\ UNCHANGED <<calls, event>>

Enter(p, c, b, s) ==
  /\ Len(calls) < MaxCalls
  /\ calls' = Append(calls, [proto |-> p, from |-> c, substitute |-> b, service |-> s,
                             stage |-> "entered", original |-> NULL, answer |-> "none"])
  /\ UNCHANGED <<vars, event>>

\* A driver calls the substitute RBIO, in an event or in the middle of Start().
EnterBridge(c, s) ==
  /\ held[c] # NULL /\ (Quiet \/ s \in Nested)
  /\ Enter("rb", c, held[c], s)

\* The base driver calls the substitute allocator, while it enumerates.
EnterAllocator(s) ==
  /\ pc = "enumerating" /\ AllocatorFound /\ Quiet
  /\ Enter("ra", ctl, mapping[held[ctl]].handle, s)

Innermost == calls[Len(calls)]
At(stage) == calls # <<>> /\ Innermost.stage = stage

Found(f) ==
  IF f.proto = "rb" THEN FindRootBridgeIoProtocolMappingBySubstitute(f.substitute)
                    ELSE FindResourceAllocationProtocolMappingBySubstitute(f.substitute)

\* A plausible bug: OriginalProtocol is static, shared by the calls under way.
FindOriginalShared ==
  /\ At("entered")
  /\ calls' = [i \in 1..Len(calls) |->
                 [calls[i] EXCEPT !.original = Found(Innermost).original,
                                  !.stage = IF i = Len(calls) THEN "found" ELSE @]]
  /\ UNCHANGED <<vars, event>>

\* OriginalProtocol is a local variable of the function.
FindOriginal ==
  /\ At("entered")
  /\ calls' = [calls EXCEPT ![Len(calls)].stage = "found",
                            ![Len(calls)].original = Found(Innermost).original]
  /\ UNCHANGED <<vars, event>>

\* What is called: a member of the protocol o, which gets this as its This.
Performed(o, this) ==
  LET call == Slot(Innermost.proto, Innermost.service, ArgsOf(Innermost.service))
  IN  IF fault' = "none"
      THEN event' = [kind |-> "performed", at |-> o, this |-> this,
                     service |-> call.service, args |-> call.args]
      ELSE UNCHANGED event

\* The search read the list, the call reads through what it found: either may
\* have been an undefined access, and then nothing has been called.
Call(a) ==
  /\ At("found")
  /\ Forward(Innermost.proto, Innermost.from, Found(Innermost).at, Innermost.original)
  /\ IF fault' = "none"
     THEN calls' = [calls EXCEPT ![Len(calls)].stage = "called", ![Len(calls)].answer = a]
     ELSE UNCHANGED calls
  /\ UNCHANGED <<binding, pool, ifaces, opens, held, control>>

\* A plausible bug: the status of the original is not assigned.
CallOriginalForgetting(a) ==
  Call("none") /\ Performed(Innermost.original, Innermost.original)

CallOriginal(a) == Call(a) /\ Performed(Innermost.original, Innermost.original)

ReturnAnswer ==
  /\ At("called")
  /\ event' = [kind |-> "answered", to |-> Innermost.from,
               service |-> Innermost.service, answer |-> Innermost.answer]
  /\ calls' = SubSeq(calls, 1, Len(calls) - 1)
  /\ UNCHANGED vars

SubNext ==
  /\ fault = "none"
  /\ \/ Binding
     \/ \E c \in Controllers, s \in IoServices : EnterBridge(c, s)
     \/ \E s \in RaServices : EnterAllocator(s)
     \/ FindOriginal
     \/ \E a \in {"ok", "err"} : CallOriginal(a)
     \/ ReturnAnswer

SubSpec == SubInit /\ [][SubNext]_subVars
=============================================================================
