-------------------------- MODULE PciDxeShimProofs --------------------------
(* Machine-checked proofs about the driver-binding core of the shim.       *)
EXTENDS PciDxeShimProperties, TLAPS

USE NullAssumption, BridgeAssumption, DeviceAssumption

(***************************************************************************)
(* Types.  OpenIo() records the controller of a listed mapping, so ShimTypeOK  *)
(* alone is not inductive: listed mappings must have one.                  *)
(***************************************************************************)
ListedHaveController == \A i \in 1..Len(list) : mapping[list[i]].controller \in Controllers

TypeInv == ShimTypeOK /\ ListedHaveController

\* The dump of the devices leaves everything of the driver binding alone but
\* its control, and it calls through bridges the base driver has started only.
LEMMA DumpSteps ==
  ASSUME DumpInstalledDevices
  PROVE  /\ pc = "dumping"
         /\ UNCHANGED <<binding, pool, ifaces, ioOpen, testOpen, raOpen, held>>
         /\ UNCHANGED control \/ Return(status)
         /\ UNCHANGED <<routed, fault>> \/ \E d \in Devices \cap handles : CallBridge(BridgeOf[d])
<1>1. CASE DumpNothing \/ DumpLocates \/ DumpDone
  <2>1. CASE DumpNothing
    BY <2>1 DEF DumpNothing, opens
  <2>2. CASE DumpLocates
    BY <2>2 DEF DumpLocates
  <2>3. CASE DumpDone
    BY <2>3 DEF DumpDone, DumpReturns
  <2> QED
    BY <1>1, <2>1, <2>2, <2>3
<1>2. ASSUME NEW d \in Devices, DumpOpenFails(d) \/ DumpLocationFails(d)
      PROVE  /\ pc = "dumping"
             /\ UNCHANGED <<binding, pool, ifaces, ioOpen, testOpen, raOpen, held>>
             /\ Return(status) /\ UNCHANGED <<routed, fault>>
  BY <1>2 DEF DumpOpenFails, DumpLocationFails, DumpReturns, Dumping
<1>3. ASSUME NEW d \in Devices, DumpCloseFails(d) \/ DumpDevice(d)
      PROVE  /\ pc = "dumping" /\ d \in handles /\ CallBridge(BridgeOf[d])
             /\ UNCHANGED <<binding, pool, ifaces, ioOpen, testOpen, raOpen, held>>
             /\ UNCHANGED control \/ Return(status)
  BY <1>3 DEF DumpCloseFails, DumpDevice, DumpReads, DumpReturns, Dumping
<1> QED
  BY <1>1, <1>2, <1>3 DEF DumpInstalledDevices

LEMMA FreshMappingType ==
  ASSUME NEW c \in Controllers \cup {NULL}
  PROVE  FreshMapping(c) \in Mappings
  BY DEF FreshMapping, Mappings

LEMMA TypeInit == Init => TypeInv
<1> SUFFICES ASSUME Init PROVE TypeInv
  OBVIOUS
<1>1. PoolTypeOK
  <2>1. mapping \in [IoBlocks -> Mappings]
    BY FreshMappingType DEF Init
  <2>2. list \in Seq(IoBlocks) /\ ioLive \subseteq IoBlocks /\ raLive \subseteq RaBlocks
    BY DEF Init
  <2>3. raOriginal \in [RaBlocks -> HostBridges \cup {NULL}]
    BY DEF Init
  <2> QED
    BY <2>1, <2>2, <2>3 DEF PoolTypeOK
<1>2. HandlesTypeOK
  BY DEF Init, HandlesTypeOK
<1>3. ControlTypeOK
  <2>1. Len(list) = 0
    BY DEF Init
  <2>2. baseReady \in BOOLEAN /\ located \in BOOLEAN
    BY DEF Init
  <2>3. pc = "idle" /\ ctl = NULL /\ cur = 1 /\ status = "unset" /\ ret = "none"
    BY DEF Init
  <2> QED
    BY <2>1, <2>2, <2>3 DEF ControlTypeOK
<1>4. CallsTypeOK
  BY DEF Init, CallsTypeOK
<1>5. ListedHaveController
  BY DEF Init, ListedHaveController
<1> QED
  BY <1>1, <1>2, <1>3, <1>4, <1>5 DEF TypeInv, ShimTypeOK

LEMMA TypeSupported ==
  ASSUME TypeInv, NEW c \in Controllers, Supported(c)
  PROVE  TypeInv'
<1> USE DEF TypeInv, ShimTypeOK, ListedHaveController, PoolTypeOK, HandlesTypeOK, ControlTypeOK, CallsTypeOK, binding, pool, ifaces, opens, control, Return, ReturnSupported
<1>1. CASE SupportedUnlocated(c)
  BY <1>1 DEF SupportedUnlocated
<1>2. CASE SupportedAlreadyStarted(c)
  BY <1>2 DEF SupportedAlreadyStarted
<1>3. CASE SupportedTestRefused(c)
  BY <1>3 DEF SupportedTestRefused
<1>4. CASE SupportedMapped(c)
  BY <1>4 DEF SupportedMapped, AvailabilityTest
<1>5. CASE SupportedMappedRefused(c)
  BY <1>5 DEF SupportedMappedRefused, AvailabilityTest
<1>6. CASE SupportedAllocFails(c)
  BY <1>6 DEF SupportedAllocFails, AvailabilityTest
<1>7. ASSUME NEW b \in IoBlocks, SupportedInstallIoFails(c, b)
      PROVE  TypeInv'
  BY <1>7 DEF SupportedInstallIoFails, FirstProbe, AvailabilityTest, IsProtocolsMapped, Mappings, FreshMapping
<1>8. ASSUME NEW b \in IoBlocks, SupportedBaseRejects(c, b)
      PROVE  TypeInv'
  BY <1>8 DEF SupportedBaseRejects, FirstProbe, AvailabilityTest, IsProtocolsMapped, Mappings, FreshMapping
<1>9. ASSUME NEW b \in IoBlocks, NEW r \in RaBlocks, NEW h \in RaBlocks \cup {NULL},
             HookBoth(c, b, r, h), raIface' \subseteq RaBlocks, list' \in {list, Append(list, b)}
      PROVE  TypeInv'
  <2>1. /\ list = <<>> /\ AvailabilityTest(c)
        /\ mapping' = [mapping EXCEPT ![b] = [FreshMapping(c) EXCEPT !.parent = r, !.handle = h]]
    BY <1>9 DEF HookBoth, FirstProbe, IsProtocolsMapped
  <2>2. PoolTypeOK' /\ ListedHaveController'
    <3> DEFINE new == [FreshMapping(c) EXCEPT !.parent = r, !.handle = h]
    <3>1. new \in Mappings /\ new.controller = c
      BY DEF FreshMapping, Mappings
    <3> HIDE DEF new
    <3>2. mapping' \in [IoBlocks -> Mappings] /\ mapping'[b] = new
      BY <2>1, <3>1 DEF new
    <3>3. list' \in Seq(IoBlocks) /\ (\A i \in 1..Len(list') : list'[i] = b)
      <4>1. CASE list' = <<>>
        BY <4>1
      <4>2. CASE list' = <<b>>
        BY <4>2
      <4> QED
        BY <2>1, <1>9, <4>1, <4>2
    <3>4. /\ ioLive' \subseteq IoBlocks /\ raLive' \subseteq RaBlocks
          /\ raOriginal' \in [RaBlocks -> HostBridges \cup {NULL}]
      BY <1>9 DEF HookBoth
    <3> QED
      BY <3>1, <3>2, <3>3, <3>4
  <2>3. HandlesTypeOK'
    BY <2>1, <1>9 DEF HookBoth, AvailabilityTest
  <2>4. ControlTypeOK'
    BY <2>1, <2>2, <1>9 DEF HookBoth
  <2>5. CallsTypeOK'
    BY <1>9 DEF HookBoth
  <2> QED
    BY <2>5, <2>2, <2>3, <2>4
<1>10. ASSUME NEW b \in IoBlocks, SupportedAllocRaFails(c, b)
       PROVE  TypeInv'
  BY <1>10 DEF SupportedAllocRaFails, FirstProbe, AvailabilityTest, IsProtocolsMapped, Mappings, FreshMapping
<1>11. ASSUME NEW b \in IoBlocks, NEW r \in RaBlocks,
              SupportedInstallRaFails(c, b, r) \/ SupportedHooks(c, b, r)
       PROVE  TypeInv'
  <2>1. CASE SupportedInstallRaFails(c, b, r)
    BY <1>9, <2>1 DEF SupportedInstallRaFails
  <2>2. CASE SupportedHooks(c, b, r)
    BY <1>9, <2>2 DEF SupportedHooks
  <2> QED
    BY <1>11, <2>1, <2>2
<1> QED
  BY <1>1, <1>2, <1>3, <1>4, <1>5, <1>6, <1>7, <1>8, <1>10, <1>11 DEF Supported

\* A call through a substitute RBIO, the one no controller has included.
LEMMA CallBridgeType ==
  ASSUME TypeInv, NEW c \in Controllers, CallBridge(c)
  PROVE  CallsTypeOK'
<1> DEFINE f == FindRootBridgeIoProtocolMappingBySubstitute(held[c])
<1>1. Forward("rb", c, f.at, f.original)
  BY DEF CallBridge
<1>2. f.original \in Controllers \cup {NULL}
  <2> USE DEF TypeInv, ShimTypeOK, PoolTypeOK, HandlesTypeOK
  <2>1. CASE held[c] = NULL
    <3>1. {j \in 1..Len(list) : list[j] = held[c]} = {}
      BY <2>1
    <3>2. f.at = FirstAt({})
      BY <3>1 DEF FindRootBridgeIoProtocolMappingBySubstitute
    <3>3. FirstAt({}) = Len(list) + 1
      BY DEF FirstAt
    <3> QED
      BY <3>2, <3>3 DEF FindRootBridgeIoProtocolMappingBySubstitute
  <2>2. CASE held[c] \in IoBlocks
    BY <2>2 DEF FindRootBridgeIoProtocolMappingBySubstitute, Mappings
  <2> QED
    BY <2>1, <2>2
<1> QED
  BY <1>1, <1>2 DEF Forward, TypeInv, ShimTypeOK, CallsTypeOK

LEMMA TypeStart ==
  ASSUME TypeInv, Start
  PROVE  TypeInv'
<1> USE DEF TypeInv, ShimTypeOK, ListedHaveController, PoolTypeOK, HandlesTypeOK, ControlTypeOK, CallsTypeOK, binding, pool, ifaces, opens, control, Return, EnterLoop, NextEntry
<1>0. ASSUME NEW b \in IoBlocks, OpenIo(b)
      PROVE  /\ mapping' \in [IoBlocks -> Mappings]
             /\ mapping[b].controller \in Controllers
             /\ \A i \in 1..Len(list) : mapping'[list[i]].controller \in Controllers
  <2>1. mapping[b].controller \in Controllers /\ mapping[b] \in Mappings
    BY <1>0 DEF OpenIo, Opening
  <2>2. [mapping[b] EXCEPT !.isOpen = TRUE, !.original = mapping[b].controller,
                           !.segment = mapping[b].controller] \in Mappings
    BY <2>1 DEF Mappings
  <2> QED
    BY <2>1, <2>2, <1>0 DEF OpenIo
<1>1. CASE StartCall
  BY <1>1 DEF StartCall
<1>2. ASSUME NEW b \in IoBlocks, OpenSkip(b)
      PROVE  TypeInv'
  BY <1>2 DEF OpenSkip, Opening
<1>3. ASSUME NEW b \in IoBlocks, OpenIoFails(b)
      PROVE  TypeInv'
  BY <1>3 DEF OpenIoFails, Opening
<1>4. ASSUME NEW b \in IoBlocks, OpenRaFails(b)
      PROVE  TypeInv'
  <2>1. OpenIo(b)
    BY <1>4 DEF OpenRaFails
  <2>2. /\ mapping' \in [IoBlocks -> Mappings]
        /\ ListedHaveController'
        /\ ioOpen' \subseteq Controllers
    BY <1>0, <2>1 DEF OpenIo
  <2> QED
    BY <2>1, <2>2, <1>4 DEF OpenRaFails, OpenIo
<1>5. ASSUME NEW b \in IoBlocks, OpenBoth(b)
      PROVE  TypeInv'
  <2>1. OpenIo(b) /\ cur <= Len(list)
    BY <1>5 DEF OpenBoth, OpenIo, Opening
  <2>2. /\ mapping' \in [IoBlocks -> Mappings]
        /\ ListedHaveController'
        /\ ioOpen' \subseteq Controllers
        /\ mapping[b].controller \in Controllers
    BY <1>0, <2>1 DEF OpenIo
  <2>3. raOriginal' \in [RaBlocks -> HostBridges \cup {NULL}] /\ raOpen' \subseteq Controllers
    BY <2>2, <1>5 DEF OpenBoth
  <2> QED
    BY <2>1, <2>2, <2>3, <1>5 DEF OpenBoth, OpenIo
<1>6. CASE OpenDone
  BY <1>6 DEF OpenDone, Settled
<1>7. CASE BaseStarts
  BY <1>7 DEF BaseStarts, BaseAccepts
<1>8. CASE BaseStartRefused
  BY <1>8 DEF BaseStartRefused, BeginDump
<1>9. CASE BaseStarted
  BY <1>9 DEF BaseStarted, BeginDump
<1>10. CASE BaseStartFails
  BY <1>10 DEF BaseStartFails, BeginDump
<1>11. CASE DumpInstalledDevices
  <2>1. /\ pc = "dumping"
        /\ UNCHANGED <<binding, pool, ifaces, ioOpen, testOpen, raOpen, held>>
        /\ UNCHANGED control \/ Return(status)
    BY <1>11, DumpSteps
  <2>2. PoolTypeOK' /\ HandlesTypeOK' /\ ListedHaveController'
    BY <2>1
  <2>3. ControlTypeOK'
    BY <2>1
  <2>4. CASE UNCHANGED <<routed, fault>>
    BY <2>2, <2>3, <2>4
  <2>5. ASSUME NEW d \in Devices, CallBridge(BridgeOf[d])
        PROVE  CallsTypeOK'
    BY <2>5, CallBridgeType
  <2> QED
    BY <1>11, <2>2, <2>3, <2>4, <2>5, DumpSteps
<1> QED
  BY <1>1, <1>2, <1>3, <1>4, <1>5, <1>6, <1>7, <1>8, <1>9, <1>10, <1>11 DEF Start

LEMMA TypeCalls ==
  ASSUME TypeInv, (\E c \in Controllers : RbCall(c)) \/ RaCall
  PROVE  TypeInv'
<1> USE DEF TypeInv, ShimTypeOK, PoolTypeOK, HandlesTypeOK, ControlTypeOK
<1>1. ASSUME NEW c \in Controllers, RbCall(c)
      PROVE  CallsTypeOK'
  BY <1>1, CallBridgeType DEF RbCall
<1>2. CASE RaCall
  <2> DEFINE f == FindResourceAllocationProtocolMappingBySubstitute(mapping[held[ctl]].handle)
  <2>1. /\ ctl \in Controllers /\ mapping[held[ctl]].handle \in RaBlocks
        /\ Forward("ra", ctl, f.at, f.original)
    BY <1>2 DEF RaCall, AllocatorFound
  <2>2. f.original \in HostBridges \cup {NULL}
    BY <2>1 DEF FindResourceAllocationProtocolMappingBySubstitute
  <2>3. CallsTypeOK'
    BY <2>1, <2>2 DEF Forward, CallsTypeOK
  <2> QED
    BY <2>3, <1>2 DEF RaCall, binding, pool, ifaces, opens, control, ListedHaveController
<1>3. ASSUME NEW c \in Controllers, RbCall(c)
      PROVE  TypeInv'
  BY <1>1, <1>3 DEF RbCall, binding, pool, ifaces, opens, control, ListedHaveController
<1> QED
  BY <1>2, <1>3

LEMMA TypeStop ==
  ASSUME TypeInv, (\E c \in Controllers : Stop(c)) \/ CleanupDriver
  PROVE  TypeInv'
<1> USE DEF TypeInv, ShimTypeOK, ListedHaveController, PoolTypeOK, HandlesTypeOK, ControlTypeOK,
        CallsTypeOK, binding, pool, ifaces, opens, control, Return, EnterLoop, NextEntry
<1>1. ASSUME NEW c \in Controllers, Stop(c)
      PROVE  TypeInv'
  <2>1. CASE StopFails(c)
    BY <2>1 DEF StopFails
  <2>2. CASE StopWhole(c)
    BY <2>2 DEF StopWhole
  <2>3. CASE StopChildren(c)
    BY <2>3 DEF StopChildren
  <2> QED
    BY <1>1, <2>1, <2>2, <2>3 DEF Stop
<1>2. ASSUME NEW b \in IoBlocks, CloseIoFails(b)
      PROVE  TypeInv'
  BY <1>2 DEF CloseIoFails, Closing
<1>3. ASSUME NEW b \in IoBlocks, CloseRaFails(b)
      PROVE  TypeInv'
  BY <1>3 DEF CloseRaFails, CloseIo, Closing
<1>4. ASSUME NEW b \in IoBlocks, UninstallRaFails(b)
      PROVE  TypeInv'
  BY <1>4 DEF UninstallRaFails, CloseRa, CloseIo, Closing
<1>5. ASSUME NEW b \in IoBlocks, UninstallIoFails(b)
      PROVE  TypeInv'
  BY <1>5 DEF UninstallIoFails, UninstallRa, CloseRa, CloseIo, Closing
<1>6. ASSUME NEW b \in IoBlocks, CloseMapping(b)
      PROVE  TypeInv'
  BY <1>6 DEF CloseMapping, UninstallIo, UninstallRa, CloseRa, CloseIo, Closing
<1>7. ASSUME NEW b \in IoBlocks, CloseScrubbed(b)
      PROVE  TypeInv'
  BY <1>7 DEF CloseScrubbed, UninstallIo, UninstallRa, CloseRa, CloseIo, Closing
<1>8. CASE CloseDone
  BY <1>8 DEF CloseDone, Settled
<1> QED
  BY <1>1, <1>2, <1>3, <1>4, <1>5, <1>6, <1>7, <1>8 DEF CleanupDriver

LEMMA TypeStep ==
  ASSUME TypeInv, [Next]_vars
  PROVE  TypeInv'
<1> USE DEF TypeInv, ShimTypeOK, ListedHaveController, PoolTypeOK, HandlesTypeOK, ControlTypeOK,
        CallsTypeOK, binding, pool, ifaces, opens, control
<1>1. CASE BaseLoads
  BY <1>1 DEF BaseLoads
<1>2. CASE UNCHANGED vars
  BY <1>2 DEF vars
<1> QED
  BY <1>1, <1>2, TypeSupported, TypeStart, TypeCalls, TypeStop DEF Next, DriverBinding

\* What only the dump, and a Stop() that takes the functions away, touches.
LEMMA DumpUntouched ==
  ASSUME [Next]_vars
  PROVE  \/ DumpInstalledDevices
         \/ \E c \in Controllers : StopWhole(c) \/ StopChildren(c)
         \/ UNCHANGED dump
<1> USE DEF opens
<1>1. CASE BaseLoads \/ UNCHANGED vars
  BY <1>1 DEF BaseLoads, vars
<1>2. ASSUME NEW c \in Controllers, Supported(c)
      PROVE  UNCHANGED dump
  BY <1>2 DEF Supported, SupportedUnlocated, SupportedAlreadyStarted, SupportedTestRefused,
     SupportedMapped, SupportedMappedRefused, SupportedAllocFails, SupportedInstallIoFails,
     SupportedBaseRejects, SupportedAllocRaFails, SupportedInstallRaFails,
     SupportedHooks, HookBoth, FirstProbe,
     AvailabilityTest
<1>3. CASE Start
  BY <1>3 DEF Start, StartCall, OpenSkip, OpenIoFails, OpenRaFails, OpenBoth, OpenIo, OpenDone,
     BaseStarts, BaseStartRefused, BaseStarted, BaseStartFails
<1>4. CASE RaCall \/ \E c \in Controllers : RbCall(c) \/ StopFails(c)
  BY <1>4 DEF RaCall, RbCall, StopFails
<1>5. CASE CleanupDriver
  BY <1>5 DEF CleanupDriver, CloseIoFails, CloseRaFails, UninstallRaFails, UninstallIoFails,
     CloseMapping, CloseScrubbed, CloseDone, CloseRa, CloseIo, UninstallRa, UninstallIo
<1> QED
  BY <1>1, <1>2, <1>3, <1>4, <1>5 DEF Next, DriverBinding, Stop

LEMMA DumpTypeStep ==
  ASSUME TypeInv, DumpTypeOK, [Next]_vars
  PROVE  DumpTypeOK'
<1> USE DEF DumpTypeOK, DumpReturns
<1>1. CASE UNCHANGED dump
  BY <1>1 DEF dump
<1>2. CASE \E c \in Controllers : StopWhole(c) \/ StopChildren(c)
  BY <1>2 DEF StopWhole, StopChildren
<1>3. CASE DumpInstalledDevices
  <2>1. pc = "dumping" /\ ctl \in Controllers
    BY <1>3, DumpSteps DEF TypeInv, ShimTypeOK, ControlTypeOK
  <2>2. CASE DumpNothing
    BY <2>2, <1>1 DEF DumpNothing, opens
  <2>3. CASE DumpLocates
    BY <2>3 DEF DumpLocates
  <2>4. CASE DumpDone
    BY <2>4 DEF DumpDone
  <2>5. CASE \E d \in Devices : DumpOpenFails(d) \/ DumpLocationFails(d)
    BY <2>1, <2>5 DEF DumpOpenFails, DumpLocationFails
  <2>6. CASE \E d \in Devices : DumpCloseFails(d) \/ DumpDevice(d)
    BY <2>1, <2>6 DEF DumpCloseFails, DumpDevice, DumpReads
  <2> QED
    BY <1>3, <2>2, <2>3, <2>4, <2>5, <2>6 DEF DumpInstalledDevices
<1> QED
  BY <1>1, <1>2, <1>3, DumpUntouched

\* Every variable keeps its type, and the cursor of the loops stays in range,
\* whatever fails in the environment.
THEOREM TypeCorrect == Spec => []TypeOK
<1>1. TypeInv /\ DumpTypeOK => TypeOK
  BY DEF TypeInv, TypeOK
<1>2. TypeInv /\ DumpTypeOK /\ [Next]_vars => (TypeInv /\ DumpTypeOK)'
  BY TypeStep, DumpTypeStep
<1>3. Init => TypeInv /\ DumpTypeOK
  BY TypeInit DEF Init, DumpTypeOK
<1> QED
  BY <1>1, <1>2, <1>3, PTL DEF Spec

(***************************************************************************)
(* What holds whatever fails.  One mapping at most is listed; an entry the *)
(* loops have still to visit is allocated; an interface is installed on    *)
(* the controller its mapping was made for; the base driver holds what is  *)
(* installed.  BaseHoldsInstalled needs the third part: freeing a mapping  *)
(* must not take it from another controller.                               *)
(***************************************************************************)
IfacesAlive ==
  \A c \in Controllers : ioIface[c] # NULL =>
    ioIface[c] \in ioLive /\ mapping[ioIface[c]].controller = c

HeldIsInstalled == \A c \in Controllers : held[c] # NULL => held[c] = ioIface[c]

StructInv == AtMostOneMapping /\ ListedMappingsAlive /\ IfacesAlive /\ HeldIsInstalled

LEMMA StructInit == Init => StructInv
  BY DEF Init, StructInv, AtMostOneMapping, ListedMappingsAlive, IfacesAlive, HeldIsInstalled

\* A probe or a return that leaves the mappings alone.
LEMMA StructUnchanged ==
  ASSUME TypeInv, StructInv, fault = "none", UNCHANGED <<list, ioLive, mapping, ioIface, held>>,
         pc # "closing" \/ pc' # "closing" \/ cur' = cur,
         pc = "closing" /\ pc' # "closing" => cur <= Len(list)
  PROVE  StructInv'
<1>1. \A i \in 1..Len(list) : (pc = "closing" => i >= cur) => list[i] \in ioLive
  BY DEF StructInv, ListedMappingsAlive
<1>2. Len(list) \in Nat /\ Len(list) <= 1 /\ cur \in 1..(Len(list) + 1)
  BY DEF StructInv, AtMostOneMapping, TypeInv, ShimTypeOK, PoolTypeOK, ControlTypeOK
<1>3. pc # "closing" \/ cur' = cur \/ (pc' # "closing" /\ cur = 1)
  BY <1>2
<1>4. \A i \in 1..Len(list) : (pc' = "closing" => i >= cur') => list[i] \in ioLive
  BY <1>1, <1>2, <1>3
<1>5. ListedMappingsAlive'
  BY <1>4 DEF ListedMappingsAlive
<1> QED
  BY <1>5 DEF StructInv, AtMostOneMapping, IfacesAlive, HeldIsInstalled

LEMMA StructSupported ==
  ASSUME TypeInv, StructInv, fault = "none", NEW c \in Controllers, Supported(c)
  PROVE  StructInv'
<1> USE DEF pool, ifaces, opens, control, Return, ReturnSupported
<1>1. ASSUME \/ SupportedUnlocated(c) \/ SupportedAlreadyStarted(c) \/ SupportedTestRefused(c)
             \/ SupportedMapped(c) \/ SupportedMappedRefused(c) \/ SupportedAllocFails(c)
      PROVE  StructInv'
  <2>1. pc = "idle" /\ pc' \in {"idle", "ready"} /\ UNCHANGED <<list, ioLive, mapping, ioIface, held>>
    BY <1>1 DEF SupportedUnlocated, SupportedAlreadyStarted, SupportedTestRefused,
                SupportedMapped, SupportedMappedRefused, SupportedAllocFails
  <2> QED
    BY <2>1, StructUnchanged
<1>2. ASSUME NEW b \in IoBlocks, FirstProbe(c, b), pc' # "closing", UNCHANGED held,
             list' \in {list, Append(list, b)},
             \/ ioLive' = ioLive \cup {b}
             \/ ioLive' = ioLive /\ list' = list /\ ioIface' = ioIface,
             \/ ioIface' = ioIface
             \/ ioIface[c] = NULL /\ ioIface' = [ioIface EXCEPT ![c] = b],
             NEW new, new.controller = c, mapping' = [mapping EXCEPT ![b] = new]
      PROVE  StructInv'
  <2>1. list = <<>> /\ b \notin ioLive /\ Len(list) = 0
    BY <1>2 DEF FirstProbe, IsProtocolsMapped
  <2>2. /\ AtMostOneMapping'
        /\ ListedMappingsAlive'
    <3>1. CASE list' = <<>>
      BY <3>1 DEF AtMostOneMapping, ListedMappingsAlive
    <3>2. CASE list' = <<b>> /\ ioLive' = ioLive \cup {b}
      BY <3>2 DEF AtMostOneMapping, ListedMappingsAlive
    <3> QED
      BY <2>1, <1>2, <3>1, <3>2
  <2>3. IfacesAlive'
    BY <2>1, <1>2 DEF StructInv, IfacesAlive, TypeInv, ShimTypeOK, PoolTypeOK, HandlesTypeOK
  <2>4. HeldIsInstalled'
    BY <1>2 DEF StructInv, HeldIsInstalled, TypeInv, ShimTypeOK, HandlesTypeOK
  <2> QED
    BY <2>2, <2>3, <2>4 DEF StructInv
<1>3. \A r, h : [FreshMapping(c) EXCEPT !.parent = r, !.handle = h].controller = c
  BY DEF FreshMapping
<1>4. FreshMapping(c).controller = c
  BY DEF FreshMapping
<1>5. ASSUME NEW b \in IoBlocks, SupportedInstallIoFails(c, b)
      PROVE  StructInv'
  BY <1>2, <1>4, <1>5 DEF SupportedInstallIoFails
<1>6. ASSUME NEW b \in IoBlocks, SupportedBaseRejects(c, b)
      PROVE  StructInv'
  BY <1>2, <1>4, <1>6 DEF SupportedBaseRejects
<1>9. ASSUME NEW b \in IoBlocks, SupportedAllocRaFails(c, b)
      PROVE  StructInv'
  <2>1. pc' # "closing"
    BY <1>9 DEF SupportedAllocRaFails, FirstProbe
  <2> QED
    BY <1>2, <1>4, <1>9, <2>1 DEF SupportedAllocRaFails
<1>7. ASSUME NEW b \in IoBlocks, NEW r \in RaBlocks, SupportedInstallRaFails(c, b, r)
      PROVE  StructInv'
  BY <1>2, <1>3, <1>7 DEF SupportedInstallRaFails, HookBoth
<1>8. ASSUME NEW b \in IoBlocks, NEW r \in RaBlocks, SupportedHooks(c, b, r)
      PROVE  StructInv'
  BY <1>2, <1>3, <1>8 DEF SupportedHooks, HookBoth
<1> QED
  BY <1>1, <1>5, <1>6, <1>7, <1>8, <1>9 DEF Supported

LEMMA StructStart ==
  ASSUME TypeInv, StructInv, fault = "none", Start
  PROVE  StructInv'
<1> USE DEF pool, ifaces, opens, control, Return, EnterLoop, NextEntry, BeginDump
<1>1. CASE StartCall \/ OpenDone \/ BaseStartRefused \/ BaseStarted
  <2>1. pc # "closing" /\ pc' # "closing" /\ UNCHANGED <<list, ioLive, mapping, ioIface, held>>
    BY <1>1 DEF StartCall, OpenDone, BaseStartRefused, BaseStarted
  <2> QED
    BY <2>1, StructUnchanged
<1>0. CASE DumpInstalledDevices
  <2>1. pc # "closing" /\ pc' # "closing" /\ UNCHANGED <<list, ioLive, mapping, ioIface, held>>
    BY <1>0, DumpSteps
  <2> QED
    BY <2>1, StructUnchanged
<1>2. ASSUME NEW b \in IoBlocks, OpenSkip(b) \/ OpenIoFails(b)
      PROVE  StructInv'
  <2>1. pc # "closing" /\ pc' # "closing" /\ UNCHANGED <<list, ioLive, mapping, ioIface, held>>
    BY <1>2 DEF OpenSkip, OpenIoFails, Opening
  <2> QED
    BY <2>1, StructUnchanged
<1>3. ASSUME NEW b \in IoBlocks, OpenRaFails(b) \/ OpenBoth(b)
      PROVE  StructInv'
  <2>1. /\ pc = "opening" /\ pc' # "closing" /\ UNCHANGED <<list, ioLive, ioIface, held>>
        /\ mapping' = [mapping EXCEPT ![b].isOpen = TRUE, ![b].original = mapping[b].controller,
                                      ![b].segment = mapping[b].controller]
    BY <1>3 DEF OpenRaFails, OpenBoth, OpenIo, Opening
  <2>2. \A e \in IoBlocks : mapping'[e].controller = mapping[e].controller
    BY <2>1 DEF TypeInv, ShimTypeOK, PoolTypeOK, Mappings
  <2>3. AtMostOneMapping' /\ ListedMappingsAlive' /\ HeldIsInstalled'
    BY <2>1 DEF StructInv, AtMostOneMapping, ListedMappingsAlive, HeldIsInstalled
  <2>4. ASSUME NEW c \in Controllers, ioIface[c] # NULL
        PROVE  ioIface[c] \in ioLive /\ mapping'[ioIface[c]].controller = c
    <3>1. ioIface[c] \in ioLive /\ mapping[ioIface[c]].controller = c
      BY <2>4 DEF StructInv, IfacesAlive
    <3>2. ioIface[c] \in IoBlocks
      BY <3>1 DEF TypeInv, ShimTypeOK, PoolTypeOK
    <3> QED
      BY <2>2, <3>1, <3>2
  <2>5. IfacesAlive'
    BY <2>1, <2>4 DEF IfacesAlive
  <2> QED
    BY <2>3, <2>5 DEF StructInv
<1>4. CASE BaseStarts \/ BaseStartFails
  <2>1. /\ pc # "closing" /\ pc' # "closing" /\ UNCHANGED <<list, ioLive, ioIface, mapping>>
        /\ \/ held' = [held EXCEPT ![ctl] = ioIface[ctl]]
           \/ held' = [held EXCEPT ![ctl] = NULL]
    BY <1>4 DEF BaseStarts, BaseStartFails
  <2> QED
    BY <2>1 DEF StructInv, AtMostOneMapping, ListedMappingsAlive, IfacesAlive,
                HeldIsInstalled, TypeInv, ShimTypeOK, HandlesTypeOK
<1> QED
  BY <1>0, <1>1, <1>2, <1>3, <1>4 DEF Start

LEMMA StructStop ==
  ASSUME TypeInv, StructInv, fault = "none", (\E c \in Controllers : Stop(c)) \/ CleanupDriver
  PROVE  StructInv'
<1> USE DEF pool, ifaces, opens, control, Return, EnterLoop, NextEntry
<1>1. ASSUME NEW c \in Controllers, Stop(c)
      PROVE  StructInv'
  <2>1. CASE StopFails(c) \/ StopChildren(c)
    <3>1. pc = "idle" /\ UNCHANGED <<list, ioLive, mapping, ioIface, held>>
      BY <2>1 DEF StopFails, StopChildren
    <3> QED
      BY <3>1, StructUnchanged
  <2>2. CASE StopWhole(c)
    <3>1. /\ pc = "idle" /\ UNCHANGED <<list, ioLive, mapping, ioIface, fault>>
          /\ held' = [held EXCEPT ![c] = NULL]
      BY <2>2 DEF StopWhole
    <3> QED
      BY <3>1 DEF StructInv, AtMostOneMapping, ListedMappingsAlive, IfacesAlive,
                  HeldIsInstalled, TypeInv, ShimTypeOK, HandlesTypeOK
  <2> QED
    BY <1>1, <2>1, <2>2 DEF Stop
<1>2. ASSUME NEW b \in IoBlocks,
             CloseIoFails(b) \/ CloseRaFails(b) \/ UninstallRaFails(b) \/ UninstallIoFails(b)
      PROVE  StructInv'
  <2>1. /\ Closing(b) /\ pc' = "idle"
        /\ UNCHANGED <<list, ioLive, mapping, ioIface, held>>
    BY <1>2 DEF CloseIoFails, CloseRaFails, UninstallRaFails, UninstallIoFails,
                UninstallRa, CloseRa, CloseIo
  <2> QED
    BY <2>1, StructUnchanged DEF Closing
<1>3. ASSUME NEW b \in IoBlocks, CloseMapping(b) \/ CloseScrubbed(b)
      PROVE  StructInv'
  <2>1. /\ Closing(b) /\ IoRemovable(b) /\ UNCHANGED <<list, mapping, held>>
        /\ ioIface' = [ioIface EXCEPT ![ctl] = NULL] /\ ioLive' = ioLive \ {b}
        /\ \/ fault' = "freed"
           \/ cur' = cur + 1 /\ pc' = pc
    BY <1>3 DEF CloseMapping, CloseScrubbed, UninstallIo, UninstallRa, CloseRa, CloseIo
  <2>2. Len(list) \in Nat /\ Len(list) <= 1 /\ cur \in Nat /\ cur >= 1 /\ cur <= Len(list)
    BY <2>1 DEF Closing, StructInv, AtMostOneMapping, TypeInv, ShimTypeOK, PoolTypeOK, ControlTypeOK
  <2>3. AtMostOneMapping' /\ ListedMappingsAlive'
    BY <2>1, <2>2 DEF Closing, AtMostOneMapping, ListedMappingsAlive
  <2>4. ctl \in Controllers /\ ioIface[ctl] = b
    BY <2>1 DEF Closing, IoRemovable, TypeInv, ShimTypeOK, ControlTypeOK
  <2>5. IfacesAlive'
    BY <2>1, <2>4 DEF StructInv, IfacesAlive, TypeInv, ShimTypeOK, HandlesTypeOK
  <2>6. HeldIsInstalled'
    BY <2>1, <2>4 DEF IoRemovable, StructInv, HeldIsInstalled, TypeInv, ShimTypeOK, HandlesTypeOK
  <2> QED
    BY <2>3, <2>5, <2>6 DEF StructInv
<1>4. CASE CloseDone
  <2>1. list' = <<>> /\ UNCHANGED <<ioLive, mapping, ioIface, held>>
    BY <1>4 DEF CloseDone
  <2> QED
    BY <2>1 DEF StructInv, AtMostOneMapping, ListedMappingsAlive, IfacesAlive, HeldIsInstalled
<1> QED
  BY <1>1, <1>2, <1>3, <1>4 DEF CleanupDriver

LEMMA StructStep ==
  ASSUME TypeInv, StructInv, [Next]_vars
  PROVE  StructInv'
<1> USE DEF binding, pool, ifaces, opens, control
<1>1. ASSUME BaseLoads \/ RaCall \/ (\E c \in Controllers : RbCall(c)), fault = "none"
      PROVE  StructInv'
  <2>1. UNCHANGED <<list, ioLive, mapping, ioIface, held, pc, cur>>
    BY <1>1 DEF BaseLoads, RaCall, RbCall
  <2> QED
    BY <2>1, <1>1, StructUnchanged
<1>2. CASE UNCHANGED vars
  BY <1>2 DEF vars, StructInv, AtMostOneMapping, ListedMappingsAlive, IfacesAlive, HeldIsInstalled
<1> QED
  BY <1>1, <1>2, StructSupported, StructStart, StructStop DEF Next, DriverBinding

\* As long as a dump lasts, nothing else touches what it goes by.
LEMMA DumpAlone ==
  ASSUME pc = "dumping", [Next]_vars, ~DumpInstalledDevices
  PROVE  UNCHANGED <<pc, held, dump>>
<1>1. CASE UNCHANGED vars \/ BaseLoads
  BY <1>1 DEF vars, BaseLoads, opens, control
<1>2. CASE \E c \in Controllers : RbCall(c)
  BY <1>2 DEF RbCall, opens, control
<1>3. ASSUME NEW c \in Controllers
      PROVE  ~Supported(c) /\ ~Stop(c)
  BY DEF Supported, SupportedUnlocated, SupportedAlreadyStarted, SupportedTestRefused,
     SupportedMapped, SupportedMappedRefused, SupportedAllocFails, SupportedInstallIoFails,
     SupportedBaseRejects, SupportedAllocRaFails, SupportedInstallRaFails,
     SupportedHooks, HookBoth, FirstProbe,
     Stop, StopFails, StopWhole, StopChildren
<1>4. ~Start /\ ~RaCall
  BY DEF Start, StartCall, OpenSkip, OpenIoFails, OpenRaFails, OpenBoth, OpenIo,
     Opening, OpenDone, BaseStarts, BaseStartRefused, BaseStarted, BaseStartFails, RaCall
<1>5. ~CleanupDriver
  BY DEF CleanupDriver, CloseIoFails, CloseRaFails, UninstallRaFails, UninstallIoFails,
     CloseMapping, CloseScrubbed, CloseDone, CloseRa, CloseIo, UninstallRa, UninstallIo,
     Closing
<1> QED
  BY <1>1, <1>2, <1>3, <1>4, <1>5 DEF Next, DriverBinding

LEMMA DumpVisitsStep ==
  ASSUME DumpVisitsStarted, [Next]_vars
  PROVE  DumpVisitsStarted'
<1> USE DEF DumpVisitsStarted, DumpReturns, Return, Installed
<1>1. CASE DumpInstalledDevices
  <2>1. pc = "dumping" /\ UNCHANGED held /\ (UNCHANGED control \/ Return(status))
    BY <1>1, DumpSteps
  <2>2. CASE DumpNothing
    BY <2>2 DEF DumpNothing, opens, dump, control
  <2>3. CASE DumpLocates
    BY <2>1, <2>3, NullAssumption DEF DumpLocates, control
  <2>4. CASE DumpDone
    BY <2>4 DEF DumpDone
  <2>5. CASE \E d \in Devices : DumpOpenFails(d) \/ DumpLocationFails(d) \/ DumpCloseFails(d)
    BY <2>5 DEF DumpOpenFails, DumpLocationFails, DumpCloseFails
  <2>6. ASSUME NEW d \in Devices, DumpDevice(d)
        PROVE  DumpVisitsStarted'
    BY <2>1, <2>6 DEF DumpDevice, control
  <2> QED
    BY <1>1, <2>2, <2>3, <2>4, <2>5, <2>6 DEF DumpInstalledDevices
<1>2. CASE pc = "dumping" /\ ~DumpInstalledDevices
  BY <1>2, DumpAlone DEF dump
<1>3. CASE pc # "dumping" /\ ~DumpInstalledDevices
  BY <1>3, DumpUntouched DEF dump, StopWhole, StopChildren
<1> QED
  BY <1>1, <1>2, <1>3

\* What Start() is about to report is so already: a bridge that the base driver
\* had before the call carries the record the availability test left on it.
StartsFresh ==
  /\ pc \in {"ready", "opening", "baseStart"} => held[ctl] = NULL \/ ctl \in testOpen
  /\ pc = "enumerating" => held[ctl] # NULL
  /\ pc = "dumping" => IF status = "ok" THEN held[ctl] # NULL
                                       ELSE held[ctl] = NULL \/ ctl \in testOpen

LEMMA StartsFreshStep ==
  ASSUME TypeInv, StructInv, StartsFresh, [Next]_vars
  PROVE  StartsFresh'
<1> USE DEF StartsFresh, opens, control, Return, ReturnSupported, EnterLoop, NextEntry, BeginDump
<1>1. ASSUME NEW c \in Controllers, Supported(c)
      PROVE  StartsFresh'
  <2>1. ASSUME pc' = "ready"
        PROVE  ctl' = c /\ UNCHANGED held /\ (held[c] = NULL \/ c \in testOpen')
    <3>1. CASE SupportedAlreadyStarted(c)
      BY <3>1 DEF SupportedAlreadyStarted
    <3>2. CASE SupportedMapped(c)
      BY <3>2 DEF SupportedMapped, BaseAccepts
    <3>3. ASSUME NEW b \in IoBlocks, NEW r \in RaBlocks, NEW h, HookBoth(c, b, r, h)
          PROVE  ctl' = c /\ UNCHANGED held /\ held[c] = NULL
      BY <3>3 DEF HookBoth, StructInv, HeldIsInstalled
    <3> QED
      BY <1>1, <2>1, <3>1, <3>2, <3>3 DEF Supported, SupportedUnlocated, SupportedTestRefused,
         SupportedMappedRefused, SupportedAllocFails, SupportedInstallIoFails,
         SupportedBaseRejects, SupportedAllocRaFails, SupportedInstallRaFails,
         SupportedHooks, FirstProbe
  <2>2. pc' \in {"idle", "ready"}
    BY <1>1 DEF Supported, SupportedUnlocated, SupportedAlreadyStarted, SupportedTestRefused,
       SupportedMapped, SupportedMappedRefused, SupportedAllocFails, SupportedInstallIoFails,
       SupportedBaseRejects, SupportedAllocRaFails, SupportedInstallRaFails,
       SupportedHooks, HookBoth, FirstProbe
  <2> QED
    BY <2>1, <2>2
<1>2. CASE StartCall \/ OpenDone
  BY <1>2 DEF StartCall, OpenDone
<1>3. CASE \E b \in IoBlocks : OpenSkip(b) \/ OpenIoFails(b) \/ OpenRaFails(b) \/ OpenBoth(b)
  BY <1>3 DEF OpenSkip, OpenIoFails, OpenRaFails, OpenBoth, OpenIo, Opening
<1>4. CASE BaseStarts
  BY <1>4 DEF BaseStarts, BaseAccepts, TypeInv, ShimTypeOK, HandlesTypeOK, ControlTypeOK
<1>5. CASE BaseStartRefused \/ BaseStarted
  BY <1>5 DEF BaseStartRefused, BaseStarted
<1>6. CASE BaseStartFails
  BY <1>6 DEF BaseStartFails, TypeInv, ShimTypeOK, HandlesTypeOK, ControlTypeOK
<1>7. CASE DumpInstalledDevices
  BY <1>7, DumpSteps
<1>8. CASE BaseLoads \/ RaCall \/ (\E c \in Controllers : RbCall(c)) \/ UNCHANGED vars
  BY <1>8 DEF BaseLoads, RaCall, RbCall, vars
<1>9. ASSUME (\E c \in Controllers : Stop(c)) \/ CleanupDriver
      PROVE  pc' \in {"idle", "closing"} \/ UNCHANGED <<pc, held, ctl>>
  BY <1>9 DEF Stop, StopFails, StopWhole, StopChildren, CleanupDriver, CloseIoFails,
     CloseRaFails, UninstallRaFails, UninstallIoFails, CloseMapping, CloseScrubbed, CloseDone,
     CloseRa, CloseIo, UninstallRa, UninstallIo, Closing
<1>10. CASE (\E c \in Controllers : Stop(c)) \/ CleanupDriver
  <2>1. pc \in {"idle", "closing"}
    BY <1>10 DEF Stop, StopFails, StopWhole, StopChildren, CleanupDriver, CloseIoFails,
       CloseRaFails, UninstallRaFails, UninstallIoFails, CloseMapping, CloseScrubbed, CloseDone,
       CloseRa, CloseIo, UninstallRa, UninstallIo, Closing
  <2> QED
    BY <1>9, <1>10, <2>1
<1> QED
  BY <1>1, <1>2, <1>3, <1>4, <1>5, <1>6, <1>7, <1>8, <1>10 DEF Next, DriverBinding, Start

LEMMA DumpKeepsResult ==
  ASSUME StartsFresh, [Next]_vars, pc = "dumping", pc' = "idle"
  PROVE  IF ret' = "ok" THEN held'[ctl] # NULL ELSE held'[ctl] = NULL \/ ctl \in testOpen'
<1>1. DumpInstalledDevices
  BY DumpAlone
<1>2. Return(status) /\ UNCHANGED <<held, testOpen>>
  BY <1>1, DumpSteps DEF control
<1> QED
  BY <1>2 DEF StartsFresh, Return

\* What Start() returns is what became of the bridge, whatever the dump met and
\* whatever fails.
THEOREM StartReportsBaseAlways == Spec => StartReportsBase
<1>1. Init => StartsFresh
  BY DEF Init, StartsFresh
<1>2. StartsFresh /\ [Next]_vars =>
        [pc = "dumping" /\ pc' = "idle" =>
           IF ret' = "ok" THEN held'[ctl] # NULL
                          ELSE held'[ctl] = NULL \/ ctl \in testOpen']_vars
  BY DumpKeepsResult
<1> QED
  BY <1>1, <1>2, TypeInit, TypeStep, StructInit, StructStep, StartsFreshStep, PTL
     DEF Spec, StartReportsBase

\* A probe that succeeds has the substitute ready for the base driver, whatever
\* fails, but for the bridge a failed close has left its record on.
THEOREM SupportedOkMeansHookedAlways == Spec => SupportedOkMeansHooked
<1>1. TypeInv /\ StructInv /\ [Next]_vars =>
        [pc = "idle" /\ pc' = "ready" =>
           \/ ioIface'[ctl'] # NULL /\ held'[ctl'] = NULL
           \/ ctl' \in testOpen]_vars
  <2> SUFFICES ASSUME TypeInv, StructInv, Next, pc = "idle", pc' = "ready"
               PROVE  \/ ioIface'[ctl'] # NULL /\ held'[ctl'] = NULL
                      \/ ctl' \in testOpen
    BY DEF vars, control
  <2>1. PICK c \in Controllers : Supported(c)
    <3>1. ~ \E c \in Controllers : Stop(c)
      BY DEF Stop, StopFails, StopWhole, StopChildren, Return, EnterLoop
    <3>2. ~Start /\ ~CleanupDriver
      BY DEF Start, StartCall, Opening, OpenSkip, OpenIoFails, OpenIo, OpenRaFails, OpenBoth, OpenDone,
             BaseStarts, BaseStartRefused, BaseStarted, BaseStartFails, DumpInstalledDevices,
             DumpNothing, DumpLocates, Dumping, DumpDevice, DumpOpenFails, DumpLocationFails, DumpReads,
             DumpCloseFails, DumpDone, DumpReturns, Return, CleanupDriver, Closing, CloseIo,
             CloseIoFails, CloseRaFails, CloseRa, UninstallRaFails, UninstallRa, UninstallIoFails,
             UninstallIo, CloseMapping, CloseScrubbed, CloseDone
    <3>3. ~BaseLoads /\ ~RaCall /\ \A c \in Controllers : ~RbCall(c)
      BY DEF BaseLoads, RaCall, RbCall, control
    <3> QED
      BY <3>1, <3>2, <3>3 DEF Next, DriverBinding
  <2>2. CASE SupportedAlreadyStarted(c)
    BY <2>2 DEF SupportedAlreadyStarted, ReturnSupported
  <2>3. CASE SupportedMapped(c)
    BY <2>3 DEF SupportedMapped, BaseAccepts, ReturnSupported, ifaces
  <2>4. ASSUME NEW b \in IoBlocks, NEW r \in RaBlocks, NEW h, HookBoth(c, b, r, h)
        PROVE  ctl' = c /\ ioIface'[c] # NULL /\ held'[c] = NULL
    <3>1. ctl' = c /\ ioIface'[c] = b /\ held' = held /\ ioIface[c] = NULL
      BY <2>4 DEF HookBoth, ReturnSupported, TypeInv, ShimTypeOK, HandlesTypeOK
    <3> QED
      BY <3>1 DEF StructInv, HeldIsInstalled
  <2>5. CASE \/ SupportedUnlocated(c) \/ SupportedTestRefused(c) \/ SupportedMappedRefused(c)
             \/ \E b \in IoBlocks : SupportedInstallIoFails(c, b) \/ SupportedBaseRejects(c, b)
    BY <2>5 DEF SupportedUnlocated, SupportedTestRefused, SupportedMappedRefused,
                SupportedInstallIoFails, SupportedBaseRejects, Return
  <2>6. CASE SupportedAllocFails(c) \/ \E b \in IoBlocks : SupportedAllocRaFails(c, b)
    BY <2>6 DEF SupportedAllocFails, SupportedAllocRaFails, control
  <2> QED
    BY <2>1, <2>2, <2>3, <2>4, <2>5, <2>6 DEF Supported, SupportedInstallRaFails, SupportedHooks
<1> QED
  BY <1>1, TypeInit, TypeStep, StructInit, StructStep, PTL DEF Spec, SupportedOkMeansHooked

\* One mapping at most is ever listed, whatever fails: the cleanup may release
\* every entry as Controller's.
THEOREM AtMostOneMappingAlways == Spec => []AtMostOneMapping
<1>1. StructInv => AtMostOneMapping
  BY DEF StructInv
<1> QED
  BY <1>1, TypeInit, TypeStep, StructInit, StructStep, PTL DEF Spec

\* No loop of the driver meets a freed mapping before its first undefined
\* access, whatever fails.
THEOREM ListedMappingsAliveAlways == Spec => []ListedMappingsAlive
<1>1. StructInv => ListedMappingsAlive
  BY DEF StructInv
<1> QED
  BY <1>1, TypeInit, TypeStep, StructInit, StructStep, PTL DEF Spec

\* What the base driver has open is installed and allocated, whatever fails.
THEOREM BaseHoldsInstalledAlways == Spec => []BaseHoldsInstalled
<1>1. StructInv => BaseHoldsInstalled
  BY DEF StructInv, IfacesAlive, HeldIsInstalled, BaseHoldsInstalled
<1> QED
  BY <1>1, TypeInit, TypeStep, StructInit, StructStep, PTL DEF Spec

(***************************************************************************)
(* What holds as long as no hazard is intolerable: every call of the base  *)
(* driver reaches its own original.  A call walks the list, so the         *)
(* invariant follows the chain from what the base driver holds over what   *)
(* is installed and listed to the originals behind it, through the loops   *)
(* of Start() and Stop() that build this chain and take it down.           *)
(***************************************************************************)
Tolerant == Hazards \cap Intolerable = {}

LEMMA TolerantMay ==
  Tolerant => /\ ~May("Alloc") /\ ~May("InstallRa") /\ ~May("OpenRa")
              /\ ~May("UninstallIo") /\ ~May("Scrub")
  BY DEF Tolerant, Intolerable, May

LEMMA ConnectedInit == Init => Connected
  BY DEF Init, Connected, PendingWhole, NothingOffList, HeldIsOpen, LoopProgress, RoutedHome,
         NoFault, NoRoute

\* An empty list with nothing installed connects nothing.
LEMMA ConnectedEmpty ==
  ASSUME list = <<>>, \A c \in Controllers : ioIface[c] = NULL /\ held[c] = NULL,
         pc # "enumerating", RoutedHome, NoFault
  PROVE  Connected
<1>1. Len(list) = 0
  OBVIOUS
<1> QED
  BY <1>1 DEF Connected, PendingWhole, NothingOffList, HeldIsOpen, LoopProgress

\* With an empty list nothing is installed and nothing is held.
LEMMA EmptyMeansUnhooked ==
  ASSUME TypeInv, Connected, \A i \in 1..Len(list) : ~Pending(i), NEW c \in Controllers
  PROVE  ioIface[c] = NULL /\ held[c] = NULL
<1>1. ioIface[c] = NULL
  BY DEF Connected, NothingOffList
<1> QED
  BY <1>1, NullAssumption DEF Connected, HeldIsOpen, TypeInv, ShimTypeOK, HandlesTypeOK

LEMMA OnlyPosition == \A n \in Nat : \A i \in 1..n : n <= 1 => i = 1 /\ n = 1
  OBVIOUS

\* What is installed is the one entry of the list, and its mapping is whole.
LEMMA InstalledIsListed ==
  ASSUME TypeInv, StructInv, Connected, NEW c \in Controllers, ioIface[c] # NULL
  PROVE  /\ Len(list) = 1 /\ list[1] = ioIface[c] /\ Pending(1)
         /\ WholeMapping(list[1]) /\ mapping[list[1]].controller = c
<1>1. Len(list) \in Nat /\ Len(list) <= 1
  BY DEF StructInv, AtMostOneMapping, TypeInv, ShimTypeOK, PoolTypeOK
<1>2. PICK i \in 1..Len(list) : Pending(i) /\ list[i] = ioIface[c]
  BY DEF Connected, NothingOffList
<1>3. i = 1 /\ Len(list) = 1
  BY <1>1, <1>2, OnlyPosition
<1> QED
  BY <1>2, <1>3 DEF Connected, NothingOffList, PendingWhole

\* A step of control only, into or out of a loop.
LEMMA ConnectedUnchanged ==
  ASSUME TypeInv, StructInv, Connected, UNCHANGED <<pool, ifaces, held, routed, fault>>,
         pc = "closing" => cur <= Len(list), pc' = "closing" => cur' = 1, LoopProgress'
  PROVE  Connected'
<1>1. Len(list) \in Nat /\ Len(list) <= 1 /\ cur \in 1..(Len(list) + 1)
  BY DEF StructInv, AtMostOneMapping, TypeInv, ShimTypeOK, PoolTypeOK, ControlTypeOK
<1>2. \A i \in 1..Len(list) : Pending(i)
  BY <1>1 DEF Pending
<1>3. \A i \in 1..Len(list) : Pending(i)'
  BY <1>1 DEF Pending, pool
<1>4. PendingWhole'
  BY <1>2 DEF Connected, PendingWhole, WholeMapping, pool, ifaces
<1>5. NothingOffList'
  BY <1>3 DEF Connected, NothingOffList, pool, ifaces
<1>6. HeldIsOpen' /\ RoutedHome' /\ NoFault'
  BY DEF Connected, HeldIsOpen, RoutedHome, NoFault, pool, ifaces
<1> QED
  BY <1>4, <1>5, <1>6 DEF Connected

LEMMA ConnectedSupported ==
  ASSUME Tolerant, TypeInv, StructInv, Connected, NEW c \in Controllers, Supported(c)
  PROVE  Connected'
<1> USE TolerantMay DEF control, Return, ReturnSupported
<1>1. ASSUME \/ SupportedUnlocated(c) \/ SupportedAlreadyStarted(c) \/ SupportedTestRefused(c)
             \/ SupportedMapped(c) \/ SupportedMappedRefused(c)
      PROVE  Connected'
  <2>1. /\ pc = "idle" /\ pc' \in {"idle", "ready"}
        /\ UNCHANGED <<pool, ifaces, held, routed, fault>>
    BY <1>1 DEF SupportedUnlocated, SupportedAlreadyStarted, SupportedTestRefused,
                SupportedMapped, SupportedMappedRefused
  <2> QED
    BY <2>1, ConnectedUnchanged DEF LoopProgress
<1>2. ASSUME NEW b \in IoBlocks, FirstProbe(c, b)
      PROVE  /\ list = <<>> /\ RoutedHome /\ NoFault
             /\ \A d \in Controllers : ioIface[d] = NULL /\ held[d] = NULL
  <2>1. list = <<>> /\ Len(list) = 0
    BY <1>2 DEF FirstProbe, IsProtocolsMapped
  <2> QED
    BY <2>1, EmptyMeansUnhooked DEF Connected
<1>3. ASSUME NEW b \in IoBlocks, SupportedInstallIoFails(c, b) \/ SupportedBaseRejects(c, b)
      PROVE  Connected'
  <2>1. FirstProbe(c, b) /\ pc' = "idle" /\ UNCHANGED <<list, ioIface, held, routed, fault>>
    BY <1>3 DEF SupportedInstallIoFails, SupportedBaseRejects, ifaces
  <2>2. /\ list' = <<>> /\ RoutedHome' /\ NoFault'
        /\ \A d \in Controllers : ioIface'[d] = NULL /\ held'[d] = NULL
    BY <1>2, <2>1 DEF RoutedHome, NoFault
  <2>3. Len(list') = 0
    BY <2>2
  <2> QED
    BY <2>1, <2>2, <2>3 DEF Connected, PendingWhole, NothingOffList, HeldIsOpen, LoopProgress
<1>4. ASSUME NEW b \in IoBlocks, NEW r \in RaBlocks, SupportedHooks(c, b, r)
      PROVE  Connected'
  <2> DEFINE new == [FreshMapping(c) EXCEPT !.parent = r, !.handle = r]
  <2>1. new.controller = c /\ new.parent = r /\ new.handle = r /\ new.isOpen = FALSE
    BY DEF FreshMapping
  <2> HIDE DEF new
  <2>2. /\ FirstProbe(c, b) /\ pc' = "ready" /\ UNCHANGED <<held, routed, fault>>
        /\ ioIface' = [ioIface EXCEPT ![c] = b] /\ ioLive' = ioLive \cup {b}
        /\ mapping' = [mapping EXCEPT ![b] = new] /\ list' = Append(list, b)
    BY <1>4 DEF SupportedHooks, HookBoth, new
  <2>3. list' = <<b>> /\ Len(list') = 1 /\ list'[1] = b
    <3>1. list = <<>>
      BY <2>2, <1>2
    <3> QED
      BY <2>2, <3>1
  <2>4. mapping'[b] = new
    BY <2>2 DEF TypeInv, ShimTypeOK, PoolTypeOK
  <2>5. \A d \in Controllers : ioIface'[d] = (IF d = c THEN b ELSE NULL)
    BY <2>2, <1>2 DEF TypeInv, ShimTypeOK, HandlesTypeOK
  <2>6. Pending(1)' /\ WholeMapping(b)'
    BY <2>1, <2>2, <2>3, <2>4, <2>5 DEF Pending, WholeMapping
  <2>7. PendingWhole' /\ NothingOffList'
    BY <2>1, <2>3, <2>4, <2>5, <2>6 DEF PendingWhole, NothingOffList
  <2>8. HeldIsOpen' /\ LoopProgress' /\ RoutedHome' /\ NoFault'
    BY <2>2, <1>2 DEF HeldIsOpen, LoopProgress, RoutedHome, NoFault
  <2> QED
    BY <2>7, <2>8 DEF Connected
<1> QED
  BY <1>1, <1>3, <1>4 DEF Supported, SupportedAllocFails, SupportedAllocRaFails, SupportedInstallRaFails

\* A search that can only stop at the first entry stops there.
LEMMA FirstOfOne ==
  ASSUME Len(list) = 1
  PROVE  FirstAt({1}) = 1
<1>1. FirstAt({1}) = CHOOSE i \in {1} \cup {2} : \A j \in {1} : i <= j
  BY DEF FirstAt
<1> QED
  BY <1>1

\* The call is forwarded to the original the search found.
LEMMA ForwardHome ==
  ASSUME NEW proto, NEW from, NEW o, o # NULL, Len(list) = 1, list[1] \in ioLive,
         Forward(proto, from, 1, o)
  PROVE  routed' = [proto |-> proto, from |-> from, to |-> o] /\ UNCHANGED fault
  BY DEF Forward

\* What a started bridge holds is whole and open, and it is all there is: the
\* search stops there.
LEMMA BridgeFound ==
  ASSUME TypeInv, StructInv, Connected, NEW c \in Controllers, held[c] # NULL
  PROVE  /\ FindRootBridgeIoProtocolMappingBySubstitute(held[c]) = [at |-> 1, original |-> c]
         /\ Len(list) = 1 /\ list[1] \in ioLive
<1>1. held[c] = ioIface[c] /\ ioIface[c] # NULL /\ mapping[held[c]].isOpen
  BY DEF Connected, HeldIsOpen
<1>2. /\ Len(list) = 1 /\ list[1] = held[c]
      /\ WholeMapping(list[1]) /\ mapping[list[1]].controller = c
  BY <1>1, InstalledIsListed
<1>3. {j \in 1..Len(list) : list[j] = held[c]} = {1}
  BY <1>2
<1>4. FindRootBridgeIoProtocolMappingBySubstitute(held[c]) = [at |-> 1, original |-> c]
  BY <1>1, <1>2, <1>3, FirstOfOne DEF FindRootBridgeIoProtocolMappingBySubstitute, WholeMapping
<1> QED
  BY <1>2, <1>4 DEF WholeMapping

\* And the search for the allocator a mapping stands for stops there, too.
LEMMA AllocatorOriginal ==
  ASSUME TypeInv, StructInv, Connected, pc = "enumerating", AllocatorFound
  PROVE  /\ FindResourceAllocationProtocolMappingBySubstitute(mapping[held[ctl]].handle) =
               [at |-> 1, original |-> HostBridgeOf[ctl]]
         /\ Len(list) = 1 /\ list[1] \in ioLive /\ ctl \in Controllers
<1> DEFINE h == mapping[held[ctl]].handle
<1>1. h \in raIface /\ ctl \in Controllers /\ held[ctl] # NULL
  BY DEF AllocatorFound, Connected, LoopProgress, TypeInv, ShimTypeOK, ControlTypeOK
<1>2. held[ctl] = ioIface[ctl] /\ ioIface[ctl] # NULL /\ mapping[held[ctl]].isOpen
  BY <1>1 DEF Connected, HeldIsOpen
<1>3. /\ Len(list) = 1 /\ list[1] = held[ctl]
      /\ WholeMapping(list[1]) /\ mapping[list[1]].controller = ctl
  BY <1>1, <1>2, InstalledIsListed
<1>4. mapping[list[1]].parent = h /\ raOriginal[h] = HostBridgeOf[ctl]
  BY <1>1, <1>2, <1>3 DEF WholeMapping
<1>5. {j \in 1..Len(list) : mapping[list[j]].parent = h} = {1}
  BY <1>3, <1>4
<1>6. FindResourceAllocationProtocolMappingBySubstitute(h) =
        [at |-> 1, original |-> HostBridgeOf[ctl]]
  <2>1. FirstAt({j \in 1..Len(list) : mapping[list[j]].parent = h}) = 1 /\ ~(1 > Len(list))
    BY <1>3, <1>5, FirstOfOne
  <2> HIDE DEF h
  <2> QED
    BY <1>4, <2>1 DEF FindResourceAllocationProtocolMappingBySubstitute
<1> QED
  BY <1>1, <1>3, <1>6 DEF WholeMapping

\* So the calls go home.
LEMMA CallGoesHome ==
  ASSUME TypeInv, StructInv, Connected, NEW c \in Controllers, held[c] # NULL, CallBridge(c)
  PROVE  RoutedHome' /\ NoFault'
<1> DEFINE f == FindRootBridgeIoProtocolMappingBySubstitute(held[c])
<1>0. f = [at |-> 1, original |-> c]
  BY BridgeFound
<1>1. Forward("rb", c, 1, c)
  BY <1>0 DEF CallBridge
<1>2. routed' = [proto |-> "rb", from |-> c, to |-> c] /\ UNCHANGED fault
  BY <1>1, BridgeFound, ForwardHome
<1> QED
  BY <1>2 DEF RoutedHome, NoFault, Connected

LEMMA ConnectedStart ==
  ASSUME Tolerant, TypeInv, StructInv, DumpVisitsStarted, Connected, Start
  PROVE  Connected'
<1> USE TolerantMay DEF control, Return, EnterLoop, NextEntry, BeginDump
<1>0. Len(list) \in Nat /\ Len(list) <= 1 /\ cur \in 1..(Len(list) + 1)
  BY DEF StructInv, AtMostOneMapping, TypeInv, ShimTypeOK, PoolTypeOK, ControlTypeOK
<1>1. CASE StartCall
  <2>1. /\ pc = "ready" /\ pc' = "opening" /\ cur' = 1
        /\ UNCHANGED <<pool, ifaces, held, routed, fault>>
    BY <1>1 DEF StartCall
  <2> QED
    BY <2>1, ConnectedUnchanged DEF LoopProgress
<1>2. ASSUME NEW b \in IoBlocks, OpenSkip(b)
      PROVE  Connected'
  <2>1. /\ Opening(b) /\ mapping[b].isOpen /\ pc' = "opening" /\ cur' = cur + 1
        /\ UNCHANGED <<pool, ifaces, held, routed, fault>>
    BY <1>2 DEF OpenSkip, Opening
  <2>2. \A i \in 1..Len(list) : i = 1 /\ cur = 1 /\ list[i] = b
    BY <1>0, <2>1 DEF Opening
  <2>3. LoopProgress'
    BY <2>1, <2>2 DEF LoopProgress, pool
  <2> QED
    BY <2>1, <2>3, ConnectedUnchanged DEF Opening
<1>3. ASSUME NEW b \in IoBlocks, OpenIoFails(b)
      PROVE  Connected'
  <2>1. pc # "closing" /\ pc' = "idle" /\ UNCHANGED <<pool, ifaces, held, routed, fault>>
    BY <1>3 DEF OpenIoFails, Opening
  <2> QED
    BY <2>1, ConnectedUnchanged DEF LoopProgress
<1>7. ASSUME BaseStartRefused \/ BaseStarted
      PROVE  Connected'
  <2>1. /\ pc \in {"baseStart", "enumerating"} /\ pc' = "dumping"
        /\ UNCHANGED <<pool, ifaces, held, routed, fault>>
    BY <1>7 DEF BaseStartRefused, BaseStarted
  <2>2. LoopProgress'
    BY <2>1 DEF Connected, LoopProgress, Pending, pool
  <2> QED
    BY <2>1, <2>2, ConnectedUnchanged
<1>8. CASE DumpInstalledDevices
  <2>1. /\ pc = "dumping" /\ pc' \in {"dumping", "idle"}
        /\ UNCHANGED <<pool, ifaces, held>>
    BY <1>8, DumpSteps
  <2>2. RoutedHome' /\ NoFault'
    <3>1. CASE UNCHANGED <<routed, fault>>
      BY <3>1 DEF Connected, RoutedHome, NoFault
    <3>2. ASSUME NEW d \in Devices \cap handles, CallBridge(BridgeOf[d])
          PROVE  RoutedHome' /\ NoFault'
      BY <2>1, <3>2, CallGoesHome DEF DumpVisitsStarted, Installed
    <3> QED
      BY <1>8, <3>1, <3>2, DumpSteps
  <2>3. \A i \in 1..Len(list) : Pending(i) /\ Pending(i)'
    BY <2>1 DEF Pending, pool
  <2>4. PendingWhole' /\ NothingOffList' /\ HeldIsOpen'
    BY <2>1, <2>3 DEF Connected, PendingWhole, WholeMapping, NothingOffList, HeldIsOpen,
                      pool, ifaces
  <2>5. LoopProgress'
    BY <2>1, <2>3 DEF Connected, LoopProgress, pool
  <2> QED
    BY <2>2, <2>4, <2>5 DEF Connected
<1>4. ASSUME NEW b \in IoBlocks, OpenBoth(b)
      PROVE  Connected'
  <2>1. /\ Opening(b) /\ ~mapping[b].isOpen /\ pc' = "opening" /\ cur' = cur + 1
        /\ UNCHANGED <<list, ioLive, ifaces, held, routed, fault>>
        /\ mapping' = [mapping EXCEPT ![b].isOpen = TRUE, ![b].original = mapping[b].controller,
                                      ![b].segment = mapping[b].controller]
        /\ raOriginal' = [raOriginal EXCEPT ![mapping[b].parent] =
                                            HostBridgeOf[mapping[b].controller]]
    BY <1>4 DEF OpenBoth, OpenIo, Opening
  <2>2. pc = "opening" /\ Len(list) = 1 /\ list[1] = b /\ cur = 1 /\ Pending(1) /\ Pending(1)'
    <3>1. pc = "opening" /\ cur <= Len(list) /\ b = list[cur]
      BY <2>1 DEF Opening
    <3>2. cur \in 1..Len(list)
      BY <1>0, <3>1
    <3>3. Len(list) = 1 /\ cur = 1
      BY <1>0, <3>2, OnlyPosition
    <3> QED
      BY <2>1, <3>1, <3>3 DEF Pending
  <2>3. WholeMapping(b)
    BY <2>2 DEF Connected, PendingWhole
  <2>4. mapping[b] \in Mappings /\ mapping \in [IoBlocks -> Mappings]
        /\ raOriginal \in [RaBlocks -> HostBridges \cup {NULL}]
    BY DEF TypeInv, ShimTypeOK, PoolTypeOK
  <2>5. /\ mapping'[b].isOpen
        /\ mapping'[b].original = mapping[b].controller
        /\ mapping'[b].controller = mapping[b].controller
        /\ mapping'[b].parent = mapping[b].parent
        /\ mapping'[b].handle = mapping[b].handle
    BY <2>1, <2>4 DEF Mappings
  <2>6. raOriginal'[mapping[b].parent] = HostBridgeOf[mapping[b].controller]
    BY <2>1, <2>3, <2>4 DEF WholeMapping
  <2>7. WholeMapping(b)'
    BY <2>1, <2>3, <2>5, <2>6 DEF WholeMapping, ifaces
  <2>8. PendingWhole'
    BY <2>1, <2>2, <2>7 DEF PendingWhole
  <2>9. ASSUME NEW c \in Controllers, ioIface[c] # NULL
        PROVE  ioIface[c] = b /\ mapping[b].controller = c
    BY <2>2, <2>9, InstalledIsListed
  <2>10. NothingOffList'
    <3>1. \E i \in 1..Len(list') : Pending(i)' /\ list'[i] = b
      BY <2>1, <2>2
    <3>2. UNCHANGED ioIface
      BY <2>1 DEF ifaces
    <3> QED
      BY <2>5, <2>9, <3>1, <3>2 DEF NothingOffList
  <2>11. HeldIsOpen'
    <3>1. ASSUME NEW c \in Controllers, held[c] # NULL
          PROVE  held[c] = ioIface[c] /\ held[c] = b
      BY <2>9, <3>1 DEF Connected, HeldIsOpen
    <3> QED
      BY <2>1, <2>5, <3>1 DEF HeldIsOpen, ifaces
  <2>12. LoopProgress'
    <3>1. \A i \in 1..Len(list') : mapping'[list'[i]].isOpen
      <4>1. list' = list /\ \A i \in 1..Len(list) : i = 1
        BY <2>1, <2>2
      <4> QED
        BY <2>2, <2>5, <4>1
    <3> QED
      BY <2>1, <3>1 DEF LoopProgress
  <2>13. RoutedHome' /\ NoFault'
    BY <2>1 DEF Connected, RoutedHome, NoFault
  <2> QED
    BY <2>8, <2>10, <2>11, <2>12, <2>13 DEF Connected
<1>5. CASE OpenDone
  <2>1. /\ pc = "opening" /\ cur > Len(list) /\ pc' \in {"idle", "baseStart"}
        /\ UNCHANGED <<pool, ifaces, held, routed, fault>>
    BY <1>5 DEF OpenDone
  <2>2. \A i \in 1..Len(list) : mapping[list[i]].isOpen
    BY <1>0, <2>1 DEF Connected, LoopProgress
  <2>3. LoopProgress'
    BY <2>1, <2>2 DEF LoopProgress, pool
  <2> QED
    BY <2>1, <2>3, ConnectedUnchanged
<1>6. CASE BaseStarts \/ BaseStartFails
  <2>1. /\ pc \in {"baseStart", "enumerating"} /\ pc' \in {"enumerating", "dumping"}
        /\ UNCHANGED <<pool, ifaces, routed, fault>>
        /\ \/ held' = [held EXCEPT ![ctl] = ioIface[ctl]] /\ ioIface[ctl] # NULL /\ ctl' = ctl
           \/ held' = [held EXCEPT ![ctl] = NULL] /\ pc' = "dumping"
        /\ ctl \in Controllers
    BY <1>6 DEF BaseStarts, BaseStartFails, BaseAccepts, TypeInv, ShimTypeOK, ControlTypeOK
  <2>2. /\ PendingWhole' /\ NothingOffList' /\ RoutedHome' /\ NoFault'
    BY <2>1 DEF Connected, PendingWhole, Pending, WholeMapping, NothingOffList, RoutedHome,
                NoFault, pool, ifaces
  <2>3. \A i \in 1..Len(list) : mapping[list[i]].isOpen
    BY <2>1 DEF Connected, LoopProgress, Pending
  <2>4. ASSUME NEW c \in Controllers, ioIface[c] # NULL
        PROVE  mapping[ioIface[c]].isOpen
    BY <2>3, <2>4, InstalledIsListed
  <2>5. HeldIsOpen'
    BY <2>1, <2>4 DEF Connected, HeldIsOpen, pool, ifaces, TypeInv, ShimTypeOK, HandlesTypeOK
  <2>6. LoopProgress'
    BY <2>1, <2>3 DEF LoopProgress, pool, TypeInv, ShimTypeOK, HandlesTypeOK
  <2> QED
    BY <2>2, <2>5, <2>6 DEF Connected
<1> QED
  BY <1>1, <1>2, <1>3, <1>4, <1>5, <1>6, <1>7, <1>8 DEF Start, OpenRaFails

LEMMA ConnectedCalls ==
  ASSUME TypeInv, StructInv, Connected, (\E c \in Controllers : RbCall(c)) \/ RaCall
  PROVE  Connected'
<1>1. UNCHANGED <<pool, ifaces, held, pc, ctl, cur>>
  BY DEF RbCall, RaCall, control
<1>2. ASSUME NEW c \in Controllers, RbCall(c)
      PROVE  RoutedHome' /\ NoFault'
  BY <1>2, CallGoesHome DEF RbCall
<1>3. ASSUME RaCall
      PROVE  RoutedHome' /\ NoFault'
  <2>1. pc = "enumerating" /\ AllocatorFound
    BY <1>3 DEF RaCall
  <2>2. Forward("ra", ctl, 1, HostBridgeOf[ctl])
    BY <1>3, <2>1, AllocatorOriginal DEF RaCall
  <2>3. HostBridgeOf[ctl] # NULL
    BY <2>1, AllocatorOriginal
  <2>4. routed' = [proto |-> "ra", from |-> ctl, to |-> HostBridgeOf[ctl]] /\ UNCHANGED fault
    BY <2>1, <2>2, <2>3, AllocatorOriginal, ForwardHome
  <2> QED
    BY <2>4 DEF RoutedHome, NoFault, Connected
<1> QED
  BY <1>1, <1>2, <1>3 DEF Connected, PendingWhole, Pending, WholeMapping, NothingOffList,
                          HeldIsOpen, LoopProgress, pool, ifaces

LEMMA ConnectedStop ==
  ASSUME Tolerant, TypeInv, StructInv, Connected,
         (\E c \in Controllers : Stop(c)) \/ CleanupDriver
  PROVE  Connected'
<1> USE TolerantMay DEF control, Return, EnterLoop, NextEntry
<1>0. Len(list) \in Nat /\ Len(list) <= 1 /\ cur \in 1..(Len(list) + 1)
  BY DEF StructInv, AtMostOneMapping, TypeInv, ShimTypeOK, PoolTypeOK, ControlTypeOK
\* What the base driver is told to stop is open, and it is all there is.
<1>1. ASSUME NEW c \in Controllers, held[c] # NULL
      PROVE  \A i \in 1..Len(list) : mapping[list[i]].isOpen
  <2>1. held[c] = ioIface[c] /\ mapping[held[c]].isOpen
    BY <1>1 DEF Connected, HeldIsOpen
  <2>2. Len(list) = 1 /\ list[1] = held[c]
    BY <1>1, <2>1, InstalledIsListed
  <2>3. \A i \in 1..Len(list) : i = 1
    BY <2>2
  <2> QED
    BY <2>1, <2>2, <2>3
<1>2. ASSUME NEW c \in Controllers, Stop(c)
      PROVE  Connected'
  <2>1. CASE StopFails(c)
    <3>1. pc = "idle" /\ pc' = "idle" /\ UNCHANGED <<pool, ifaces, held, routed, fault>>
      BY <2>1 DEF StopFails
    <3> QED
      BY <3>1, ConnectedUnchanged DEF LoopProgress
  <2>2. CASE StopWhole(c) \/ StopChildren(c)
    <3>1. /\ pc = "idle" /\ pc' = "closing" /\ cur' = 1 /\ held[c] # NULL
          /\ UNCHANGED <<pool, ifaces, routed, fault>>
          /\ held' = [held EXCEPT ![c] = NULL] \/ held' = held
      BY <2>2 DEF StopWhole, StopChildren
    <3>2. LoopProgress'
      BY <1>1, <3>1 DEF LoopProgress, pool
    <3>3. HeldIsOpen'
      BY <3>1 DEF Connected, HeldIsOpen, pool, ifaces, TypeInv, ShimTypeOK, HandlesTypeOK
    <3>4. \A i \in 1..Len(list) : Pending(i) /\ Pending(i)'
      BY <1>0, <3>1 DEF Pending, pool
    <3>5. PendingWhole' /\ NothingOffList'
      BY <3>1, <3>4 DEF Connected, PendingWhole, WholeMapping, NothingOffList, pool, ifaces
    <3> QED
      BY <3>1, <3>2, <3>3, <3>5 DEF Connected, RoutedHome, NoFault
  <2> QED
    BY <1>2, <2>1, <2>2 DEF Stop
<1>3. ASSUME NEW b \in IoBlocks, CloseIoFails(b) \/ CloseRaFails(b) \/ UninstallRaFails(b)
      PROVE  Connected'
  <2>1. Closing(b) /\ pc' = "idle" /\ UNCHANGED <<pool, ifaces, held, routed, fault>>
    BY <1>3 DEF CloseIoFails, CloseRaFails, UninstallRaFails, CloseRa, CloseIo
  <2> QED
    BY <2>1, ConnectedUnchanged DEF Closing, LoopProgress
<1>4. ASSUME NEW b \in IoBlocks, UninstallIoFails(b)
      PROVE  Connected'
  <2>1. /\ Closing(b) /\ pc' = "idle"
        /\ UNCHANGED <<list, ioLive, mapping, raOriginal, ioIface, held, routed, fault>>
        /\ raIface' \subseteq raIface
    BY <1>4 DEF UninstallIoFails, UninstallRa, CloseRa, CloseIo
  <2>2. \A i \in 1..Len(list) : Pending(i) /\ Pending(i)'
    BY <1>0, <2>1 DEF Pending, Closing
  <2>3. PendingWhole' /\ NothingOffList'
    BY <2>1, <2>2 DEF Connected, PendingWhole, WholeMapping, NothingOffList
  <2> QED
    BY <2>1, <2>3 DEF Connected, HeldIsOpen, LoopProgress, RoutedHome, NoFault
<1>5. ASSUME NEW b \in IoBlocks, CloseMapping(b)
      PROVE  Connected'
  <2>1. /\ Closing(b) /\ IoRemovable(b) /\ pc' = "closing" /\ cur' = cur + 1
        /\ UNCHANGED <<list, mapping, held, routed, fault>>
        /\ ioIface' = [ioIface EXCEPT ![ctl] = NULL]
    BY <1>5 DEF CloseMapping, UninstallIo, UninstallRa, CloseRa, CloseIo, Closing
  <2>2. ctl \in Controllers /\ ioIface[ctl] = b /\ held[ctl] # b /\ b # NULL
    BY <2>1 DEF IoRemovable, Closing, TypeInv, ShimTypeOK, ControlTypeOK
  <2>3. \A i \in 1..Len(list) : ~Pending(i)'
    BY <1>0, <2>1 DEF Pending, Closing
  <2>4. mapping[b].controller = ctl
    BY <2>2, InstalledIsListed
  <2>5. ASSUME NEW c \in Controllers, ioIface[c] # NULL
        PROVE  c = ctl
    <3>1. list[1] = ioIface[c] /\ mapping[list[1]].controller = c
      BY <2>5, InstalledIsListed
    <3>2. list[1] = b
      BY <2>2, InstalledIsListed
    <3> QED
      BY <2>4, <3>1, <3>2
  <2>6. \A c \in Controllers : ioIface'[c] = NULL
    BY <2>1, <2>2, <2>5 DEF TypeInv, ShimTypeOK, HandlesTypeOK
  <2>7. \A c \in Controllers : held'[c] = NULL
    BY <2>1, <2>2, <2>5 DEF Connected, HeldIsOpen
  <2>8. PendingWhole' /\ NothingOffList' /\ HeldIsOpen' /\ LoopProgress'
    BY <2>1, <2>3, <2>6, <2>7 DEF PendingWhole, NothingOffList, HeldIsOpen, LoopProgress
  <2> QED
    BY <2>1, <2>8 DEF Connected, RoutedHome, NoFault
<1>6. CASE CloseDone
  <2>1. /\ pc = "closing" /\ cur > Len(list) /\ list' = <<>> /\ pc' = "idle"
        /\ UNCHANGED <<ioIface, held, routed, fault>>
    BY <1>6 DEF CloseDone, ifaces
  <2>2. \A i \in 1..Len(list) : ~Pending(i)
    BY <1>0, <2>1 DEF Pending
  <2>3. \A c \in Controllers : ioIface'[c] = NULL /\ held'[c] = NULL
    BY <2>1, <2>2, EmptyMeansUnhooked
  <2>4. Len(list') = 0
    BY <2>1
  <2> QED
    BY <2>1, <2>3, <2>4 DEF Connected, PendingWhole, NothingOffList, HeldIsOpen, LoopProgress,
                            RoutedHome, NoFault
<1> QED
  BY <1>2, <1>3, <1>4, <1>5, <1>6 DEF CleanupDriver, CloseScrubbed

LEMMA ConnectedStep ==
  ASSUME Tolerant, TypeInv, StructInv, DumpVisitsStarted, Connected, [Next]_vars
  PROVE  Connected'
<1>1. ASSUME BaseLoads \/ UNCHANGED vars
      PROVE  Connected'
  <2>1. UNCHANGED <<pool, ifaces, held, routed, fault, pc, ctl, cur>>
    BY <1>1 DEF BaseLoads, vars, control
  <2> QED
    BY <2>1 DEF Connected, PendingWhole, Pending, WholeMapping, NothingOffList, HeldIsOpen,
                LoopProgress, RoutedHome, NoFault, pool, ifaces
<1> QED
  BY <1>1, ConnectedSupported, ConnectedStart, ConnectedCalls, ConnectedStop DEF Next, DriverBinding

\* In a tolerant environment the inductive invariant holds of every reachable
\* state ...
THEOREM ShimInvariant == ASSUME Tolerant PROVE Spec => []ShimInv
<1> DEFINE Inv == TypeInv /\ DumpTypeOK /\ StructInv /\ DumpVisitsStarted /\ Connected
<1>1. Inv => ShimInv
  BY DEF TypeInv, StructInv, ShimInv, TypeOK
<1>2. Inv /\ [Next]_vars => Inv'
  BY TypeStep, DumpTypeStep, StructStep, DumpVisitsStep, ConnectedStep
<1>3. Init => Inv
  BY TypeInit, StructInit, ConnectedInit DEF Init, DumpTypeOK, DumpVisitsStarted
<1> HIDE DEF Inv
<1> QED
  BY <1>1, <1>2, <1>3, PTL DEF Spec

\* ... so no call goes through NULL or freed memory.
THEOREM NoFaultEver == ASSUME Tolerant PROVE Spec => []NoFault
<1>1. ShimInv => NoFault
  BY DEF ShimInv, Connected
<1> QED
  BY <1>1, ShimInvariant, PTL
=============================================================================
