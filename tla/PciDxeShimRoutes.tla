-------------------------- MODULE PciDxeShimRoutes --------------------------
(* Where the calls of the base driver go, whatever fails: home, or into    *)
(* the one kind of fault that FaultsOnlyWhere leaves them.                 *)
EXTENDS PciDxeShimLoops

USE NullAssumption, BridgeAssumption, DeviceAssumption

(***************************************************************************)
(* A mapping that has an original has that of its own controller, also     *)
(* while it is off the list, half installed or half gone; the allocator    *)
(* mapping behind the listed one has no original or that of the host       *)
(* bridge above it.  With LoopInv, which says what is still on the list,   *)
(* this settles every call: the search finds what the caller was given,    *)
(* or nothing.  A record of an allocator is that of the listed bridge, and *)
(* as long as it is there the allocator substitute is, with its original.  *)
(***************************************************************************)
OriginalHome ==
  \A b \in IoBlocks : /\ mapping[b].original \in {NULL, mapping[b].controller}
                      /\ mapping[b].segment = mapping[b].original

AllocatorHome ==
  list # <<>> =>
    /\ First.handle = First.parent /\ First.parent \in RaBlocks
    /\ raOriginal[First.parent] \in {NULL, HostBridgeOf[First.controller]}

AllocatorServed ==
  /\ list # <<>> /\ ~First.isOpen => First.parent \in raIface
  /\ raOpen # {} => /\ Entry /\ raOpen = {First.controller} /\ First.parent \in raIface
                    /\ raOriginal[First.parent] = HostBridgeOf[First.controller]

RouteInv == OriginalHome /\ AllocatorHome /\ AllocatorServed

Routing == TypeInv /\ StructInv /\ LoopInv /\ RouteInv

LEMMA RouteInit == Init => RouteInv
  BY DEF Init, RouteInv, OriginalHome, AllocatorHome, AllocatorServed, FreshMapping

LEMMA RouteKept ==
  ASSUME RouteInv, UNCHANGED <<mapping, raOriginal>>,
         \/ UNCHANGED <<list, raIface, raOpen>> /\ (pc' = "closing" => cur' = 1 \/ UNCHANGED <<pc, cur>>)
         \/ list' \in {list, <<>>} /\ raOpen' = {} /\ (list' = <<>> \/ First.isOpen)
  PROVE  RouteInv'
<1>1. OriginalHome' /\ AllocatorHome'
  BY DEF RouteInv, OriginalHome, AllocatorHome, First
<1>2. CASE /\ UNCHANGED <<list, raIface, raOpen>>
           /\ pc' = "closing" => cur' = 1 \/ UNCHANGED <<pc, cur>>
  <2>1. First' = First
    BY <1>2 DEF First
  <2>2. list' # <<>> /\ ~First'.isOpen => First'.parent \in raIface'
    BY <1>2, <2>1 DEF RouteInv, AllocatorServed
  <2>3. raOpen' # {} => /\ Entry' /\ raOpen' = {First'.controller} /\ First'.parent \in raIface'
                        /\ raOriginal'[First'.parent] = HostBridgeOf[First'.controller]
    BY <1>2, <2>1 DEF RouteInv, AllocatorServed, Entry
  <2> QED
    BY <1>1, <2>2, <2>3 DEF RouteInv, AllocatorServed
<1>3. CASE list' \in {list, <<>>} /\ raOpen' = {} /\ (list' = <<>> \/ First.isOpen)
  <2>1. list' = list => First' = First
    BY DEF First
  <2>2. list' # <<>> => First'.isOpen
    BY <1>3, <2>1
  <2> QED
    BY <1>1, <1>3, <2>2 DEF RouteInv, AllocatorServed
<1> QED
  BY <1>1, <1>2, <1>3 DEF RouteInv

LEMMA RouteSupported ==
  ASSUME TypeInv, RouteInv, NEW c \in Controllers, Supported(c)
  PROVE  RouteInv'
<1> USE DEF pool, ifaces, opens, control, Return, ReturnSupported
<1>1. CASE \/ SupportedUnlocated(c) \/ SupportedAlreadyStarted(c) \/ SupportedTestRefused(c)
           \/ SupportedMapped(c) \/ SupportedMappedRefused(c) \/ SupportedAllocFails(c)
  <2>1. /\ UNCHANGED <<mapping, raOriginal, list, raIface, raOpen>>
        /\ pc' \in {"idle", "ready"} \/ UNCHANGED <<pc, cur>>
    BY <1>1 DEF SupportedUnlocated, SupportedAlreadyStarted, SupportedTestRefused,
       SupportedMapped, SupportedMappedRefused, SupportedAllocFails, AvailabilityTest
  <2> QED
    BY <2>1, RouteKept
<1>2. ASSUME NEW b \in IoBlocks, FirstProbe(c, b), NEW new \in Mappings, new.original = NULL,
             new.segment = NULL, mapping' = [mapping EXCEPT ![b] = new],
             \/ list' = list
             \/ /\ list' = <<b>> /\ new.handle = new.parent /\ new.parent \in RaBlocks
                /\ raOriginal'[new.parent] = NULL /\ new.parent \in raIface'
      PROVE  RouteInv'
  <2>1. mapping'[b] = new /\ \A e \in IoBlocks \ {b} : mapping'[e] = mapping[e]
    BY <1>2 DEF TypeInv, ShimTypeOK, PoolTypeOK
  <2>2. OriginalHome'
    BY <1>2, <2>1 DEF RouteInv, OriginalHome
  <2>3. list' = <<>> \/ First' = new
    BY <1>2, <2>1 DEF FirstProbe, IsProtocolsMapped, First
  <2>4. AllocatorHome'
    BY <1>2, <2>3 DEF AllocatorHome, FirstProbe, IsProtocolsMapped
  <2>5. AllocatorServed'
    <3>1. list = <<>> /\ raOpen = {} /\ raOpen' = raOpen
      BY <1>2 DEF FirstProbe, AvailabilityTest, IsProtocolsMapped, RouteInv, AllocatorServed, Entry
    <3> QED
      BY <1>2, <2>3, <3>1 DEF AllocatorServed
  <2> QED
    BY <2>2, <2>4, <2>5 DEF RouteInv
<1>3. ASSUME NEW b \in IoBlocks, \/ SupportedInstallIoFails(c, b) \/ SupportedBaseRejects(c, b)
                                  \/ SupportedAllocRaFails(c, b)
      PROVE  RouteInv'
  <2>1. /\ FreshMapping(c) \in Mappings /\ FreshMapping(c).original = NULL
        /\ FreshMapping(c).segment = NULL
    BY FreshMappingType DEF FreshMapping
  <2> QED
    BY <1>2, <1>3, <2>1 DEF SupportedInstallIoFails, SupportedBaseRejects, SupportedAllocRaFails
<1>4. ASSUME NEW b \in IoBlocks, NEW r \in RaBlocks, NEW h \in RaBlocks \cup {NULL},
             HookBoth(c, b, r, h),
             list' = list \/ (h = r /\ list' = Append(list, b) /\ r \in raIface')
      PROVE  RouteInv'
  <2> DEFINE new == [FreshMapping(c) EXCEPT !.parent = r, !.handle = h]
  <2>1. /\ new \in Mappings /\ new.original = NULL /\ new.segment = NULL
        /\ new.parent = r /\ new.handle = h
    BY DEF FreshMapping, Mappings
  <2>2. FirstProbe(c, b) /\ mapping' = [mapping EXCEPT ![b] = new]
    BY <1>4 DEF HookBoth
  <2>3. raOriginal'[r] = NULL
    BY <1>4 DEF HookBoth, TypeInv, ShimTypeOK, PoolTypeOK
  <2>4. list' = list \/ (h = r /\ list' = <<b>> /\ r \in raIface')
    <3>1. list = <<>>
      BY <2>2 DEF FirstProbe, IsProtocolsMapped
    <3> QED
      BY <1>4, <3>1
  <2> HIDE DEF new
  <2> QED
    BY <1>2, <2>1, <2>2, <2>3, <2>4
<1>5. ASSUME NEW b \in IoBlocks, NEW r \in RaBlocks,
             SupportedInstallRaFails(c, b, r) \/ SupportedHooks(c, b, r)
      PROVE  RouteInv'
  BY <1>4, <1>5 DEF SupportedInstallRaFails, SupportedHooks
<1> QED
  BY <1>1, <1>3, <1>5 DEF Supported

LEMMA RouteOpen ==
  ASSUME TypeInv, StructInv, RouteInv, NEW b \in IoBlocks, OpenRaFails(b) \/ OpenBoth(b)
  PROVE  RouteInv'
<1> USE DEF NextEntry, Return
<1> DEFINE opened == [mapping[b] EXCEPT !.isOpen = TRUE, !.original = mapping[b].controller,
                                        !.segment = mapping[b].controller]
<1>1. /\ Opening(b) /\ ~mapping[b].isOpen /\ UNCHANGED <<list, raIface>> /\ pc' # "closing"
      /\ mapping' = [mapping EXCEPT ![b].isOpen = TRUE, ![b].original = mapping[b].controller,
                                    ![b].segment = mapping[b].controller]
      /\ \/ UNCHANGED <<raOriginal, raOpen>>
         \/ /\ raOriginal' = [raOriginal EXCEPT ![mapping[b].parent] =
                                HostBridgeOf[mapping[b].controller]]
            /\ raOpen' = raOpen \cup {mapping[b].controller}
  <2>1. CASE OpenRaFails(b)
    BY <2>1 DEF OpenRaFails, OpenIo, ifaces
  <2>2. CASE OpenBoth(b)
    BY <2>2 DEF OpenBoth, OpenIo, Opening, ifaces
  <2> QED
    BY <2>1, <2>2
<1>2. list # <<>> /\ b = list[1] /\ First = mapping[b] /\ First' = mapping'[b]
  <2>1. Len(list) = 1 /\ cur = 1
    <3>1. Len(list) = 0 \/ Len(list) = 1
      BY OneEntry
    <3>2. cur \in 1..(Len(list) + 1) /\ cur <= Len(list)
      BY <1>1, OneEntry DEF Opening
    <3>3. CASE Len(list) = 0
      BY <3>2, <3>3
    <3>4. CASE Len(list) = 1
      BY <3>2, <3>4
    <3> QED
      BY <3>1, <3>3, <3>4
  <2> QED
    BY <1>1, <2>1, OneEntry DEF Opening, First
<1>3. mapping'[b] = opened /\ \A e \in IoBlocks \ {b} : mapping'[e] = mapping[e]
  BY <1>1 DEF TypeInv, ShimTypeOK, PoolTypeOK
<1>4. /\ opened.original = First.controller /\ opened.segment = First.controller
      /\ opened.controller = First.controller /\ opened.isOpen
      /\ opened.handle = First.handle /\ opened.parent = First.parent
  BY <1>2 DEF TypeInv, ShimTypeOK, PoolTypeOK, Mappings
<1> HIDE DEF opened
<1>5. OriginalHome'
  BY <1>2, <1>3, <1>4 DEF RouteInv, OriginalHome
<1>6. AllocatorHome'
  BY <1>1, <1>2, <1>3, <1>4 DEF RouteInv, AllocatorHome, TypeInv, ShimTypeOK, PoolTypeOK
<1>7. AllocatorServed'
  <2>1. First.parent \in RaBlocks /\ First.parent \in raIface /\ ~First.isOpen
    BY <1>1, <1>2 DEF RouteInv, AllocatorHome, AllocatorServed
  <2>2. First'.isOpen /\ First'.controller = First.controller /\ First'.parent = First.parent
    BY <1>2, <1>3, <1>4
  <2>3. CASE UNCHANGED <<raOriginal, raOpen>>
    <3>1. raOpen' # {} => /\ raOpen' = {First'.controller} /\ First'.parent \in raIface'
                          /\ raOriginal'[First'.parent] = HostBridgeOf[First'.controller]
      BY <1>1, <2>2, <2>3 DEF RouteInv, AllocatorServed
    <3> QED
      BY <1>1, <1>2, <2>2, <3>1 DEF AllocatorServed, Entry
  <2>4. CASE /\ raOriginal' = [raOriginal EXCEPT ![First.parent] = HostBridgeOf[First.controller]]
             /\ raOpen' = raOpen \cup {First.controller}
    <3>1. raOriginal'[First.parent] = HostBridgeOf[First.controller]
      BY <2>1, <2>4 DEF TypeInv, ShimTypeOK, PoolTypeOK
    <3> QED
      <4>1. raOpen' = {First'.controller} /\ First'.parent \in raIface'
        BY <1>1, <2>1, <2>2, <2>4 DEF RouteInv, AllocatorServed
      <4> QED
        BY <1>1, <1>2, <2>2, <3>1, <4>1 DEF AllocatorServed, Entry
  <2> QED
    BY <1>1, <1>2, <2>3, <2>4
<1> QED
  BY <1>5, <1>6, <1>7 DEF RouteInv

\* CleanupDriver() closes the only record of an allocator before it uninstalls.
LEMMA RouteCleanup ==
  ASSUME TypeInv, StructInv, LoopInv, RouteInv, CleanupDriver
  PROVE  RouteInv'
<1> USE DEF pool, ifaces, opens, Return
<1>1. ASSUME NEW b \in IoBlocks, CloseIoFails(b) \/ CloseRaFails(b)
      PROVE  RouteInv'
  <2>1. UNCHANGED <<mapping, raOriginal, list, raIface, raOpen>> /\ pc' = "idle"
    BY <1>1 DEF CloseIoFails, CloseRaFails, CloseIo
  <2> QED
    BY <2>1, RouteKept
<1>2. ASSUME NEW b \in IoBlocks, \/ UninstallRaFails(b) \/ UninstallIoFails(b)
                                  \/ CloseMapping(b) \/ CloseScrubbed(b)
      PROVE  RouteInv'
  <2>1. /\ Closing(b) /\ RaRecordFound(b) /\ raOpen' = raOpen \ {ctl}
        /\ UNCHANGED <<mapping, raOriginal, list>>
    BY <1>2 DEF UninstallRaFails, UninstallIoFails, CloseMapping, CloseScrubbed, UninstallIo,
       UninstallRa, CloseRa, CloseIo
  <2>2. ctl \in raOpen /\ First.isOpen
    BY <2>1, OneEntry DEF RaRecordFound, Closing, LoopInv, OpenedFirst
  <2>3. raOpen' = {}
    BY <2>1, <2>2 DEF RouteInv, AllocatorServed
  <2> QED
    BY <2>1, <2>2, <2>3, RouteKept
<1>3. CASE CloseDone
  <2>1. ~Entry /\ list' = <<>> /\ UNCHANGED <<mapping, raOriginal, raOpen>>
    BY <1>3, OneEntry DEF CloseDone, Entry
  <2>2. raOpen' = {}
    BY <2>1 DEF RouteInv, AllocatorServed
  <2> QED
    BY <2>1, <2>2, RouteKept
<1> QED
  BY <1>1, <1>2, <1>3 DEF CleanupDriver

LEMMA RouteStep ==
  ASSUME TypeInv, StructInv, LoopInv, RouteInv, [Next]_vars
  PROVE  RouteInv'
<1> USE DEF pool, ifaces, opens, control, Return, EnterLoop, NextEntry, BeginDump
<1>1. CASE \/ BaseLoads \/ RaCall \/ (\E c \in Controllers : RbCall(c) \/ Stop(c))
           \/ UNCHANGED vars
  <2>1. /\ UNCHANGED <<mapping, raOriginal, list, raIface, raOpen>>
        /\ pc' = "closing" => cur' = 1 \/ UNCHANGED <<pc, cur>>
    BY <1>1 DEF BaseLoads, RaCall, RbCall, Stop, StopFails, StopWhole, StopChildren, vars
  <2> QED
    BY <2>1, RouteKept
<1>2. CASE \/ StartCall \/ OpenDone \/ BaseStarts \/ BaseStartRefused \/ BaseStarted
           \/ BaseStartFails \/ DumpInstalledDevices
           \/ \E b \in IoBlocks : OpenSkip(b) \/ OpenIoFails(b)
  <2>1. UNCHANGED <<mapping, raOriginal, list, raIface, raOpen>> /\ pc' # "closing"
    BY <1>2, DumpSteps DEF StartCall, OpenDone, BaseStarts, BaseStartRefused, BaseStarted,
       BaseStartFails, OpenSkip, OpenIoFails, Opening
  <2> QED
    BY <2>1, RouteKept
<1> QED
  BY <1>1, <1>2, RouteSupported, RouteOpen, RouteCleanup DEF Next, DriverBinding, Start

(***************************************************************************)
(* The searches.                                                           *)
(***************************************************************************)
\* A bridge that has been started holds the listed mapping, with its original.
LEMMA StartedHolds ==
  ASSUME Routing, NEW c \in Controllers, held[c] # NULL, ~(pc = "enumerating" /\ c = ctl)
  PROVE  /\ Len(list) = 1 /\ Entry /\ list[1] = held[c]
         /\ mapping[held[c]].controller = c /\ mapping[held[c]].original = c
<1> USE DEF Routing
<1>1. Entry /\ held[c] = list[1] /\ First.isOpen
  BY DEF LoopInv, HeldListed
<1>2. Len(list) = 1 /\ list[1] \in IoBlocks
  BY <1>1, OneEntry DEF Entry
<1>3. mapping[held[c]].controller = c
  BY DEF StructInv, HeldIsInstalled, IfacesAlive
<1>4. mapping[held[c]].original = c
  BY <1>1, <1>2, <1>3 DEF LoopInv, OriginalKnown, Entry, First, RouteInv, OriginalHome
<1> QED
  BY <1>1, <1>2, <1>3, <1>4

\* So the search of a forwarder ends at the first entry, which is allocated.
LEMMA StartedFound ==
  ASSUME Routing, fault = "none", NEW c \in Controllers, held[c] # NULL,
         ~(pc = "enumerating" /\ c = ctl)
  PROVE  /\ FindRootBridgeIoProtocolMappingBySubstitute(held[c]) = [at |-> 1, original |-> c]
         /\ Len(list) = 1 /\ list[1] \in ioLive
<1>1. Len(list) = 1 /\ Entry /\ list[1] = held[c] /\ mapping[held[c]].original = c
  BY StartedHolds
<1>2. {j \in 1..Len(list) : list[j] = held[c]} = {1}
  BY <1>1
<1>3. FindRootBridgeIoProtocolMappingBySubstitute(held[c]) = [at |-> 1, original |-> c]
  BY <1>1, <1>2, FirstOfOne DEF FindRootBridgeIoProtocolMappingBySubstitute
<1>4. list[1] \in ioLive
  <2>1. 1 \in 1..Len(list) /\ (pc = "closing" => 1 >= cur)
    BY <1>1 DEF Entry
  <2> QED
    BY <2>1 DEF Routing, StructInv, ListedMappingsAlive
<1> QED
  BY <1>1, <1>3, <1>4

\* Whoever holds a substitute finds the original of its own bridge, or none.
LEMMA BridgeFoundOrNone ==
  ASSUME Routing, NEW c \in Controllers, held[c] # NULL
  PROVE  FindRootBridgeIoProtocolMappingBySubstitute(held[c]).original \in {NULL, c}
<1>1. held[c] \in IoBlocks /\ mapping[held[c]].controller = c
  BY DEF Routing, StructInv, HeldIsInstalled, IfacesAlive, TypeInv, ShimTypeOK, HandlesTypeOK
<1>2. mapping[held[c]].original \in {NULL, c}
  BY <1>1 DEF Routing, RouteInv, OriginalHome
<1> QED
  BY <1>2 DEF FindRootBridgeIoProtocolMappingBySubstitute

\* The allocator substitute the base driver finds is that of the listed mapping,
\* and this mapping is that of its own bridge.
LEMMA AllocatorFoundHere ==
  ASSUME Routing, pc = "enumerating", AllocatorFound, held[ctl] # NULL
  PROVE  /\ Entry /\ held[ctl] = list[1] /\ First.controller = ctl
         /\ mapping[held[ctl]].handle = First.parent /\ First.parent \in RaBlocks
<1> USE DEF Routing
<1>1. ctl \in Controllers /\ mapping[held[ctl]].handle \in RaBlocks
  BY DEF AllocatorFound, TypeInv, ShimTypeOK, ControlTypeOK, HandlesTypeOK
<1>2. held[ctl] \in ioLive /\ mapping[held[ctl]].controller = ctl
  BY <1>1 DEF StructInv, HeldIsInstalled, IfacesAlive
<1>3. Entry /\ held[ctl] = list[1]
  BY <1>1, <1>2 DEF LoopInv, UnlistedBare
<1> QED
  BY <1>1, <1>2, <1>3 DEF RouteInv, AllocatorHome, Entry, First

LEMMA AllocatorFoundOrNone ==
  ASSUME Routing, pc = "enumerating", AllocatorFound, held[ctl] # NULL
  PROVE  FindResourceAllocationProtocolMappingBySubstitute(mapping[held[ctl]].handle).original
           \in {NULL, HostBridgeOf[ctl]}
<1> DEFINE h == mapping[held[ctl]].handle
<1>1. raOriginal[h] \in {NULL, HostBridgeOf[ctl]}
  BY AllocatorFoundHere DEF Routing, RouteInv, AllocatorHome, Entry
<1> HIDE DEF h
<1>2. FindResourceAllocationProtocolMappingBySubstitute(h).original \in {NULL, HostBridgeOf[ctl]}
  BY <1>1 DEF FindResourceAllocationProtocolMappingBySubstitute
<1> QED
  BY <1>2 DEF h

\* A call through a substitute RBIO goes home, or it is the first undefined
\* access and goes nowhere.
LEMMA BridgeCallHome ==
  ASSUME Routing, NEW c \in Controllers, held[c] # NULL, CallBridge(c)
  PROVE  \/ routed' = [proto |-> "rb", from |-> c, to |-> c] /\ UNCHANGED fault
         \/ UNCHANGED routed /\ fault' # "none"
<1> DEFINE f == FindRootBridgeIoProtocolMappingBySubstitute(held[c])
<1>1. f.original \in {NULL, c} /\ Forward("rb", c, f.at, f.original)
  BY BridgeFoundOrNone DEF CallBridge
<1> HIDE DEF f
<1> QED
  BY <1>1 DEF Forward

\* And once the bridge is started, it goes home.
LEMMA StartedCallHome ==
  ASSUME Routing, fault = "none", NEW c \in Controllers, held[c] # NULL,
         ~(pc = "enumerating" /\ c = ctl), CallBridge(c)
  PROVE  routed' = [proto |-> "rb", from |-> c, to |-> c] /\ UNCHANGED fault
<1> DEFINE f == FindRootBridgeIoProtocolMappingBySubstitute(held[c])
<1>1. f = [at |-> 1, original |-> c]
  BY StartedFound
<1>2. Forward("rb", c, 1, c)
  BY <1>1 DEF CallBridge
<1> QED
  BY <1>2, StartedFound, ForwardHome

LEMMA AllocatorCallHome ==
  ASSUME Routing, held[ctl] # NULL, RaCall
  PROVE  \/ routed' = [proto |-> "ra", from |-> ctl, to |-> HostBridgeOf[ctl]] /\ UNCHANGED fault
         \/ UNCHANGED routed /\ fault' # "none"
<1> DEFINE f == FindResourceAllocationProtocolMappingBySubstitute(mapping[held[ctl]].handle)
<1>1. /\ f.original \in {NULL, HostBridgeOf[ctl]}
      /\ Forward("ra", ctl, f.at, f.original)
  BY AllocatorFoundOrNone DEF RaCall
<1> HIDE DEF f
<1> QED
  BY <1>1 DEF Forward

(***************************************************************************)
(* What follows for every execution, whatever fails.                       *)
(***************************************************************************)
RoutingWell == Routing /\ DumpVisitsStarted /\ StartsFresh

LEMMA RoutingInit == Init => RoutingWell
  BY TypeInit, StructInit, LoopInit, RouteInit
     DEF Init, RoutingWell, Routing, DumpVisitsStarted, StartsFresh

LEMMA RoutingStep ==
  ASSUME RoutingWell, [Next]_vars
  PROVE  RoutingWell'
  BY TypeStep, StructStep, LoopStep, RouteStep, DumpVisitsStep, StartsFreshStep
     DEF RoutingWell, Routing

\* A step of the shim that forwards nothing.
LEMMA OnlyCallsRoute ==
  ASSUME BaseLoads \/ UNCHANGED vars \/ CleanupDriver \/ \E c \in Controllers : Supported(c) \/ Stop(c)
  PROVE  /\ UNCHANGED routed
         /\ \/ UNCHANGED fault
            \/ \E c \in Controllers :
                 SupportedAllocFails(c) \/ \E b \in IoBlocks : SupportedAllocRaFails(c, b)
            \/ \E b \in IoBlocks : CloseScrubbed(b)
<1>1. CASE BaseLoads \/ UNCHANGED vars
  BY <1>1 DEF BaseLoads, vars
<1>2. ASSUME NEW c \in Controllers, Stop(c)
      PROVE  UNCHANGED <<routed, fault>>
  BY <1>2 DEF Stop, StopFails, StopWhole, StopChildren
<1>3. ASSUME NEW c \in Controllers, Supported(c)
      PROVE  /\ UNCHANGED routed
             /\ \/ UNCHANGED fault \/ SupportedAllocFails(c)
                \/ \E b \in IoBlocks : SupportedAllocRaFails(c, b)
  BY <1>3 DEF Supported, SupportedUnlocated, SupportedAlreadyStarted, SupportedTestRefused,
     SupportedMapped, SupportedMappedRefused, SupportedAllocFails, SupportedInstallIoFails,
     SupportedBaseRejects, SupportedAllocRaFails, SupportedInstallRaFails,
     SupportedHooks, HookBoth
<1>4. ASSUME CleanupDriver
      PROVE  UNCHANGED routed /\ (UNCHANGED fault \/ \E b \in IoBlocks : CloseScrubbed(b))
  BY <1>4 DEF CleanupDriver, CloseIoFails, CloseRaFails, UninstallRaFails, UninstallIoFails,
     CloseMapping, CloseScrubbed, CloseDone, CloseIo, CloseRa, UninstallRa, UninstallIo
<1> QED
  BY <1>1, <1>2, <1>3, <1>4

\* A step routes a call home or leaves the last route standing.
LEMMA RoutesHome ==
  ASSUME RoutingWell, [Next]_vars
  PROVE  \/ UNCHANGED routed
         \/ \E c \in Controllers :
              \/ routed' = [proto |-> "rb", from |-> c, to |-> c]
              \/ routed' = [proto |-> "ra", from |-> c, to |-> HostBridgeOf[c]]
<1> USE DEF RoutingWell
<1>1. CASE \E c \in Controllers : RbCall(c)
  BY <1>1, BridgeCallHome DEF RbCall
<1>2. CASE RaCall
  <2>1. held[ctl] # NULL /\ ctl \in Controllers
    BY <1>2 DEF RaCall, StartsFresh, Routing, TypeInv, ShimTypeOK, ControlTypeOK
  <2> QED
    BY <1>2, <2>1, AllocatorCallHome
<1>3. CASE DumpInstalledDevices
  <2>1. UNCHANGED routed \/ \E d \in Devices \cap handles : CallBridge(BridgeOf[d])
    BY <1>3, DumpSteps
  <2>2. ASSUME NEW d \in Devices \cap handles
        PROVE  BridgeOf[d] \in Controllers /\ held[BridgeOf[d]] # NULL
    BY <1>3, DumpSteps DEF DumpVisitsStarted, Installed
  <2> QED
    BY <2>1, <2>2, BridgeCallHome
<1>4. CASE BaseLoads \/ UNCHANGED vars \/ CleanupDriver \/ \E c \in Controllers : Supported(c) \/ Stop(c)
  BY <1>4, OnlyCallsRoute
<1>5. CASE Start /\ ~DumpInstalledDevices
  BY <1>5 DEF Start, StartCall, OpenSkip, OpenIoFails, OpenRaFails, OpenBoth, OpenIo, OpenDone,
     BaseStarts, BaseStartRefused, BaseStarted, BaseStartFails
<1> QED
  BY <1>1, <1>2, <1>3, <1>4, <1>5 DEF Next, DriverBinding

\* No call ever reaches the original of another bridge, or the allocator of
\* another host bridge, whatever fails.
THEOREM RoutedHomeAlways == Spec => []RoutedHome
<1>1. Init => RoutedHome
  BY DEF Init, RoutedHome, NoRoute
<1>2. RoutingWell /\ RoutedHome /\ [Next]_vars => RoutedHome'
  BY RoutesHome DEF RoutedHome
<1> QED
  BY <1>1, <1>2, RoutingInit, RoutingStep, PTL DEF Spec

\* A bridge that was started is served by its own original, and by its host bridge's
\* allocator as long as the shim has that open, whatever failed before: in the probe,
\* in the opens behind it or in an earlier Stop().
THEOREM StartedServedAlways == Spec => []StartedServed
<1>1. RoutingWell => StartedServed
  <2>1. SUFFICES ASSUME RoutingWell, NEW c \in Controllers, held[c] # NULL,
                        ~(pc = "enumerating" /\ c = ctl)
                 PROVE  LET m == mapping[held[c]]
                        IN  /\ \E i \in 1..Len(list) : list[i] = held[c]
                            /\ m.original = c /\ m.segment = c
                            /\ c \in raOpen => /\ m.parent \in raIface
                                              /\ raOriginal[m.parent] = HostBridgeOf[c]
    BY DEF StartedServed
  <2>2. /\ Len(list) = 1 /\ list[1] = held[c] /\ First = mapping[held[c]]
        /\ First.controller = c /\ First.original = c
    BY <2>1, StartedHolds DEF RoutingWell, First
  <2>3. 1 \in 1..Len(list)
    BY <2>2
  <2>4. First.segment = c
    <3>1. held[c] \in IoBlocks
      BY <2>1 DEF RoutingWell, Routing, TypeInv, ShimTypeOK, HandlesTypeOK
    <3> QED
      BY <2>1, <2>2, <3>1 DEF RoutingWell, Routing, RouteInv, OriginalHome
  <2>5. c \in raOpen => First.parent \in raIface /\ raOriginal[First.parent] = HostBridgeOf[c]
    BY <2>1, <2>2 DEF RoutingWell, Routing, RouteInv, AllocatorServed
  <2> QED
    BY <2>2, <2>3, <2>4, <2>5
<1> QED
  BY <1>1, RoutingInit, RoutingStep, PTL DEF Spec

\* There is one mapping, and a bridge that runs has it: whatever fails, the base
\* driver runs one root bridge at a time, of however many.
THEOREM OneBridgeRunsAlways == Spec => []OneBridgeRuns
<1>1. RoutingWell => OneBridgeRuns
  <2>1. SUFFICES ASSUME RoutingWell, NEW c \in Controllers, NEW d \in Controllers,
                        held[c] # NULL, held[d] # NULL, ~(pc = "enumerating" /\ ctl \in {c, d})
                 PROVE  c = d
    BY DEF OneBridgeRuns
  <2>2. list[1] = held[c] /\ mapping[held[c]].original = c
    BY <2>1, StartedHolds DEF RoutingWell
  <2>3. list[1] = held[d] /\ mapping[held[d]].original = d
    BY <2>1, StartedHolds DEF RoutingWell
  <2> QED
    BY <2>2, <2>3
<1> QED
  BY <1>1, RoutingInit, RoutingStep, PTL DEF Spec

\* The undefined accesses are those of a write through NULL, of a call before
\* Start() has returned, and of the walk over a scrubbed list: no others, however
\* many bridges there are, and whatever fails in which order.
THEOREM FaultsOnlyWhereAlways == Spec => FaultsOnlyWhere
<1> DEFINE Where == \/ \E c \in Controllers :
                         SupportedAllocFails(c) \/ \E b \in IoBlocks : SupportedAllocRaFails(c, b)
                    \/ pc = "enumerating" /\ (RbCall(ctl) \/ RaCall)
                    \/ \E b \in IoBlocks : CloseScrubbed(b)
<1>1. RoutingWell /\ [Next]_vars => [fault' # fault => Where]_vars
  <2>1. SUFFICES ASSUME RoutingWell, Next, fault' # fault, ~Where
                 PROVE  FALSE
    BY DEF vars
  <2>2. fault = "none" /\ Routing
    BY <2>1 DEF Next, RoutingWell
  <2>3. ASSUME NEW c \in Controllers, RbCall(c)
        PROVE  FALSE
    <3>1. ~(pc = "enumerating" /\ c = ctl)
      BY <2>1, <2>3
    <3> QED
      BY <2>1, <2>2, <2>3, <3>1, StartedCallHome DEF RbCall
  <2>4. ~RaCall
    BY <2>1 DEF RaCall
  <2>5. ASSUME DumpInstalledDevices
        PROVE  FALSE
    <3>1. pc = "dumping" /\ \E d \in Devices \cap handles : CallBridge(BridgeOf[d])
      BY <2>1, <2>5, DumpSteps
    <3>2. ASSUME NEW d \in Devices \cap handles
          PROVE  BridgeOf[d] \in Controllers /\ held[BridgeOf[d]] # NULL
      BY <2>1, <3>1 DEF RoutingWell, DumpVisitsStarted, Installed
    <3> QED
      BY <2>1, <2>2, <3>1, <3>2, StartedCallHome
  <2>6. ~(BaseLoads \/ CleanupDriver \/ \E c \in Controllers : Supported(c) \/ Stop(c))
    BY <2>1, OnlyCallsRoute
  <2>7. ~Start
    BY <2>1, <2>5 DEF Start, StartCall, OpenSkip, OpenIoFails, OpenRaFails, OpenBoth, OpenIo,
       OpenDone, BaseStarts, BaseStartRefused, BaseStarted, BaseStartFails
  <2> QED
    BY <2>1, <2>3, <2>4, <2>6, <2>7 DEF Next, DriverBinding
<1> QED
  BY <1>1, RoutingInit, RoutingStep, PTL DEF Spec, FaultsOnlyWhere
=============================================================================
