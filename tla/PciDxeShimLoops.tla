--------------------------- MODULE PciDxeShimLoops ---------------------------
(* What the loops of OpenBaseProtocols() and CleanupDriver() leave behind, *)
(* whatever fails, and which failures leak.                                *)
EXTENDS PciDxeShimProofs

USE NullAssumption, BridgeAssumption, DeviceAssumption

(***************************************************************************)
(* The list holds one mapping at most, so a loop over it is one step and   *)
(* the invariant speaks of its first entry.                                *)
(***************************************************************************)
First == mapping[list[1]]

\* The listed mapping, until CleanupDriver() has freed it.
Entry == list # <<>> /\ (pc = "closing" => cur = 1)

\* OpenBaseProtocols() has opened the mapping before it goes on, and the base
\* driver holds nothing but an open mapping.
OpenedFirst ==
  list # <<>> /\ (pc = "opening" => cur > 1)
              /\ pc \in {"opening", "baseStart", "enumerating", "dumping", "closing"} => First.isOpen

\* A mapping that waits to be opened has its allocator mapping still, and one
\* that was opened has an original.
ParentAllocated == list # <<>> /\ ~First.isOpen => First.parent \in raLive
OriginalKnown   == list # <<>> /\ First.isOpen => First.original # NULL

\* Nothing but the listed mapping has an allocator substitute installed: a
\* mapping that a failed probe left off the list has no handle for one.
AllocatorListed == raIface # {} => Entry /\ raIface = {First.handle}
UnlistedBare    == \A b \in ioLive : mapping[b].handle = NULL \/ (Entry /\ b = list[1])

\* The base driver keeps what it opened only if it found the allocator there.
HeldListed ==
  \A c \in Controllers : held[c] # NULL /\ ~(pc = "enumerating" /\ c = ctl) =>
    Entry /\ held[c] = list[1] /\ First.isOpen

\* CleanupDriver() gets past an entry only once it has released all of it.
ClosingReleased ==
  pc = "closing" =>
    /\ list # <<>>
    /\ cur > 1 => ioIface[ctl] = NULL /\ ctl \notin ioOpen \cup testOpen \cup raOpen

LoopInv ==
  /\ OpenedFirst /\ ParentAllocated /\ OriginalKnown /\ AllocatorListed
  /\ UnlistedBare /\ HeldListed /\ ClosingReleased

LEMMA LoopInit == Init => LoopInv
  BY DEF Init, LoopInv, OpenedFirst, ParentAllocated, OriginalKnown, AllocatorListed, UnlistedBare,
     HeldListed, ClosingReleased

\* The list is empty or has one entry, a block that can hold a mapping.
LEMMA OneEntry ==
  ASSUME TypeInv, StructInv
  PROVE  /\ list = <<>> \/ (Len(list) = 1 /\ list[1] \in IoBlocks)
         /\ list = <<>> <=> Len(list) = 0
         /\ cur \in 1..(Len(list) + 1)
<1>1. list \in Seq(IoBlocks) /\ Len(list) <= 1 /\ cur \in 1..(Len(list) + 1)
  BY DEF StructInv, AtMostOneMapping, TypeInv, ShimTypeOK, PoolTypeOK, ControlTypeOK
<1>2. list = <<>> <=> Len(list) = 0
  BY <1>1
<1>3. Len(list) \in Nat /\ (\A i \in 1..Len(list) : list[i] \in IoBlocks)
  BY <1>1
<1>4. CASE Len(list) = 0
  BY <1>1, <1>2, <1>4
<1>5. CASE Len(list) = 1
  <2>1. list[1] \in IoBlocks
    BY <1>3, <1>5
  <2> QED
    BY <1>1, <1>2, <1>5, <2>1
<1>6. Len(list) = 0 \/ Len(list) = 1
  <2>1. Len(list) \in Nat /\ Len(list) <= 1
    BY <1>1, <1>3
  <2>2. \A n \in Nat : n <= 1 => n = 0 \/ n = 1
    OBVIOUS
  <2> QED
    BY <2>1, <2>2
<1> QED
  BY <1>4, <1>5, <1>6

\* A step outside CleanupDriver() that leaves the mappings alone.
LEMMA LoopKept ==
  ASSUME LoopInv, UNCHANGED <<list, ioLive, raLive, mapping, raIface, held>>,
         pc # "closing", pc' # "closing", OpenedFirst',
         pc = "enumerating" => UNCHANGED <<pc, ctl>>
  PROVE  LoopInv'
  BY DEF LoopInv, OpenedFirst, ParentAllocated, OriginalKnown, AllocatorListed, UnlistedBare,
     HeldListed, ClosingReleased, Entry, First

\* A step that leaves the shim where it is.
LEMMA LoopUntouched ==
  ASSUME LoopInv, UNCHANGED <<pool, ifaces, ioOpen, testOpen, raOpen, held, control>>
  PROVE  LoopInv'
<1> USE DEF LoopInv, pool, ifaces, control, Entry, First
<1>1. OpenedFirst' /\ ParentAllocated' /\ OriginalKnown' /\ AllocatorListed'
  BY DEF OpenedFirst, ParentAllocated, OriginalKnown, AllocatorListed
<1>2. UnlistedBare' /\ HeldListed' /\ ClosingReleased'
  BY DEF UnlistedBare, HeldListed, ClosingReleased
<1> QED
  BY <1>1, <1>2

LEMMA LoopSupported ==
  ASSUME TypeInv, StructInv, LoopInv, NEW c \in Controllers, Supported(c)
  PROVE  LoopInv'
<1> USE DEF pool, ifaces, opens, control, Return, ReturnSupported
<1>1. ASSUME \/ SupportedUnlocated(c) \/ SupportedAlreadyStarted(c) \/ SupportedTestRefused(c)
             \/ SupportedMapped(c) \/ SupportedMappedRefused(c) \/ SupportedAllocFails(c)
      PROVE  LoopInv'
  <2>1. /\ pc = "idle" /\ pc' \in {"idle", "ready"}
        /\ UNCHANGED <<list, ioLive, raLive, mapping, raIface, held>>
    BY <1>1 DEF SupportedUnlocated, SupportedAlreadyStarted, SupportedTestRefused,
                SupportedMapped, SupportedMappedRefused, SupportedAllocFails
  <2>2. OpenedFirst'
    BY <2>1 DEF OpenedFirst
  <2> QED
    BY <2>1, <2>2, LoopKept
<1>2. ASSUME NEW b \in IoBlocks, FirstProbe(c, b), pc' \in {"idle", "ready"}, UNCHANGED held,
             NEW new, mapping' = [mapping EXCEPT ![b] = new], ~new.isOpen,
             \/ list' = list /\ raIface' = raIface /\ raLive \subseteq raLive' /\ new.handle = NULL
             \/ /\ list' = <<b>> /\ raIface' = raIface \cup {new.handle}
                /\ new.parent \in raLive',
             ioLive' \subseteq ioLive \cup {b}
      PROVE  LoopInv'
  <2>1. list = <<>> /\ pc = "idle" /\ b \notin ioLive
    BY <1>2 DEF FirstProbe, IsProtocolsMapped
  <2>2. raIface = {} /\ (\A e \in ioLive : mapping[e].handle = NULL)
    BY <2>1 DEF LoopInv, AllocatorListed, UnlistedBare, Entry
  <2>3. \A k \in Controllers : held[k] = NULL
    BY <2>1 DEF LoopInv, HeldListed, Entry
  <2>4. mapping'[b] = new /\ \A e \in ioLive : mapping'[e] = mapping[e]
    BY <1>2, <2>1 DEF TypeInv, ShimTypeOK, PoolTypeOK
  <2>5. list' = <<>> \/ (list' = <<b>> /\ list'[1] = b /\ First' = new)
    BY <1>2, <2>1, <2>4 DEF First
  <2>6. OpenedFirst' /\ OriginalKnown' /\ ClosingReleased'
    BY <1>2, <2>5 DEF OpenedFirst, OriginalKnown, ClosingReleased
  <2>7. ParentAllocated' /\ AllocatorListed'
    BY <1>2, <2>1, <2>2, <2>5 DEF ParentAllocated, AllocatorListed, Entry
  <2>8. UnlistedBare'
    BY <1>2, <2>1, <2>2, <2>4, <2>5 DEF UnlistedBare, Entry
  <2>9. HeldListed'
    BY <1>2, <2>3 DEF HeldListed
  <2> QED
    BY <2>6, <2>7, <2>8, <2>9 DEF LoopInv
<1>3. ASSUME NEW b \in IoBlocks, SupportedInstallIoFails(c, b) \/ SupportedBaseRejects(c, b)
      PROVE  LoopInv'
  <2>1. ~FreshMapping(c).isOpen /\ FreshMapping(c).handle = NULL
    BY DEF FreshMapping
  <2> QED
    BY <1>2, <1>3, <2>1 DEF SupportedInstallIoFails, SupportedBaseRejects, FirstProbe
<1>7. ASSUME NEW b \in IoBlocks, SupportedAllocRaFails(c, b)
      PROVE  LoopInv'
  <2>1. ~FreshMapping(c).isOpen /\ FreshMapping(c).handle = NULL
    BY DEF FreshMapping
  <2> QED
    BY <1>2, <1>7, <2>1 DEF SupportedAllocRaFails, FirstProbe
<1>4. ASSUME NEW b \in IoBlocks, NEW r \in RaBlocks, NEW h \in RaBlocks \cup {NULL},
             HookBoth(c, b, r, h),
             \/ h = NULL /\ list' = list /\ raIface' = raIface
             \/ h = r /\ list' = Append(list, b) /\ raIface' = raIface \cup {r}
      PROVE  LoopInv'
  <2> DEFINE new == [FreshMapping(c) EXCEPT !.parent = r, !.handle = h]
  <2>1. ~new.isOpen /\ new.handle = h /\ new.parent = r
    BY DEF FreshMapping
  <2>2. /\ FirstProbe(c, b) /\ pc' = "ready" /\ UNCHANGED held
        /\ mapping' = [mapping EXCEPT ![b] = new]
        /\ raLive' = raLive \cup {r} /\ ioLive' = ioLive \cup {b}
    BY <1>4 DEF HookBoth
  <2>3. list = <<>>
    BY <2>2 DEF FirstProbe, IsProtocolsMapped
  <2> HIDE DEF new
  <2>4. CASE h = NULL /\ list' = list /\ raIface' = raIface
    BY <1>2, <2>1, <2>2, <2>4
  <2>5. CASE h = r /\ list' = Append(list, b) /\ raIface' = raIface \cup {r}
    <3>1. list' = <<b>>
      BY <2>3, <2>5
    <3> QED
      BY <1>2, <2>1, <2>2, <2>5, <3>1
  <2> QED
    BY <1>4, <2>4, <2>5
<1>5. ASSUME NEW b \in IoBlocks, NEW r \in RaBlocks, SupportedInstallRaFails(c, b, r)
      PROVE  LoopInv'
  BY <1>4, <1>5 DEF SupportedInstallRaFails
<1>6. ASSUME NEW b \in IoBlocks, NEW r \in RaBlocks, SupportedHooks(c, b, r)
      PROVE  LoopInv'
  BY <1>4, <1>6 DEF SupportedHooks
<1> QED
  BY <1>1, <1>3, <1>5, <1>6, <1>7 DEF Supported

LEMMA LoopStart ==
  ASSUME TypeInv, StructInv, LoopInv, Start
  PROVE  LoopInv'
<1> USE DEF pool, ifaces, opens, control, Return, EnterLoop, NextEntry, BeginDump
<1>1. /\ list = <<>> \/ (Len(list) = 1 /\ list[1] \in IoBlocks)
      /\ list = <<>> <=> Len(list) = 0
      /\ cur \in 1..(Len(list) + 1)
  BY OneEntry
<1>2. CASE StartCall \/ OpenDone \/ BaseStartRefused
  <2>1. /\ pc \in {"ready", "opening", "baseStart"} /\ pc' # "closing"
        /\ UNCHANGED <<list, ioLive, raLive, mapping, raIface, held>>
    BY <1>2 DEF StartCall, OpenDone, BaseStartRefused
  <2>2. OpenedFirst'
    BY <1>1, <1>2, <2>1 DEF StartCall, OpenDone, BaseStartRefused, LoopInv, OpenedFirst, First
  <2> QED
    BY <2>1, <2>2, LoopKept
<1>3. CASE DumpInstalledDevices
  <2>1. /\ pc = "dumping" /\ pc' \in {"dumping", "idle"}
        /\ UNCHANGED <<list, ioLive, raLive, mapping, raIface, held>>
    BY <1>3, DumpSteps
  <2>2. OpenedFirst'
    BY <2>1 DEF LoopInv, OpenedFirst, First
  <2> QED
    BY <2>1, <2>2, LoopKept
<1>4. ASSUME NEW b \in IoBlocks, OpenSkip(b) \/ OpenIoFails(b)
      PROVE  LoopInv'
  <2>1. /\ pc = "opening" /\ pc' \in {"opening", "idle"}
        /\ UNCHANGED <<list, ioLive, raLive, mapping, raIface, held>>
        /\ pc' = "opening" => mapping[b].isOpen
        /\ b = list[cur] /\ cur <= Len(list)
    BY <1>4 DEF OpenSkip, OpenIoFails, Opening
  <2>2. OpenedFirst'
    BY <1>1, <2>1 DEF OpenedFirst, First
  <2> QED
    BY <2>1, <2>2, LoopKept
<1>5. ASSUME NEW b \in IoBlocks, OpenRaFails(b) \/ OpenBoth(b)
      PROVE  LoopInv'
  <2>1. /\ pc = "opening" /\ pc' \in {"opening", "idle"} /\ b = list[cur] /\ cur <= Len(list)
        /\ UNCHANGED <<list, ioLive, raLive, raIface, held>>
        /\ mapping' = [mapping EXCEPT ![b].isOpen = TRUE, ![b].original = mapping[b].controller,
                                      ![b].segment = mapping[b].controller]
    BY <1>5 DEF OpenRaFails, OpenBoth, OpenIo, Opening
  <2>2. list # <<>> /\ cur = 1 /\ b = list[1] /\ list[1]' = b
    <3>1. list # <<>> /\ Len(list) = 1
      BY <1>1, <2>1
    <3>2. cur = 1
      BY <1>1, <2>1, <3>1
    <3>3. b = list[1]
      BY <2>1, <3>2
    <3>4. list' = list
      BY <2>1
    <3> QED
      BY <3>1, <3>2, <3>3, <3>4
  <2>3. First' = [First EXCEPT !.isOpen = TRUE, !.original = mapping[b].controller,
                               !.segment = mapping[b].controller]
    <3>1. mapping \in [IoBlocks -> Mappings]
      BY DEF TypeInv, ShimTypeOK, PoolTypeOK
    <3>2. mapping'[b] = [mapping[b] EXCEPT !.isOpen = TRUE, !.original = mapping[b].controller,
                                          !.segment = mapping[b].controller]
      BY <2>1, <3>1
    <3>3. First' = mapping'[b] /\ First = mapping[b]
      BY <2>2 DEF First
    <3> QED
      BY <3>2, <3>3
  <2>4. /\ First'.isOpen /\ First'.original # NULL
        /\ First'.parent = First.parent /\ First'.handle = First.handle
    <3>1. First \in Mappings /\ mapping[b].controller \in Controllers
      BY <1>1, <2>2 DEF First, TypeInv, ShimTypeOK, PoolTypeOK, ListedHaveController
    <3> QED
      BY <2>3, <3>1 DEF Mappings
  <2>5. \A e \in IoBlocks : mapping'[e].handle = mapping[e].handle
    BY <2>1 DEF TypeInv, ShimTypeOK, PoolTypeOK, Mappings
  <2>6. OpenedFirst' /\ ParentAllocated' /\ OriginalKnown' /\ ClosingReleased'
    BY <2>1, <2>4 DEF OpenedFirst, ParentAllocated, OriginalKnown, ClosingReleased
  <2>7. AllocatorListed'
    BY <2>1, <2>2, <2>4 DEF LoopInv, AllocatorListed, Entry
  <2>8. UnlistedBare'
    BY <2>1, <2>2, <2>5 DEF LoopInv, UnlistedBare, Entry, TypeInv, ShimTypeOK, PoolTypeOK
  <2>9. HeldListed'
    BY <2>1, <2>2, <2>4 DEF LoopInv, HeldListed, Entry
  <2> QED
    BY <2>6, <2>7, <2>8, <2>9 DEF LoopInv
<1>6. CASE BaseStarts
  <2>1. /\ pc = "baseStart" /\ pc' = "enumerating" /\ ctl' = ctl /\ cur' = cur
        /\ UNCHANGED <<list, ioLive, raLive, mapping, raIface>>
        /\ held' = [held EXCEPT ![ctl] = ioIface[ctl]]
    BY <1>6 DEF BaseStarts
  <2>2. HeldListed'
    BY <2>1 DEF LoopInv, HeldListed, Entry, First, TypeInv, ShimTypeOK, HandlesTypeOK
  <2>3. OpenedFirst' /\ ParentAllocated' /\ OriginalKnown' /\ ClosingReleased'
    BY <2>1 DEF LoopInv, OpenedFirst, ParentAllocated, OriginalKnown, ClosingReleased, First
  <2>4. AllocatorListed' /\ UnlistedBare'
    BY <2>1 DEF LoopInv, AllocatorListed, UnlistedBare, Entry, First
  <2> QED
    BY <2>2, <2>3, <2>4 DEF LoopInv
<1>7. CASE BaseStarted
  <2>1. /\ pc = "enumerating" /\ pc' = "dumping" /\ ctl' = ctl /\ cur' = cur /\ AllocatorFound
        /\ UNCHANGED <<list, ioLive, raLive, mapping, raIface, held>>
    BY <1>7 DEF BaseStarted
  <2>2. held[ctl] # NULL => list # <<>> /\ held[ctl] = list[1] /\ First.isOpen
    <3>1. SUFFICES ASSUME held[ctl] # NULL
                   PROVE  list # <<>> /\ held[ctl] = list[1] /\ First.isOpen
      OBVIOUS
    <3>2. ctl \in Controllers /\ mapping[held[ctl]].handle # NULL
      BY <2>1 DEF AllocatorFound, TypeInv, ShimTypeOK, HandlesTypeOK, ControlTypeOK
    <3>3. held[ctl] \in ioLive
      BY <3>1, <3>2 DEF StructInv, HeldIsInstalled, IfacesAlive
    <3> QED
      BY <2>1, <3>2, <3>3 DEF LoopInv, UnlistedBare, Entry, OpenedFirst
  <2>3. HeldListed'
    BY <2>1, <2>2 DEF LoopInv, HeldListed, Entry, First
  <2>4. OpenedFirst' /\ ParentAllocated' /\ OriginalKnown' /\ ClosingReleased'
    BY <2>1 DEF LoopInv, OpenedFirst, ParentAllocated, OriginalKnown, ClosingReleased, First
  <2>5. AllocatorListed' /\ UnlistedBare'
    BY <2>1 DEF LoopInv, AllocatorListed, UnlistedBare, Entry, First
  <2> QED
    BY <2>3, <2>4, <2>5 DEF LoopInv
<1>8. CASE BaseStartFails
  <2>1. /\ pc = "enumerating" /\ pc' = "dumping" /\ ctl' = ctl /\ cur' = cur
        /\ UNCHANGED <<list, ioLive, raLive, mapping, raIface>>
        /\ held' = [held EXCEPT ![ctl] = NULL]
    BY <1>8 DEF BaseStartFails
  <2>2. HeldListed'
    BY <2>1 DEF LoopInv, HeldListed, Entry, First, TypeInv, ShimTypeOK, HandlesTypeOK, ControlTypeOK
  <2>3. OpenedFirst' /\ ParentAllocated' /\ OriginalKnown' /\ ClosingReleased'
    BY <2>1 DEF LoopInv, OpenedFirst, ParentAllocated, OriginalKnown, ClosingReleased, First
  <2>4. AllocatorListed' /\ UnlistedBare'
    BY <2>1 DEF LoopInv, AllocatorListed, UnlistedBare, Entry, First
  <2> QED
    BY <2>2, <2>3, <2>4 DEF LoopInv
<1> QED
  BY <1>2, <1>3, <1>4, <1>5, <1>6, <1>7, <1>8 DEF Start

LEMMA LoopStop ==
  ASSUME TypeInv, StructInv, LoopInv, (\E c \in Controllers : Stop(c)) \/ CleanupDriver
  PROVE  LoopInv'
<1> USE DEF pool, ifaces, opens, control, Return, EnterLoop, NextEntry
<1>1. /\ list = <<>> \/ (Len(list) = 1 /\ list[1] \in IoBlocks)
      /\ list = <<>> <=> Len(list) = 0
      /\ cur \in 1..(Len(list) + 1)
  BY OneEntry
<1>2. ASSUME NEW c \in Controllers, StopFails(c)
      PROVE  LoopInv'
  BY <1>2, LoopKept DEF StopFails, OpenedFirst
<1>3. ASSUME NEW c \in Controllers, StopWhole(c) \/ StopChildren(c)
      PROVE  LoopInv'
  <2>1. /\ pc = "idle" /\ pc' = "closing" /\ ctl' = c /\ cur' = 1 /\ held[c] # NULL
        /\ UNCHANGED <<list, ioLive, raLive, mapping, raIface>>
        /\ UNCHANGED held \/ held' = [held EXCEPT ![c] = NULL]
    BY <1>3 DEF StopWhole, StopChildren
  <2>2. list # <<>> /\ First.isOpen
    BY <2>1 DEF LoopInv, HeldListed, Entry
  <2>3. OpenedFirst' /\ ParentAllocated' /\ OriginalKnown' /\ ClosingReleased'
    BY <2>1, <2>2 DEF LoopInv, OpenedFirst, ParentAllocated, OriginalKnown, ClosingReleased, First
  <2>4. AllocatorListed' /\ UnlistedBare'
    BY <2>1 DEF LoopInv, AllocatorListed, UnlistedBare, Entry, First
  <2>5. HeldListed'
    BY <2>1 DEF LoopInv, HeldListed, Entry, First, TypeInv, ShimTypeOK, HandlesTypeOK
  <2> QED
    BY <2>3, <2>4, <2>5 DEF LoopInv
<1>4. ASSUME NEW b \in IoBlocks, Closing(b)
      PROVE  /\ list # <<>> /\ cur = 1 /\ b = list[1] /\ First = mapping[b] /\ First.isOpen
             /\ raIface \subseteq {First.handle}
             /\ \A e \in ioLive \ {b} : mapping[e].handle = NULL
  <2>1. list # <<>> /\ Len(list) = 1
    BY <1>1, <1>4 DEF Closing
  <2>2. cur = 1
    BY <1>1, <1>4, <2>1 DEF Closing
  <2>3. b = list[1]
    BY <1>4, <2>2 DEF Closing
  <2> QED
    BY <1>4, <2>1, <2>2, <2>3 DEF Closing, LoopInv, OpenedFirst, AllocatorListed, UnlistedBare, Entry, First
<1>5. ASSUME NEW b \in IoBlocks, CloseIoFails(b) \/ CloseRaFails(b)
      PROVE  LoopInv'
  <2>1. Closing(b) /\ pc' = "idle" /\ UNCHANGED <<list, ioLive, raLive, mapping, raIface, held>>
    BY <1>5 DEF CloseIoFails, CloseRaFails, CloseIo
  <2>2. list # <<>> /\ cur = 1
    BY <1>4, <2>1
  <2>3. OpenedFirst' /\ ParentAllocated' /\ OriginalKnown' /\ ClosingReleased'
    BY <2>1 DEF LoopInv, OpenedFirst, ParentAllocated, OriginalKnown, ClosingReleased, First
  <2>4. AllocatorListed' /\ UnlistedBare'
    BY <2>1, <2>2 DEF LoopInv, AllocatorListed, UnlistedBare, Entry, First
  <2>5. HeldListed'
    BY <2>1, <2>2 DEF LoopInv, HeldListed, Entry, First, Closing
  <2> QED
    BY <2>3, <2>4, <2>5 DEF LoopInv
<1>6. ASSUME NEW b \in IoBlocks, UninstallRaFails(b) \/ UninstallIoFails(b)
      PROVE  LoopInv'
  <2>1. /\ Closing(b) /\ pc' = "idle" /\ UNCHANGED <<list, ioLive, mapping, held>>
        /\ raIface' \subseteq raIface
    BY <1>6 DEF UninstallRaFails, UninstallIoFails, UninstallRa, CloseRa, CloseIo
  <2>2. /\ list # <<>> /\ cur = 1 /\ b = list[1] /\ First = mapping[b] /\ First.isOpen
        /\ raIface \subseteq {First.handle} /\ First' = First
    BY <1>4, <2>1 DEF First
  <2>3. OpenedFirst' /\ ParentAllocated' /\ OriginalKnown' /\ ClosingReleased'
    BY <2>1, <2>2 DEF LoopInv, OpenedFirst, ParentAllocated, OriginalKnown, ClosingReleased
  <2>4. AllocatorListed'
    BY <2>1, <2>2 DEF AllocatorListed, Entry
  <2>5. UnlistedBare'
    BY <2>1, <2>2 DEF LoopInv, UnlistedBare, Entry
  <2>6. HeldListed'
    BY <2>1, <2>2 DEF LoopInv, HeldListed, Entry, Closing
  <2> QED
    BY <2>3, <2>4, <2>5, <2>6 DEF LoopInv
<1>7. ASSUME NEW b \in IoBlocks, CloseMapping(b) \/ CloseScrubbed(b)
      PROVE  LoopInv'
  <2>1. /\ Closing(b) /\ IoRemovable(b) /\ UNCHANGED <<list, mapping, held, pc, ctl>>
        /\ ioIface' = [ioIface EXCEPT ![ctl] = NULL] /\ ioLive' = ioLive \ {b}
        /\ raIface' = raIface \ {mapping[b].handle}
        /\ ctl \notin ioOpen' \cup testOpen' \cup raOpen'
    BY <1>7 DEF CloseMapping, CloseScrubbed, UninstallIo, UninstallRa, CloseRa, CloseIo
  <2>2. /\ pc = "closing" /\ list # <<>> /\ cur = 1 /\ b = list[1]
        /\ First = mapping[b] /\ First.isOpen /\ First' = First
        /\ raIface \subseteq {First.handle} /\ \A e \in ioLive \ {b} : mapping[e].handle = NULL
    BY <1>4, <2>1 DEF First, Closing
  <2>3. ctl \in Controllers
    BY <2>2 DEF TypeInv, ShimTypeOK, ControlTypeOK
  <2>4. \A c \in Controllers : held[c] = NULL
    <3>1. SUFFICES ASSUME NEW c \in Controllers, held[c] # NULL PROVE FALSE
      OBVIOUS
    <3>2. held[c] = b
      BY <2>2, <3>1 DEF LoopInv, HeldListed
    <3>3. held[c] = ioIface[c]
      BY <3>1 DEF StructInv, HeldIsInstalled
    <3>4. mapping[b].controller = c /\ mapping[b].controller = ctl
      BY <2>1, <2>3, <3>1, <3>2, <3>3 DEF IoRemovable, StructInv, IfacesAlive
    <3> QED
      BY <2>1, <3>2, <3>4 DEF IoRemovable
  <2>5. OpenedFirst' /\ ParentAllocated' /\ OriginalKnown'
    BY <2>1, <2>2 DEF LoopInv, OpenedFirst, ParentAllocated, OriginalKnown
  <2>6. ClosingReleased'
    BY <2>1, <2>2, <2>3 DEF ClosingReleased, TypeInv, ShimTypeOK, HandlesTypeOK
  <2>7. AllocatorListed' /\ UnlistedBare'
    BY <2>1, <2>2 DEF AllocatorListed, UnlistedBare
  <2>8. HeldListed'
    BY <2>1, <2>4 DEF HeldListed
  <2> QED
    BY <2>5, <2>6, <2>7, <2>8 DEF LoopInv
<1>8. CASE CloseDone
  <2>1. /\ pc = "closing" /\ cur > Len(list) /\ list' = <<>> /\ pc' = "idle"
        /\ UNCHANGED <<ioLive, raLive, mapping, raIface, held>>
    BY <1>8 DEF CloseDone
  <2>2. ~Entry
    BY <1>1, <2>1 DEF Entry
  <2>3. raIface = {} /\ \A e \in ioLive : mapping[e].handle = NULL
    BY <2>2 DEF LoopInv, AllocatorListed, UnlistedBare
  <2>4. \A c \in Controllers : held[c] = NULL
    BY <2>1, <2>2 DEF LoopInv, HeldListed
  <2>5. OpenedFirst' /\ ParentAllocated' /\ OriginalKnown' /\ ClosingReleased'
    BY <2>1 DEF OpenedFirst, ParentAllocated, OriginalKnown, ClosingReleased
  <2>6. AllocatorListed' /\ UnlistedBare' /\ HeldListed'
    BY <2>1, <2>3, <2>4 DEF AllocatorListed, UnlistedBare, HeldListed
  <2> QED
    BY <2>5, <2>6 DEF LoopInv
<1> QED
  BY <1>2, <1>3, <1>5, <1>6, <1>7, <1>8 DEF Stop, CleanupDriver

LEMMA LoopStep ==
  ASSUME TypeInv, StructInv, LoopInv, [Next]_vars
  PROVE  LoopInv'
<1>1. CASE BaseLoads \/ RaCall \/ (\E c \in Controllers : RbCall(c)) \/ UNCHANGED vars
  <2>1. UNCHANGED <<pool, ifaces, ioOpen, testOpen, raOpen, held, control>>
    BY <1>1 DEF BaseLoads, RaCall, RbCall, vars, opens
  <2> QED
    BY <2>1, LoopUntouched
<1> QED
  BY <1>1, LoopSupported, LoopStart, LoopStop DEF Next, DriverBinding

\* The two loops write and read through valid pointers only, whatever fails.
THEOREM LoopPointersValidAlways == Spec => []LoopPointersValid
<1>1. TypeInv /\ StructInv /\ LoopInv => LoopPointersValid
  <2>1. SUFFICES ASSUME TypeInv, StructInv, LoopInv, NEW i \in cur..Len(list)
                 PROVE  /\ pc = "opening" /\ ~mapping[list[i]].isOpen =>
                              mapping[list[i]].parent \in raLive
                        /\ pc = "closing" => mapping[list[i]].original # NULL
    BY DEF LoopPointersValid
  <2>2. list # <<>> /\ i = 1
    <3>1. Len(list) = 0 \/ Len(list) = 1
      BY <2>1, OneEntry
    <3>2. cur \in 1..(Len(list) + 1) /\ i \in cur..Len(list)
      BY <2>1, OneEntry
    <3>3. CASE Len(list) = 0
      BY <3>2, <3>3
    <3>4. CASE Len(list) = 1
      <4>1. cur \in 1..2 /\ i \in cur..1
        BY <3>2, <3>4
      <4>2. i = 1
        BY <4>1
      <4> QED
        BY <2>1, <3>4, <4>2, OneEntry
    <3> QED
      BY <3>1, <3>3, <3>4
  <2> QED
    BY <2>1, <2>2 DEF LoopInv, OpenedFirst, ParentAllocated, OriginalKnown, First
<1> QED
  BY <1>1, TypeInit, TypeStep, StructInit, StructStep, LoopInit, LoopStep, PTL DEF Spec

\* Only the end of the loop returns success to a Stop().
LEMMA StopOkIsDone ==
  ASSUME [Next]_vars, pc = "closing", pc' = "idle", ret' = "ok"
  PROVE  CloseDone
<1>1. ~(UNCHANGED vars \/ BaseLoads \/ RaCall \/ \E c \in Controllers : RbCall(c))
  BY DEF vars, BaseLoads, RaCall, RbCall, control
<1>2. ASSUME NEW c \in Controllers
      PROVE  ~Supported(c) /\ ~Stop(c)
  BY DEF Supported, SupportedUnlocated, SupportedAlreadyStarted, SupportedTestRefused,
     SupportedMapped, SupportedMappedRefused, SupportedAllocFails, SupportedInstallIoFails,
     SupportedBaseRejects, SupportedAllocRaFails, SupportedInstallRaFails,
     SupportedHooks, HookBoth, FirstProbe,
     Stop, StopFails, StopWhole, StopChildren
<1>3. ~Start
  BY DumpSteps DEF Start, StartCall, OpenSkip, OpenIoFails, OpenRaFails, OpenBoth, OpenIo,
     Opening, OpenDone, BaseStarts, BaseStartRefused, BaseStarted, BaseStartFails
<1>4. ASSUME NEW b \in IoBlocks
      PROVE  /\ ~CloseIoFails(b) /\ ~CloseRaFails(b) /\ ~UninstallRaFails(b)
             /\ ~UninstallIoFails(b) /\ ~CloseMapping(b) /\ ~CloseScrubbed(b)
  BY DEF CloseIoFails, CloseRaFails, UninstallRaFails, UninstallIoFails, CloseMapping,
     CloseScrubbed, Return, NextEntry, control
<1> QED
  BY <1>1, <1>2, <1>3, <1>4 DEF Next, DriverBinding, CleanupDriver

\* A Stop() that reports success has left nothing behind, whatever fails.
THEOREM StopOkReleasesAllAlways == Spec => StopOkReleasesAll
<1>1. TypeInv /\ StructInv /\ LoopInv /\ [Next]_vars =>
        [pc = "closing" /\ pc' = "idle" /\ ret' = "ok" =>
           /\ list' = <<>> /\ raIface' = {} /\ ioIface'[ctl] = NULL
           /\ ctl \notin ioOpen' \cup testOpen' \cup raOpen']_vars
  <2>1. SUFFICES ASSUME TypeInv, StructInv, LoopInv, [Next]_vars,
                        pc = "closing", pc' = "idle", ret' = "ok"
                 PROVE  /\ list' = <<>> /\ raIface' = {} /\ ioIface'[ctl] = NULL
                        /\ ctl \notin ioOpen' \cup testOpen' \cup raOpen'
    OBVIOUS
  <2>2. /\ CloseDone /\ list' = <<>>
        /\ UNCHANGED <<ioIface, raIface, ioOpen, testOpen, raOpen>>
    BY <2>1, StopOkIsDone DEF CloseDone, ifaces, opens
  <2>3. list # <<>> /\ cur > 1
    BY <2>1, <2>2, OneEntry DEF CloseDone, LoopInv, ClosingReleased
  <2> QED
    BY <2>1, <2>2, <2>3 DEF LoopInv, ClosingReleased, AllocatorListed, Entry
<1> QED
  BY <1>1, TypeInit, TypeStep, StructInit, StructStep, LoopInit, LoopStep, PTL
     DEF Spec, StopOkReleasesAll

(***************************************************************************)
(* Every call gets on: the half of its termination that needs no fairness. *)
(***************************************************************************)
Nearer ==
  \/ StepsTo(pc') < StepsTo(pc)
  \/ /\ pc' = pc
     /\ \/ list' = list /\ cur' = cur + 1
        \/ buffer = NULL /\ buffer' # NULL
        \/ buffer' = buffer /\ handles' \subseteq handles /\ handles' # handles

LEMMA OpeningGetsOn ==
  ASSUME StartCall \/ (\E b \in IoBlocks : OpenSkip(b) \/ OpenIoFails(b) \/ OpenRaFails(b) \/ OpenBoth(b))
           \/ OpenDone \/ BaseStarts \/ BaseStartRefused \/ BaseStarted \/ BaseStartFails
  PROVE  Nearer
<1> USE DEF Nearer, StepsTo, Return, EnterLoop, NextEntry, BeginDump
<1>1. CASE StartCall \/ OpenDone
  BY <1>1 DEF StartCall, OpenDone
<1>2. ASSUME NEW b \in IoBlocks, OpenSkip(b) \/ OpenIoFails(b) \/ OpenRaFails(b) \/ OpenBoth(b)
      PROVE  Nearer
  <2>1. /\ pc = "opening"
        /\ pc' = "idle" \/ (UNCHANGED <<pc, list>> /\ cur' = cur + 1)
    <3>1. CASE OpenSkip(b) \/ OpenIoFails(b)
      BY <3>1 DEF OpenSkip, OpenIoFails, Opening, pool
    <3>2. CASE OpenRaFails(b)
      BY <3>2 DEF OpenRaFails, OpenIo, Opening
    <3>3. CASE OpenBoth(b)
      BY <3>3 DEF OpenBoth, OpenIo, Opening
    <3> QED
      BY <1>2, <3>1, <3>2, <3>3
  <2> QED
    BY <2>1
<1>3. CASE BaseStarts \/ BaseStartRefused \/ BaseStarted \/ BaseStartFails
  BY <1>3 DEF BaseStarts, BaseStartRefused, BaseStarted, BaseStartFails
<1> QED
  BY <1>1, <1>2, <1>3

LEMMA DumpGetsOn ==
  ASSUME DumpInstalledDevices
  PROVE  Nearer
<1> USE DEF Nearer, StepsTo, Return, DumpReturns, Dumping
<1>1. CASE DumpNothing \/ DumpDone
  BY <1>1 DEF DumpNothing, DumpDone
<1>2. CASE DumpLocates
  BY <1>2, NullAssumption DEF DumpLocates, control
<1>3. ASSUME NEW d \in Devices, DumpOpenFails(d) \/ DumpLocationFails(d) \/ DumpCloseFails(d)
      PROVE  Nearer
  BY <1>3 DEF DumpOpenFails, DumpLocationFails, DumpCloseFails, DumpReads
<1>4. ASSUME NEW d \in Devices, DumpDevice(d)
      PROVE  Nearer
  BY <1>4 DEF DumpDevice, DumpReads, control
<1> QED
  BY <1>1, <1>2, <1>3, <1>4 DEF DumpInstalledDevices

LEMMA CleanupGetsOn ==
  ASSUME CleanupDriver, fault = "none", fault' = "none"
  PROVE  Nearer
<1> USE DEF Nearer, StepsTo, Return, NextEntry
<1>1. ASSUME NEW b \in IoBlocks,
             CloseIoFails(b) \/ CloseRaFails(b) \/ UninstallRaFails(b) \/ UninstallIoFails(b)
      PROVE  Nearer
  BY <1>1 DEF CloseIoFails, CloseRaFails, UninstallRaFails, UninstallIoFails, UninstallRa, CloseRa,
     CloseIo, Closing
<1>2. ASSUME NEW b \in IoBlocks, CloseMapping(b)
      PROVE  Nearer
  BY <1>2 DEF CloseMapping, UninstallIo
<1>3. ASSUME NEW b \in IoBlocks
      PROVE  ~CloseScrubbed(b)
  BY DEF CloseScrubbed
<1>4. CASE CloseDone
  BY <1>4 DEF CloseDone
<1> QED
  BY <1>1, <1>2, <1>3, <1>4 DEF CleanupDriver

\* No call goes round in circles: each step of Start() and of CleanupDriver()
\* brings its return nearer, unless it ends in an undefined access, and no other
\* step takes that back, for any number of bridges, blocks and devices.
THEOREM CallsGetOnAlways == Spec => CallsGetOn
<1>1. [Next]_vars =>
        [pc # "idle" /\ fault' = "none" =>
           IF Start \/ CleanupDriver THEN Nearer
           ELSE UNCHANGED <<list, buffer, handles, pc, ctl, cur, status>>]_vars
  <2>1. SUFFICES ASSUME Next, pc # "idle", fault' = "none"
                 PROVE  IF Start \/ CleanupDriver THEN Nearer
                        ELSE UNCHANGED <<list, buffer, handles, pc, ctl, cur, status>>
    BY DEF vars
  <2>2. ASSUME Start \/ CleanupDriver
        PROVE  Nearer
    BY <2>1, <2>2, OpeningGetsOn, DumpGetsOn, CleanupGetsOn DEF Start, Next
  <2>3. ASSUME NEW c \in Controllers
        PROVE  ~Supported(c) /\ ~Stop(c)
    BY <2>1 DEF Supported, SupportedUnlocated, SupportedAlreadyStarted, SupportedTestRefused,
       SupportedMapped, SupportedMappedRefused, SupportedAllocFails, SupportedInstallIoFails,
       SupportedBaseRejects, SupportedAllocRaFails, SupportedInstallRaFails,
       SupportedHooks, HookBoth, FirstProbe,
       Stop, StopFails, StopWhole, StopChildren
  <2>4. ASSUME BaseLoads \/ RaCall \/ \E c \in Controllers : RbCall(c)
        PROVE  UNCHANGED <<list, buffer, handles, pc, ctl, cur, status>>
    BY <2>4 DEF BaseLoads, RaCall, RbCall, pool, opens, dump, control
  <2> QED
    BY <2>1, <2>2, <2>3, <2>4 DEF Next, DriverBinding
<1> QED
  BY <1>1, PTL DEF Spec, CallsGetOn, Nearer

(***************************************************************************)
(* Leaks.  As long as none of the failures below happens, what is          *)
(* allocated is what the list, or the dump under way, still points to.     *)
(***************************************************************************)
\* The failures whose handling forgets a mapping, a buffer or an open record.
Leaking == {"InstallIo", "UninstallIo", "InstallRa", "OpenPciIo", "GetLocation", "ClosePciIo"}

LeaksNothing == Hazards \cap Leaking = {}

MappingsListed ==
  /\ \A b \in ioLive : Entry /\ b = list[1]
  /\ \A r \in raLive : Entry /\ r = First.parent

DumpTidy == deviceOpen = {} /\ bufLive \subseteq {buffer}

LEMMA NoneLeaks == ASSUME LeaksNothing PROVE \A h \in Leaking : ~May(h)
  BY DEF LeaksNothing, May

LEMMA MappingsKept ==
  ASSUME MappingsListed, UNCHANGED <<list, ioLive, mapping>>, raLive' \subseteq raLive,
         (pc' = "closing" => cur' = 1) \/ UNCHANGED <<pc, cur>>
  PROVE  MappingsListed'
  BY DEF MappingsListed, Entry, First

LEMMA MappingsStep ==
  ASSUME LeaksNothing, TypeInv, StructInv, LoopInv, MappingsListed, [Next]_vars, fault' = "none"
  PROVE  MappingsListed'
<1> USE DEF pool, ifaces, opens, control, Return, ReturnSupported, EnterLoop, NextEntry, BeginDump
<1>1. CASE BaseLoads \/ RaCall \/ (\E c \in Controllers : RbCall(c)) \/ UNCHANGED vars
  BY <1>1, MappingsKept DEF BaseLoads, RaCall, RbCall, vars
<1>2. ASSUME NEW c \in Controllers, Supported(c)
      PROVE  MappingsListed'
  <2>1. CASE \/ SupportedUnlocated(c) \/ SupportedAlreadyStarted(c) \/ SupportedTestRefused(c)
             \/ SupportedMapped(c) \/ SupportedMappedRefused(c) \/ SupportedAllocFails(c)
    <3>1. /\ UNCHANGED <<list, ioLive, raLive, mapping>>
          /\ pc' \in {"idle", "ready"} \/ UNCHANGED <<pc, cur>>
      BY <2>1 DEF SupportedUnlocated, SupportedAlreadyStarted, SupportedTestRefused,
                  SupportedMapped, SupportedMappedRefused, SupportedAllocFails
    <3> QED
      BY <3>1, MappingsKept
  <2>2. ASSUME NEW b \in IoBlocks, FirstProbe(c, b)
        PROVE  ioLive = {} /\ raLive = {} /\ list = <<>> /\ ioIface[c] = NULL
    <3>1. list = <<>>
      BY <2>2 DEF FirstProbe, IsProtocolsMapped
    <3>2. ioLive = {} /\ raLive = {}
      BY <3>1 DEF MappingsListed, Entry
    <3> QED
      BY <3>1, <3>2 DEF StructInv, IfacesAlive
  <2>3. ASSUME NEW b \in IoBlocks, SupportedInstallIoFails(c, b)
        PROVE  FALSE
    BY <2>2, <2>3, NoneLeaks DEF SupportedInstallIoFails, Leaking
  <2>4. ASSUME NEW b \in IoBlocks, SupportedBaseRejects(c, b)
        PROVE  MappingsListed'
    <3>1. UNCHANGED <<ioLive, raLive>>
      BY <2>4, NoneLeaks DEF SupportedBaseRejects, Leaking
    <3> QED
      BY <2>2, <2>4, <3>1 DEF SupportedBaseRejects, MappingsListed
  <2>5. ASSUME NEW b \in IoBlocks, NEW r \in RaBlocks, SupportedHooks(c, b, r)
        PROVE  MappingsListed'
    <3> DEFINE new == [FreshMapping(c) EXCEPT !.parent = r, !.handle = r]
    <3>1. new.parent = r
      BY DEF FreshMapping
    <3>2. /\ FirstProbe(c, b) /\ list' = Append(list, b) /\ pc' = "ready"
          /\ ioLive' = ioLive \cup {b} /\ raLive' = raLive \cup {r}
          /\ mapping' = [mapping EXCEPT ![b] = new]
      BY <2>5 DEF SupportedHooks, HookBoth
    <3> HIDE DEF new
    <3>3. ioLive' = {b} /\ raLive' = {r} /\ list' = <<b>>
      <4>1. list = <<>> /\ ioLive = {} /\ raLive = {}
        BY <2>2, <3>2
      <4>2. list' = <<b>>
        BY <3>2, <4>1
      <4> QED
        BY <3>2, <4>1, <4>2
    <3>4. First' = new
      BY <3>2, <3>3 DEF First, TypeInv, ShimTypeOK, PoolTypeOK
    <3> QED
      BY <3>1, <3>2, <3>3, <3>4 DEF MappingsListed, Entry
  <2>6. ASSUME NEW b \in IoBlocks, NEW r \in RaBlocks
        PROVE  ~SupportedInstallRaFails(c, b, r)
    BY NoneLeaks DEF SupportedInstallRaFails, Leaking
  <2>7. ASSUME NEW b \in IoBlocks
        PROVE  ~SupportedAllocRaFails(c, b)
    BY DEF SupportedAllocRaFails
  <2> QED
    BY <1>2, <2>1, <2>3, <2>4, <2>5, <2>6, <2>7 DEF Supported
<1>3. CASE Start
  <2>1. CASE \/ StartCall \/ OpenDone \/ BaseStarts \/ BaseStartRefused \/ BaseStarted
             \/ BaseStartFails \/ DumpInstalledDevices
             \/ \E b \in IoBlocks : OpenSkip(b) \/ OpenIoFails(b)
    <3>1. UNCHANGED <<list, ioLive, raLive, mapping>> /\ pc' # "closing"
      BY <2>1, DumpSteps DEF StartCall, OpenDone, BaseStarts, BaseStartRefused, BaseStarted,
         BaseStartFails, OpenSkip, OpenIoFails, Opening
    <3> QED
      BY <3>1, MappingsKept
  <2>2. ASSUME NEW b \in IoBlocks, OpenRaFails(b) \/ OpenBoth(b)
        PROVE  MappingsListed'
    <3>1. /\ pc = "opening" /\ pc' \in {"opening", "idle"} /\ UNCHANGED <<list, ioLive, raLive>>
          /\ mapping' = [mapping EXCEPT ![b].isOpen = TRUE, ![b].original = mapping[b].controller,
                                        ![b].segment = mapping[b].controller]
      BY <2>2 DEF OpenRaFails, OpenBoth, OpenIo, Opening
    <3>2. \A e \in IoBlocks : mapping'[e].parent = mapping[e].parent
      BY <3>1 DEF TypeInv, ShimTypeOK, PoolTypeOK, Mappings
    <3>3. list # <<>> => First'.parent = First.parent
      BY <3>1, <3>2, OneEntry DEF First
    <3> QED
      BY <3>1, <3>3 DEF MappingsListed, Entry
  <2> QED
    BY <1>3, <2>1, <2>2 DEF Start
<1>4. ASSUME NEW c \in Controllers, Stop(c)
      PROVE  MappingsListed'
  BY <1>4, MappingsKept DEF Stop, StopFails, StopWhole, StopChildren
<1>5. ASSUME NEW b \in IoBlocks,
             CloseIoFails(b) \/ CloseRaFails(b) \/ UninstallRaFails(b) \/ UninstallIoFails(b)
      PROVE  MappingsListed'
  <2>1. pc' = "idle" /\ UNCHANGED <<list, ioLive, mapping>> /\ raLive' \subseteq raLive
    BY <1>5 DEF CloseIoFails, CloseRaFails, UninstallRaFails, UninstallIoFails, UninstallRa,
       CloseRa, CloseIo
  <2> QED
    BY <2>1, MappingsKept
<1>6. ASSUME NEW b \in IoBlocks, CloseMapping(b) \/ CloseScrubbed(b)
      PROVE  MappingsListed'
  <2>1. /\ Closing(b) /\ ioLive' = ioLive \ {b} /\ raLive' = raLive \ {mapping[b].parent}
    BY <1>6 DEF CloseMapping, CloseScrubbed, UninstallIo, UninstallRa, CloseRa, CloseIo
  <2>2. \A e \in ioLive : cur = 1 /\ e = list[1] /\ pc = "closing"
    BY <2>1 DEF MappingsListed, Entry, Closing
  <2>3. \A r \in raLive : cur = 1 /\ r = mapping[list[1]].parent
    BY <2>1 DEF MappingsListed, Entry, First, Closing
  <2>4. ioLive' = {} /\ raLive' = {}
    BY <2>1, <2>2, <2>3 DEF Closing
  <2> QED
    BY <2>4 DEF MappingsListed
<1>7. CASE CloseDone
  <2>1. ~Entry /\ UNCHANGED <<ioLive, raLive>>
    BY <1>7, OneEntry DEF CloseDone, Entry
  <2> QED
    BY <2>1 DEF MappingsListed
<1> QED
  BY <1>1, <1>2, <1>3, <1>4, <1>5, <1>6, <1>7 DEF Next, DriverBinding, CleanupDriver

LEMMA DumpTidyStep ==
  ASSUME LeaksNothing, DumpTypeOK, DumpTidy, [Next]_vars
  PROVE  DumpTidy'
<1> USE DEF DumpTidy, DumpTypeOK, Leaking
<1>1. CASE UNCHANGED dump
  BY <1>1 DEF dump
<1>2. CASE \E c \in Controllers : StopWhole(c) \/ StopChildren(c)
  BY <1>2 DEF StopWhole, StopChildren
<1>3. CASE DumpNothing
  BY <1>3, <1>1 DEF DumpNothing, opens
<1>4. CASE DumpLocates
  <2>1. bufLive = {}
    BY <1>4 DEF DumpLocates
  <2> QED
    BY <1>4, <2>1 DEF DumpLocates
<1>5. CASE DumpDone
  BY <1>5 DEF DumpDone
<1>6. ASSUME NEW d \in Devices
      PROVE  ~DumpOpenFails(d) /\ ~DumpLocationFails(d) /\ ~DumpCloseFails(d)
  BY NoneLeaks DEF DumpOpenFails, DumpLocationFails, DumpCloseFails
<1>7. ASSUME NEW d \in Devices, DumpDevice(d)
      PROVE  DumpTidy'
  BY <1>7 DEF DumpDevice, DumpReads
<1> QED
  BY <1>1, <1>2, <1>3, <1>4, <1>5, <1>6, <1>7, DumpUntouched DEF DumpInstalledDevices

\* Between calls nothing is leaked, unless one of the Leaking failures happened, or
\* the undefined access of an allocation that failed:
\* refused probes, failed opens, starts and stops give everything back.
THEOREM NoLeakAlways == ASSUME LeaksNothing PROVE Spec => []NoLeak
<1> DEFINE Tidy == TypeInv /\ StructInv /\ LoopInv /\ DumpTypeOK /\ DumpVisitsStarted
                   /\ (fault = "none" => MappingsListed) /\ DumpTidy
<1>1. Init => Tidy
  BY TypeInit, StructInit, LoopInit DEF Init, DumpTypeOK, DumpVisitsStarted, MappingsListed, DumpTidy
<1>2. Tidy /\ [Next]_vars => Tidy'
  <2>1. SUFFICES ASSUME Tidy, [Next]_vars
                 PROVE  Tidy'
    OBVIOUS
  <2>2. fault' = "none" => fault = "none"
    BY <2>1 DEF Next, vars
  <2> QED
    BY <2>1, <2>2, TypeStep, StructStep, LoopStep, DumpTypeStep, DumpVisitsStep, MappingsStep,
       DumpTidyStep
<1>3. Tidy => NoLeak
  <2>1. SUFFICES ASSUME Tidy, pc = "idle", fault = "none"
                 PROVE  /\ bufLive = {} /\ deviceOpen = {}
                        /\ \A b \in ioLive : \E i \in 1..Len(list) : list[i] = b
                        /\ \A r \in raLive : \E i \in 1..Len(list) : mapping[list[i]].parent = r
    BY DEF NoLeak
  <2>2. bufLive = {} /\ deviceOpen = {}
    BY <2>1 DEF DumpTidy, DumpTypeOK, DumpVisitsStarted
  <2>3. list # <<>> => 1 \in 1..Len(list)
    BY <2>1, OneEntry
  <2> QED
    BY <2>1, <2>2, <2>3 DEF MappingsListed, Entry, First
<1> QED
  BY <1>1, <1>2, <1>3, PTL DEF Spec
=============================================================================
