----------------------------- MODULE PciDxeShim -----------------------------
(***************************************************************************)
(* The driver-binding core of the PciDxeShim driver (PciDxeShim.c).        *)
(*                                                                         *)
(* The shim publishes the driver binding of the PCI bus driver in the      *)
(* place of the original one.  Supported() installs, on a root bridge      *)
(* handle, a substitute root bridge I/O protocol and, on a handle of its   *)
(* own, a substitute resource allocation protocol; Start() opens the       *)
(* originals behind them and then starts the original ("base") bus driver, *)
(* which talks to the substitutes only; Stop() undoes all of it.           *)
(*                                                                         *)
(* The DXE core, its handle database and the base driver are not in the    *)
(* repository: their actions are what the code of the shim relies on.      *)
(* Their failures are switched on one by one by the constant Hazards.      *)
(***************************************************************************)
EXTENDS Naturals, Sequences

CONSTANTS
  Controllers,   \* root bridge handles, each carrying an original RBIO protocol
  HostBridges,   \* host bridge handles, each carrying an original allocator
  HostBridgeOf,  \* ParentHandle of the original RBIO protocol of a root bridge
  IoBlocks,      \* pool blocks that can hold a RootBridgeIoProtocolMapping
  RaBlocks,      \* pool blocks that can hold a ResourceAllocationProtocolMapping
  Devices,       \* PCI functions: handles with a PCI I/O protocol of the base driver
  BridgeOf,      \* the root bridge a function is behind
  Buffers,       \* pool blocks that can hold a HandleBuffer
  NULL,
  Hazards        \* the failures the environment may produce, see AllHazards

AllHazards ==
  { "OpenTest", "OpenIo", "OpenRa",           \* OpenProtocol 384, 253, 272
    "CloseIo", "CloseRa",                     \* CloseProtocol 403 and 309, 321
    "InstallIo", "UninstallIo",               \* protocol interfaces 125, 154
    "InstallRa", "UninstallRa",               \* protocol interfaces 192, 222
    "Alloc",                                  \* AllocateZeroPool 101, 181
    "Scrub",                                  \* FreePool overwrites the block
    "BaseRejects",                            \* base Supported() 422
    "BaseStartFails", "BaseStopFails",        \* base Start() 477, Stop() 512
    "StopChildren",                           \* Stop() with NumberOfChildren > 0
    "OpenPciIo", "ClosePciIo",                \* OpenProtocol 554, CloseProtocol 636
    "GetLocation" }                           \* 566

ASSUME NullAssumption ==
  NULL \notin Controllers \cup HostBridges \cup IoBlocks \cup RaBlocks \cup Buffers
ASSUME BridgeAssumption == HostBridgeOf \in [Controllers -> HostBridges]
ASSUME DeviceAssumption == BridgeOf \in [Devices -> Controllers]
ASSUME HazardAssumption == Hazards \subseteq AllHazards

VARIABLES
  baseReady,   \* the base driver has installed the substitute driver binding
  located,     \* gDriverBindingSubstituteProtocol # NULL
  list,        \* RootBridgeIoProtocolList
  ioLive,      \* allocated RootBridgeIoProtocolMappings
  raLive,      \* allocated ResourceAllocationProtocolMappings
  mapping,     \* content of the IO blocks; it outlives FreePool
  raOriginal,  \* OriginalProtocol of the RA blocks, as the allocator's handle
  ioIface,     \* substitute RBIO interface installed on a root bridge handle
  raIface,     \* RA blocks whose substitute interface is installed
  ioOpen,      \* root bridges with an open record of the shim on the RBIO
  testOpen,    \* root bridges with a BY_DRIVER record of the shim left over
  raOpen,      \* root bridges with an open record of the shim on the allocator
  bufLive,     \* allocated HandleBuffers
  buffer,      \* the HandleBuffer of the current dump, NULL before it is located
  handles,     \* its entries still to be visited
  deviceOpen,  \* open records of the shim on a PCI I/O, with their Controller
  held,        \* substitute RBIO the base driver has open BY_DRIVER on a bridge
  pc,          \* where the call of the DXE core into the shim is
  ctl,         \* its Controller argument
  cur,         \* position of mappingEntry in the list
  status,      \* its local variable Status: unset until it is assigned
  ret,         \* what the last call returned
  routed,      \* the last call the base driver made: whose it was, who got it
  fault        \* the first undefined memory access: NULL or freed pool

binding == <<baseReady, located>>
pool    == <<list, ioLive, raLive, mapping, raOriginal>>
ifaces  == <<ioIface, raIface>>
dump    == <<bufLive, buffer, handles, deviceOpen>>
opens   == <<ioOpen, testOpen, raOpen, dump>>
control == <<pc, ctl, cur, status, ret>>
vars    == <<binding, pool, ifaces, opens, held, control, routed, fault>>

May(h) == h \in Hazards

Mappings ==
  [ controller : Controllers \cup {NULL},  \* Controller and HostBridgeHandle
    isOpen     : BOOLEAN,                  \* IsOpen
    original   : Controllers \cup {NULL},  \* OriginalProtocol, named by its handle
    segment    : Controllers \cup {NULL},  \* SubstitutedProtocol.SegmentNumber, named by
                                           \* the bridge it is that of: NULL is zero
    parent     : RaBlocks \cup {NULL},     \* Parent
    handle     : RaBlocks \cup {NULL} ]    \* SubstitutedProtocol.ParentHandle, a
                                           \* handle made for the block it names

\* What AllocateZeroPool and the assignments after it leave in a new mapping.
FreshMapping(c) ==
  [controller |-> c, isOpen |-> FALSE, original |-> NULL, segment |-> NULL,
   parent |-> NULL, handle |-> NULL]

NoRoute == [proto |-> "none", from |-> NULL, to |-> NULL]

Init ==
  /\ baseReady = FALSE /\ located = FALSE
  /\ list = <<>> /\ ioLive = {} /\ raLive = {}
  /\ mapping = [b \in IoBlocks |-> FreshMapping(NULL)]
  /\ raOriginal = [r \in RaBlocks |-> NULL]
  /\ ioIface = [c \in Controllers |-> NULL] /\ raIface = {}
  /\ ioOpen = {} /\ testOpen = {} /\ raOpen = {}
  /\ bufLive = {} /\ buffer = NULL /\ handles = {} /\ deviceOpen = {}
  /\ held = [c \in Controllers |-> NULL]
  /\ pc = "idle" /\ ctl = NULL /\ cur = 1 /\ status = "unset" /\ ret = "none"
  /\ routed = NoRoute /\ fault = "none"

-----------------------------------------------------------------------------
(* Returning to the DXE core, and being called by it.                      *)

Return(s) == pc' = "idle" /\ ctl' = NULL /\ cur' = 1 /\ status' = "unset" /\ ret' = s

\* Supported() has returned EFI_SUCCESS: the core calls Start() next.
ReturnSupported(c) ==
  pc' = "ready" /\ ctl' = c /\ cur' = 1 /\ status' = "unset" /\ ret' = "ok"

\* A loop over the list begins with Status not yet assigned.
EnterLoop(p, c) == pc' = p /\ ctl' = c /\ cur' = 1 /\ status' = "unset" /\ ret' = "none"

NextEntry(s) == cur' = cur + 1 /\ status' = s /\ UNCHANGED <<pc, ctl, ret>>

\* Returning an unassigned Status returns whatever the stack holds.
Settled(s) == IF s = "unset" THEN {"ok", "err"} ELSE {s}

-----------------------------------------------------------------------------
(* Supported()                                                             *)

\* The base driver's entry point runs and installs its renamed driver binding.
BaseLoads ==
  /\ ~baseReady /\ baseReady' = TRUE
  /\ UNCHANGED <<located, pool, ifaces, opens, held, control, routed, fault>>

\* A plausible bug: the located binding is kept in a local variable.
SupportedUnlocatedForgetting(c) ==
  /\ pc = "idle" /\ ~located /\ Return("err")
  /\ UNCHANGED <<binding, pool, ifaces, opens, held, routed, fault>>

\* FindDriverBindingProtocol() locates the base binding, but still returns NULL.
SupportedUnlocated(c) ==
  /\ pc = "idle" /\ ~located
  /\ located' = baseReady
  /\ Return("err")
  /\ UNCHANGED <<baseReady, pool, ifaces, opens, held, routed, fault>>

\* The availability test finds the shim's own BY_DRIVER record.
SupportedAlreadyStarted(c) ==
  /\ pc = "idle" /\ located /\ c \in testOpen
  /\ ReturnSupported(c)
  /\ UNCHANGED <<binding, pool, ifaces, opens, held, routed, fault>>

\* A plausible bug: whatever the availability test meets is "already started".
SupportedTestRefusedAccepting(c) ==
  /\ pc = "idle" /\ located /\ c \notin testOpen /\ May("OpenTest")
  /\ ReturnSupported(c)
  /\ UNCHANGED <<binding, pool, ifaces, opens, held, routed, fault>>

\* The availability test fails.
SupportedTestRefused(c) ==
  /\ pc = "idle" /\ located /\ c \notin testOpen /\ May("OpenTest")
  /\ Return("err")
  /\ UNCHANGED <<binding, pool, ifaces, opens, held, routed, fault>>

\* The availability test succeeds, and its close drops every record the shim
\* has on the protocol, the one Start() made included.  The status of the
\* close is ignored: a failed one leaves the BY_DRIVER record behind.
AvailabilityTest(c) ==
  /\ c \notin testOpen
  /\ \/ ioOpen' = ioOpen \ {c} /\ UNCHANGED testOpen
     \/ May("CloseIo") /\ testOpen' = testOpen \cup {c} /\ UNCHANGED ioOpen
  /\ UNCHANGED <<raOpen, dump>>

\* A plausible bug: a mapping counts only once it is open.
IsProtocolsMappedIfOpen == \E i \in 1..Len(list) : mapping[list[i]].isOpen

\* Every mapping was made for the only binding, so one entry is enough.
IsProtocolsMapped == list # <<>>

\* The base driver tests the substitute as the shim tested the original.
BaseAccepts(c) == ioIface[c] # NULL /\ held[c] = NULL

SupportedMapped(c) ==
  /\ pc = "idle" /\ located /\ IsProtocolsMapped
  /\ AvailabilityTest(c)
  /\ BaseAccepts(c) /\ ReturnSupported(c)
  /\ UNCHANGED <<binding, pool, ifaces, held, routed, fault>>

SupportedMappedRefused(c) ==
  /\ pc = "idle" /\ located /\ IsProtocolsMapped
  /\ AvailabilityTest(c)
  /\ ~BaseAccepts(c) \/ May("BaseRejects")
  /\ Return("err")
  /\ UNCHANGED <<binding, pool, ifaces, held, routed, fault>>

\* The path that installs, up to the allocation of the new mapping b.
FirstProbe(c, b) ==
  /\ pc = "idle" /\ located /\ ~IsProtocolsMapped
  /\ AvailabilityTest(c)
  /\ b \in IoBlocks \ ioLive

\* AllocateZeroPool returned NULL and its result is written through.
SupportedAllocFails(c) ==
  /\ pc = "idle" /\ located /\ ~IsProtocolsMapped
  /\ AvailabilityTest(c)
  /\ May("Alloc") /\ fault' = "null"
  /\ UNCHANGED <<binding, pool, ifaces, held, control, routed>>

\* The substitute RBIO cannot be installed: the mapping is not freed.
SupportedInstallIoFails(c, b) ==
  /\ FirstProbe(c, b)
  /\ ioIface[c] # NULL \/ May("InstallIo")
  /\ ioLive' = ioLive \cup {b}
  /\ mapping' = [mapping EXCEPT ![b] = FreshMapping(c)]
  /\ Return("err")
  /\ UNCHANGED <<binding, list, raLive, raOriginal, ifaces, held, routed, fault>>

\* A plausible bug: the substitute is pulled but its mapping is not freed.
SupportedBaseRejectsLeaking(c, b) ==
  /\ FirstProbe(c, b)
  /\ ioIface[c] = NULL /\ May("BaseRejects")
  /\ mapping' = [mapping EXCEPT ![b] = FreshMapping(c)]
  /\ ioLive' = ioLive \cup {b}
  /\ Return("err")
  /\ UNCHANGED <<binding, list, raLive, raOriginal, ifaces, held, routed, fault>>

\* The base driver wants more than there is: the substitute is pulled again.
SupportedBaseRejects(c, b) ==
  /\ FirstProbe(c, b)
  /\ ioIface[c] = NULL /\ May("BaseRejects")
  /\ mapping' = [mapping EXCEPT ![b] = FreshMapping(c)]
  /\ \/ UNCHANGED <<ioLive, ioIface>>
     \/ May("UninstallIo") /\ ioLive' = ioLive \cup {b} /\ ioIface' = [ioIface EXCEPT ![c] = b]
  /\ Return("err")
  /\ UNCHANGED <<binding, list, raLive, raOriginal, raIface, held, routed, fault>>

\* The base driver accepts, and the second AllocateZeroPool returns NULL.
SupportedAllocRaFails(c, b) ==
  /\ FirstProbe(c, b)
  /\ ioIface[c] = NULL
  /\ mapping' = [mapping EXCEPT ![b] = FreshMapping(c)]
  /\ ioLive' = ioLive \cup {b} /\ ioIface' = [ioIface EXCEPT ![c] = b]
  /\ May("Alloc") /\ fault' = "null"
  /\ UNCHANGED <<binding, list, raLive, raOriginal, raIface, held, control, routed>>

\* Both substitutes are allocated and the first one is installed; h is the
\* handle the second one gets.
HookBoth(c, b, r, h) ==
  /\ FirstProbe(c, b)
  /\ ioIface[c] = NULL
  /\ r \in RaBlocks \ raLive
  /\ ioLive' = ioLive \cup {b}
  /\ raLive' = raLive \cup {r}
  /\ ioIface' = [ioIface EXCEPT ![c] = b]
  /\ mapping' = [mapping EXCEPT ![b] = [FreshMapping(c) EXCEPT !.parent = r, !.handle = h]]
  /\ raOriginal' = [raOriginal EXCEPT ![r] = NULL]
  /\ ReturnSupported(c)
  /\ UNCHANGED <<binding, held, routed, fault>>

\* The allocator substitute cannot be installed: success all the same, with
\* the mapping installed but on no list.
SupportedInstallRaFails(c, b, r) ==
  /\ May("InstallRa")
  /\ HookBoth(c, b, r, NULL)
  /\ UNCHANGED <<list, raIface>>

\* A plausible bug: the new mapping is not inserted into the list.
SupportedHooksUnlisted(c, b, r) ==
  /\ HookBoth(c, b, r, r)
  /\ raIface' = raIface \cup {r}
  /\ UNCHANGED list

SupportedHooks(c, b, r) ==
  /\ HookBoth(c, b, r, r)
  /\ raIface' = raIface \cup {r}
  /\ list' = Append(list, b)

Supported(c) ==
  \/ SupportedUnlocated(c)
  \/ SupportedAlreadyStarted(c)
  \/ SupportedTestRefused(c)
  \/ SupportedMapped(c)
  \/ SupportedMappedRefused(c)
  \/ SupportedAllocFails(c)
  \/ \E b \in IoBlocks : \/ SupportedInstallIoFails(c, b) \/ SupportedBaseRejects(c, b)
                         \/ SupportedAllocRaFails(c, b)
  \/ \E b \in IoBlocks, r \in RaBlocks :
       SupportedInstallRaFails(c, b, r) \/ SupportedHooks(c, b, r)

-----------------------------------------------------------------------------
(* Start(): OpenBaseProtocols() over the list, then the base driver.       *)

StartCall ==
  /\ pc = "ready" /\ EnterLoop("opening", ctl)
  /\ UNCHANGED <<binding, pool, ifaces, opens, held, routed, fault>>

Opening(b) == pc = "opening" /\ cur <= Len(list) /\ b = list[cur]

\* A plausible bug: every mapping is skipped, open or not.
OpenSkipAny(b) ==
  /\ Opening(b)
  /\ NextEntry(status)
  /\ UNCHANGED <<binding, pool, ifaces, opens, held, routed, fault>>

\* A plausible bug: the loop goes on without moving to the next entry.
OpenSkipStuck(b) ==
  /\ Opening(b) /\ mapping[b].isOpen
  /\ UNCHANGED vars

OpenSkip(b) ==
  /\ Opening(b) /\ mapping[b].isOpen
  /\ NextEntry(status)
  /\ UNCHANGED <<binding, pool, ifaces, opens, held, routed, fault>>

\* A plausible bug: IsOpen is set before the status of the open is looked at.
OpenIoFailsOpen(b) ==
  /\ Opening(b) /\ ~mapping[b].isOpen /\ May("OpenIo")
  /\ mapping' = [mapping EXCEPT ![b].isOpen = TRUE]
  /\ Return("err")
  /\ UNCHANGED <<binding, list, ioLive, raLive, raOriginal, ifaces, opens, held, routed, fault>>

OpenIoFails(b) ==
  /\ Opening(b) /\ ~mapping[b].isOpen /\ May("OpenIo")
  /\ Return("err")
  /\ UNCHANGED <<binding, pool, ifaces, opens, held, routed, fault>>

\* A plausible bug: Start()'s Controller is opened for every mapping.
OpenIoOfCaller(b) ==
  /\ Opening(b) /\ ~mapping[b].isOpen
  /\ mapping' = [mapping EXCEPT ![b].isOpen = TRUE, ![b].original = ctl, ![b].segment = ctl]
  /\ ioOpen' = ioOpen \cup {ctl}
  /\ UNCHANGED <<binding, list, ioLive, raLive, ifaces, testOpen, dump, held, routed, fault>>

\* The first of the two opens: IsOpen is set, and the original's SegmentNumber is
\* copied, before the second one is tried.
OpenIo(b) ==
  /\ Opening(b) /\ ~mapping[b].isOpen
  /\ LET c == mapping[b].controller
     IN  /\ mapping' = [mapping EXCEPT ![b].isOpen = TRUE, ![b].original = c, ![b].segment = c]
         /\ ioOpen' = ioOpen \cup {c}
  /\ UNCHANGED <<binding, list, ioLive, raLive, ifaces, testOpen, dump, held, routed, fault>>

OpenRaFails(b) ==
  /\ OpenIo(b) /\ May("OpenRa")
  /\ Return("err")
  /\ UNCHANGED <<raOriginal, raOpen>>

\* A plausible bug: the allocator of Start()'s Controller is stored.
OpenBothOfCaller(b) ==
  /\ OpenIo(b)
  /\ raOriginal' = [raOriginal EXCEPT ![mapping[b].parent] = HostBridgeOf[ctl]]
  /\ raOpen' = raOpen \cup {ctl}
  /\ NextEntry("ok")

OpenBoth(b) ==
  /\ OpenIo(b)
  /\ raOriginal' = [raOriginal EXCEPT ![mapping[b].parent] = HostBridgeOf[mapping[b].controller]]
  /\ raOpen' = raOpen \cup {mapping[b].controller}
  /\ NextEntry("ok")

OpenDone ==
  /\ pc = "opening" /\ cur > Len(list)
  /\ \E s \in Settled(status) :
       \/ s = "ok" /\ pc' = "baseStart" /\ cur' = 1 /\ status' = "unset" /\ UNCHANGED <<ctl, ret>>
       \/ s = "err" /\ Return("err")
  /\ UNCHANGED <<binding, pool, ifaces, opens, held, routed, fault>>

\* Whatever the base driver returned, the devices are dumped before Start() does.
BeginDump(s) == pc' = "dumping" /\ status' = s /\ UNCHANGED <<ctl, cur, ret>>

\* The base driver opens the substitute RBIO BY_DRIVER.
BaseStarts ==
  /\ pc = "baseStart" /\ BaseAccepts(ctl)
  /\ held' = [held EXCEPT ![ctl] = ioIface[ctl]]
  /\ pc' = "enumerating"
  /\ UNCHANGED <<binding, pool, ifaces, opens, ctl, cur, status, ret, routed, fault>>

BaseStartRefused ==
  /\ pc = "baseStart" /\ (~BaseAccepts(ctl) \/ May("BaseStartFails"))
  /\ BeginDump("err")
  /\ UNCHANGED <<binding, pool, ifaces, opens, held, routed, fault>>

\* The base driver finds the substitute allocator on the ParentHandle of the
\* substitute RBIO.
AllocatorFound == mapping[held[ctl]].handle \in raIface

BaseStarted ==
  /\ pc = "enumerating" /\ AllocatorFound
  /\ BeginDump("ok")
  /\ UNCHANGED <<binding, pool, ifaces, opens, held, routed, fault>>

BaseStartFails ==
  /\ pc = "enumerating" /\ (~AllocatorFound \/ May("BaseStartFails"))
  /\ held' = [held EXCEPT ![ctl] = NULL]
  /\ BeginDump("err")
  /\ UNCHANGED <<binding, pool, ifaces, opens, routed, fault>>

-----------------------------------------------------------------------------
(* The calls of the base driver through the substitutes.                   *)

\* The first of the positions S of the list, or one past its end: both searches
\* walk the list from its head and read every entry up to there.
FirstAt(S) == CHOOSE i \in S \cup {Len(list) + 1} : \A j \in S : i <= j

\* What a forwarder does with the result o of the search that stopped at i:
\* it calls the original, or reads through NULL or through freed pool.
Forward(proto, from, i, o) ==
  IF \E j \in 1..i : j <= Len(list) /\ list[j] \notin ioLive
  THEN fault' = "freed" /\ UNCHANGED routed
  ELSE IF o = NULL
       THEN fault' = "null" /\ UNCHANGED routed
       ELSE routed' = [proto |-> proto, from |-> from, to |-> o] /\ UNCHANGED fault

FindRootBridgeIoProtocolMappingBySubstitute(b) ==
  LET i == FirstAt({j \in 1..Len(list) : list[j] = b})
  IN  [at |-> i, original |-> IF i > Len(list) THEN NULL ELSE mapping[b].original]

FindResourceAllocationProtocolMappingBySubstitute(r) ==
  LET i == FirstAt({j \in 1..Len(list) : mapping[list[j]].parent = r})
  IN  [at |-> i, original |-> IF i > Len(list) THEN NULL ELSE raOriginal[r]]

\* Any of the 17 services of the substitute RBIO the base driver holds.
CallBridge(c) ==
  LET f == FindRootBridgeIoProtocolMappingBySubstitute(held[c])
  IN  Forward("rb", c, f.at, f.original)

\* Once started, the base driver and the drivers above it may call whenever an
\* event fires.
RbCall(c) ==
  /\ held[c] # NULL
  /\ CallBridge(c)
  /\ UNCHANGED <<binding, pool, ifaces, opens, held, control>>

\* Any of the 8 services of the substitute allocator, during enumeration.
RaCall ==
  /\ pc = "enumerating" /\ AllocatorFound
  /\ LET f == FindResourceAllocationProtocolMappingBySubstitute(mapping[held[ctl]].handle)
     IN  Forward("ra", ctl, f.at, f.original)
  /\ UNCHANGED <<binding, pool, ifaces, opens, held, control>>

-----------------------------------------------------------------------------
(* DumpInstalledDevices(), on the way out of Start().                      *)

\* The functions the base driver manages, behind any root bridge.
Installed(d) == held[BridgeOf[d]] # NULL

\* No function has been found, or there is no pool for the buffer: Start()
\* returns what the base driver returned.
DumpNothing ==
  /\ pc = "dumping" /\ buffer = NULL
  /\ Return(status)
  /\ UNCHANGED <<binding, pool, ifaces, opens, held, routed, fault>>

\* LocateHandleBuffer() returns every function the base driver has found.
DumpLocates ==
  /\ pc = "dumping" /\ buffer = NULL
  /\ buffer' \in Buffers \ bufLive
  /\ bufLive' = bufLive \cup {buffer'}
  /\ handles' \in {D \in SUBSET Devices : D # {} /\ \A d \in D : Installed(d)}
  /\ UNCHANGED <<binding, pool, ifaces, ioOpen, testOpen, raOpen, deviceOpen, held,
                 control, routed, fault>>

Dumping(d) == pc = "dumping" /\ d \in handles

\* A plausible bug: what went wrong with the dump becomes the result of Start().
DumpReturnsOwn(s) == Return(s) /\ buffer' = NULL /\ handles' = {}

\* Out of the dump and out of Start(): what the dump returned is ignored.
DumpReturns(s) == Return(status) /\ buffer' = NULL /\ handles' = {}

\* The early returns free no buffer and close no record.
DumpOpenFails(d) ==
  /\ Dumping(d) /\ May("OpenPciIo")
  /\ DumpReturns("err")
  /\ UNCHANGED <<binding, pool, ifaces, ioOpen, testOpen, raOpen, bufLive, deviceOpen, held,
                 routed, fault>>

DumpLocationFails(d) ==
  /\ Dumping(d) /\ May("GetLocation")
  /\ deviceOpen' = deviceOpen \cup {<<d, ctl>>}
  /\ DumpReturns("err")
  /\ UNCHANGED <<binding, pool, ifaces, ioOpen, testOpen, raOpen, bufLive, held, routed, fault>>

\* Fifteen registers are read, through the PCI I/O of the base driver and so
\* through the substitute RBIO of the root bridge.
DumpReads(d) ==
  /\ Dumping(d)
  /\ CallBridge(BridgeOf[d])
  /\ UNCHANGED <<binding, pool, ifaces, ioOpen, testOpen, raOpen, bufLive, held>>

DumpCloseFails(d) ==
  /\ DumpReads(d) /\ May("ClosePciIo")
  /\ deviceOpen' = deviceOpen \cup {<<d, ctl>>}
  /\ DumpReturns("err")

\* CloseProtocol() drops the record an earlier dump left for Controller, too.
DumpDevice(d) ==
  /\ DumpReads(d)
  /\ deviceOpen' = deviceOpen \ {<<d, ctl>>}
  /\ handles' = handles \ {d}
  /\ UNCHANGED <<buffer, control>>

DumpDone ==
  /\ pc = "dumping" /\ buffer # NULL /\ handles = {}
  /\ bufLive' = bufLive \ {buffer}
  /\ DumpReturns("ok")
  /\ UNCHANGED <<binding, pool, ifaces, ioOpen, testOpen, raOpen, deviceOpen, held, routed, fault>>

DumpInstalledDevices ==
  \/ DumpNothing \/ DumpLocates \/ DumpDone
  \/ \E d \in Devices : \/ DumpOpenFails(d) \/ DumpLocationFails(d)
                        \/ DumpCloseFails(d) \/ DumpDevice(d)

Start ==
  \/ StartCall
  \/ \E b \in IoBlocks : OpenSkip(b) \/ OpenIoFails(b) \/ OpenRaFails(b) \/ OpenBoth(b)
  \/ OpenDone
  \/ BaseStarts \/ BaseStartRefused \/ BaseStarted \/ BaseStartFails
  \/ DumpInstalledDevices

-----------------------------------------------------------------------------
(* Stop(): the base driver, then CleanupDriver() over the list.            *)

StopFails(c) ==
  /\ pc = "idle" /\ held[c] # NULL /\ May("BaseStopFails")
  /\ Return("err")
  /\ UNCHANGED <<binding, pool, ifaces, opens, held, routed, fault>>

\* The base driver removes its functions; the records on them go with them.
StopWhole(c) ==
  /\ pc = "idle" /\ held[c] # NULL
  /\ held' = [held EXCEPT ![c] = NULL]
  /\ deviceOpen' = {o \in deviceOpen : BridgeOf[o[1]] # c}
  /\ EnterLoop("closing", c)
  /\ UNCHANGED <<binding, pool, ifaces, ioOpen, testOpen, raOpen, bufLive, buffer, handles,
                 routed, fault>>

\* Only some children are to be stopped: the base driver keeps the bridge, and
\* CleanupDriver() runs all the same.
StopChildren(c) ==
  /\ pc = "idle" /\ held[c] # NULL /\ May("StopChildren")
  /\ deviceOpen' \in SUBSET deviceOpen
  /\ EnterLoop("closing", c)
  /\ UNCHANGED <<binding, pool, ifaces, ioOpen, testOpen, raOpen, bufLive, buffer, handles,
                 held, routed, fault>>

Closing(b) == pc = "closing" /\ cur <= Len(list) /\ b = list[cur]

CloseIoFails(b) ==
  /\ Closing(b) /\ (ctl \notin ioOpen \cup testOpen \/ May("CloseIo"))
  /\ Return("err")
  /\ UNCHANGED <<binding, pool, ifaces, opens, held, routed, fault>>

\* The first CloseProtocol() succeeds.
CloseIo(b) ==
  /\ Closing(b) /\ ctl \in ioOpen \cup testOpen
  /\ ioOpen' = ioOpen \ {ctl} /\ testOpen' = testOpen \ {ctl}
  /\ UNCHANGED <<binding, dump, held, routed>>

\* The record of the allocator is found by the handle of the host bridge and
\* by the Controller argument, not by the controller of the mapping.
RaRecordFound(b) ==
  ctl \in raOpen /\ HostBridgeOf[mapping[b].original] = HostBridgeOf[ctl]

CloseRaFails(b) ==
  /\ CloseIo(b) /\ (~RaRecordFound(b) \/ May("CloseRa"))
  /\ Return("err")
  /\ UNCHANGED <<pool, ifaces, raOpen, fault>>

\* A plausible bug: the open of the allocator is not closed.
CloseRaForgotten(b) == CloseIo(b) /\ RaRecordFound(b) /\ UNCHANGED raOpen

CloseRa(b) == CloseIo(b) /\ RaRecordFound(b) /\ raOpen' = raOpen \ {ctl}

UninstallRaFails(b) ==
  /\ CloseRa(b) /\ (mapping[b].handle \notin raIface \/ May("UninstallRa"))
  /\ Return("err")
  /\ UNCHANGED <<pool, ifaces, fault>>

UninstallRa(b) ==
  /\ CloseRa(b) /\ mapping[b].handle \in raIface
  /\ raIface' = raIface \ {mapping[b].handle}
  /\ raLive' = raLive \ {mapping[b].parent}
  /\ UNCHANGED <<mapping, raOriginal>>

\* An interface that is not there, or that the base driver has open BY_DRIVER,
\* cannot be uninstalled.
IoRemovable(b) == ioIface[ctl] = b /\ held[ctl] # b

\* A plausible bug: the mapping is freed whatever the uninstall returned.
UninstallIoFailsFreeing(b) ==
  /\ UninstallRa(b) /\ (~IoRemovable(b) \/ May("UninstallIo"))
  /\ Return("err")
  /\ ioLive' = ioLive \ {b}
  /\ UNCHANGED <<list, ioIface, fault>>

UninstallIoFails(b) ==
  /\ UninstallRa(b) /\ (~IoRemovable(b) \/ May("UninstallIo"))
  /\ Return("err")
  /\ UNCHANGED <<list, ioLive, ioIface, fault>>

\* A plausible bug: the mapping is also unlinked, below the cursor of the loop.
UninstallIoUnlinking(b) ==
  /\ UninstallRa(b) /\ IoRemovable(b)
  /\ ioIface' = [ioIface EXCEPT ![ctl] = NULL]
  /\ ioLive' = ioLive \ {b}
  /\ list' = Tail(list)

UninstallIo(b) ==
  /\ UninstallRa(b) /\ IoRemovable(b)
  /\ ioIface' = [ioIface EXCEPT ![ctl] = NULL]
  /\ ioLive' = ioLive \ {b}
  /\ UNCHANGED list

\* GetNextNode() reads the link of the mapping just freed: it is still there ...
CloseMapping(b) == UninstallIo(b) /\ NextEntry("ok") /\ UNCHANGED fault

\* ... unless FreePool() overwrites what it frees.
CloseScrubbed(b) == UninstallIo(b) /\ May("Scrub") /\ fault' = "freed" /\ UNCHANGED control

\* A plausible bug: the list is not emptied after its mappings are freed.
CloseDoneKeepingList ==
  /\ pc = "closing" /\ cur > Len(list)
  /\ \E s \in Settled(status) : Return(s)
  /\ UNCHANGED <<binding, pool, ifaces, opens, held, routed, fault>>

CloseDone ==
  /\ pc = "closing" /\ cur > Len(list)
  /\ list' = <<>>
  /\ \E s \in Settled(status) : Return(s)
  /\ UNCHANGED <<binding, ioLive, raLive, mapping, raOriginal, ifaces, opens, held, routed, fault>>

Stop(c) == StopFails(c) \/ StopWhole(c) \/ StopChildren(c)

CleanupDriver ==
  \/ \E b \in IoBlocks : \/ CloseIoFails(b) \/ CloseRaFails(b) \/ UninstallRaFails(b)
                         \/ UninstallIoFails(b) \/ CloseMapping(b) \/ CloseScrubbed(b)
  \/ CloseDone

-----------------------------------------------------------------------------
\* What the DXE core has the two drivers do; calls through the substitutes are
\* made by whoever an event wakes up.
DriverBinding ==
  \/ BaseLoads
  \/ \E c \in Controllers : Supported(c) \/ Stop(c)
  \/ Start \/ CleanupDriver

\* Nothing is said of the program after its first undefined access.
Next ==
  /\ fault = "none"
  /\ \/ DriverBinding
     \/ \E c \in Controllers : RbCall(c)
     \/ RaCall

Spec == Init /\ [][Next]_vars

\* The shim runs until it returns, and the DXE core keeps offering it root
\* bridges: the shim counts on being probed again, PciDxeShim.c:428.
LiveSpec ==
  /\ Spec
  /\ WF_vars(fault = "none" /\ (Start \/ CleanupDriver))
  /\ \A c \in Controllers : WF_vars(fault = "none" /\ Supported(c))
=============================================================================
