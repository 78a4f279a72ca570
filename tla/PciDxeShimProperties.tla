------------------------ MODULE PciDxeShimProperties ------------------------
(* What the driver-binding core of the shim must keep, and the inductive   *)
(* invariant that shows why it does.                                       *)
EXTENDS PciDxeShim

PoolTypeOK ==
  /\ list \in Seq(IoBlocks)
  /\ ioLive \subseteq IoBlocks /\ raLive \subseteq RaBlocks
  /\ mapping \in [IoBlocks -> Mappings]
  /\ raOriginal \in [RaBlocks -> HostBridges \cup {NULL}]

HandlesTypeOK ==
  /\ ioIface \in [Controllers -> IoBlocks \cup {NULL}]
  /\ raIface \subseteq RaBlocks
  /\ ioOpen \subseteq Controllers /\ testOpen \subseteq Controllers /\ raOpen \subseteq Controllers
  /\ held \in [Controllers -> IoBlocks \cup {NULL}]

ControlTypeOK ==
  /\ baseReady \in BOOLEAN /\ located \in BOOLEAN
  /\ pc \in {"idle", "ready", "opening", "baseStart", "enumerating", "dumping", "closing"}
  /\ IF pc = "idle" THEN ctl = NULL ELSE ctl \in Controllers
  /\ cur \in 1..(Len(list) + 1)
  /\ status \in IF pc = "dumping" THEN {"ok", "err"} ELSE {"unset", "ok"}
  /\ ret \in {"none", "ok", "err"}

CallsTypeOK ==
  /\ \/ routed = NoRoute
     \/ routed \in [proto : {"rb"}, from : Controllers, to : Controllers]
     \/ routed \in [proto : {"ra"}, from : Controllers, to : HostBridges]
  /\ fault \in {"none", "null", "freed"}

DumpTypeOK ==
  /\ bufLive \subseteq Buffers /\ buffer \in bufLive \cup {NULL}
  /\ handles \subseteq Devices
  /\ deviceOpen \subseteq Devices \X Controllers

ShimTypeOK == PoolTypeOK /\ HandlesTypeOK /\ ControlTypeOK /\ CallsTypeOK

\* The values the variables of the driver and of its environment can have; the
\* cursor stays on the list, or one past its end, through every loop, and the
\* buffer a dump walks over is allocated.
TypeOK == ShimTypeOK /\ DumpTypeOK

\* No forwarder calls through NULL and nothing reads a freed mapping, whatever
\* the order of probes, starts, stops and calls.
NoFault == fault = "none"

\* A call of the base driver reaches the original protocol of the root bridge,
\* or of its host bridge, that the base driver made it for.
RoutedHome ==
  /\ routed.proto = "rb" => routed.to = routed.from
  /\ routed.proto = "ra" => routed.to = HostBridgeOf[routed.from]

\* IsProtocolsMapped() lets one mapping at most onto the list: CleanupDriver(),
\* which releases every entry as if it were Controller's, depends on it.
AtMostOneMapping == Len(list) <= 1

\* Entries still to be visited are allocated: as long as GetNextNode() finds its
\* way on, no loop over the list meets a mapping CleanupDriver() has freed.
ListedMappingsAlive ==
  fault = "none" => \A i \in 1..Len(list) : (pc = "closing" => i >= cur) => list[i] \in ioLive

\* What the base driver has open is installed and allocated: no mapping is
\* freed under it, also when CleanupDriver() runs while it holds the bridge.
BaseHoldsInstalled ==
  \A c \in Controllers : held[c] # NULL => held[c] = ioIface[c] /\ held[c] \in ioLive

\* The pointers the two loops write and read through: the RA mapping that
\* OpenBaseProtocols() stores the allocator in is allocated, and CleanupDriver()
\* finds the original, whose ParentHandle it reads, filled in.
LoopPointersValid ==
  \A i \in cur..Len(list) :
    /\ pc = "opening" /\ ~mapping[list[i]].isOpen => mapping[list[i]].parent \in raLive
    /\ pc = "closing" => mapping[list[i]].original # NULL

\* The substitute of a bridge whose Start() by the base driver is behind it is on
\* the list and stands for the bridge's own original, whose SegmentNumber it shows,
\* whatever failed in its probes, its opens and in earlier stops.  Its allocator
\* substitute is installed and stands for the host bridge's allocator as long as
\* the shim has the latter open: that is not so where the open failed and a retry
\* skipped it (263), or where a stop for children has closed it (321).
StartedServed ==
  \A c \in Controllers : held[c] # NULL /\ ~(pc = "enumerating" /\ c = ctl) =>
    LET m == mapping[held[c]]
    IN  /\ \E i \in 1..Len(list) : list[i] = held[c]
        /\ m.original = c /\ m.segment = c
        /\ c \in raOpen => m.parent \in raIface /\ raOriginal[m.parent] = HostBridgeOf[c]

\* The base driver runs one root bridge at a time: a second one can only be held
\* within a Start() that is about to fail.
OneBridgeRuns ==
  \A c, d \in Controllers :
    c # d /\ held[c] # NULL /\ held[d] # NULL => pc = "enumerating" /\ ctl \in {c, d}

\* Whatever fails, three steps of the shim can touch what they must not: the
\* write into one of two mappings there was no pool for, a call the base driver makes
\* before its Start() has found the allocator substitute and returned, and the
\* walk over a list whose freed mapping was overwritten.  No call through the
\* substitute of a bridge that has been started, and no dump, ever does.
FaultsOnlyWhere ==
  [][fault' # fault =>
       \/ \E c \in Controllers :
            SupportedAllocFails(c) \/ \E b \in IoBlocks : SupportedAllocRaFails(c, b)
       \/ pc = "enumerating" /\ (RbCall(ctl) \/ RaCall)
       \/ \E b \in IoBlocks : CloseScrubbed(b)]_vars

\* Where a probe says that the shim supports a bridge, the substitute is installed on
\* that bridge and the base driver does not have it yet, so that Start() has something
\* to start, also if the bridge was not probed now for the first time and whatever
\* failed before; the one exception is a bridge that carries the record of an
\* availability test whose close has failed (403).
SupportedOkMeansHooked ==
  [][pc = "idle" /\ pc' = "ready" =>
       \/ ioIface'[ctl'] # NULL /\ held'[ctl'] = NULL
       \/ ctl' \in testOpen]_vars

\* A Stop() that reports success has left nothing behind: no mapping, no
\* interface, no open record of the shim on the bridge.
StopOkReleasesAll ==
  [][pc = "closing" /\ pc' = "idle" /\ ret' = "ok" =>
       /\ list' = <<>> /\ raIface' = {} /\ ioIface'[ctl] = NULL
       /\ ctl \notin ioOpen' \cup testOpen' \cup raOpen']_vars

\* Start() reports success only for a bridge that the base driver runs, and an
\* error only for one that it gave back, or that was started before, whatever the
\* dump of the devices met in between.
StartReportsBase ==
  [][pc = "dumping" /\ pc' = "idle" =>
       IF ret' = "ok" THEN held'[ctl] # NULL
                      ELSE held'[ctl] = NULL \/ ctl \in testOpen']_vars

\* Between calls every allocated block is reachable from the list, also after
\* probes that were refused and starts that failed, and the device dump has
\* given back its buffer and closed what it opened.
NoLeak ==
  pc = "idle" /\ fault = "none" =>
    /\ bufLive = {} /\ deviceOpen = {}
    /\ \A b \in ioLive : \E i \in 1..Len(list) : list[i] = b
    /\ \A r \in raLive : \E i \in 1..Len(list) : mapping[list[i]].parent = r

\* Where Start(), or CleanupDriver(), is on its way to returning.
StepsTo(p) ==
  CASE p = "ready" -> 5 [] p = "opening" -> 4 [] p = "baseStart" -> 3 [] p = "enumerating" -> 2
    [] p \in {"dumping", "closing"} -> 1 [] p = "idle" -> 0

\* Each step of a call that ends in no undefined access brings its return nearer:
\* the call moves on, its loop moves to the next entry of a list that stays as it
\* is, or the dump has a function less to visit; and what the base driver does in
\* between takes nothing of that back.
CallsGetOn ==
  [][pc # "idle" /\ fault' = "none" =>
       IF Start \/ CleanupDriver
       THEN \/ StepsTo(pc') < StepsTo(pc)
            \/ /\ pc' = pc
               /\ \/ list' = list /\ cur' = cur + 1
                  \/ buffer = NULL /\ buffer' # NULL
                  \/ buffer' = buffer /\ handles' \subseteq handles /\ handles' # handles
       ELSE UNCHANGED <<list, buffer, handles, pc, ctl, cur, status>>]_vars

\* Every call into the shim returns to the DXE core.
CallsReturn == pc # "idle" ~> pc = "idle"

\* The refusals that leave nothing behind: of a probe, and of the first open.
Refused ==
  \/ \E c \in Controllers : \/ SupportedTestRefused(c)
                          \/ (BaseAccepts(c) /\ SupportedMappedRefused(c))
                          \/ \E b \in IoBlocks : SupportedBaseRejects(c, b)
  \/ \E b \in IoBlocks : OpenIoFails(b)

\* What a failed close of the availability test, and a failed start of the base
\* driver, leave behind: a record that makes every later probe succeed without
\* hooking anything, and an open mapping that a retry may stumble over.
Wedged ==
  \/ testOpen # {}
  \/ pc = "idle" /\ \E i \in 1..Len(list) : mapping[list[i]].isOpen

\* Once the base driver is there and nothing is mapped, some root bridge gets
\* started, although the first probe after that is always refused, and however
\* often others and the opens behind them were: if refusals cease, and unless the
\* shim is wedged.
BusEventuallyStarts ==
  <>[][~Refused]_vars =>
    (baseReady /\ list = <<>> ~> Wedged \/ \E c \in Controllers : held[c] # NULL)

-----------------------------------------------------------------------------
(* The inductive invariant behind NoFault and RoutedHome.  It holds as     *)
(* long as no hazard is intolerable.                                       *)

\* The failures after which a mapping is half installed or half gone.
Intolerable == {"Alloc", "InstallRa", "OpenRa", "UninstallIo", "Scrub"}

\* The entries of the list that CleanupDriver() has not freed.
Pending(i) == i \in 1..Len(list) /\ (pc = "closing" => i >= cur)

\* A mapping on the list is whole: allocated, installed on its own controller,
\* and, once open, connected to the originals of that controller.
WholeMapping(b) ==
  LET m == mapping[b]
  IN  /\ b \in ioLive
      /\ m.controller \in Controllers /\ ioIface[m.controller] = b
      /\ m.handle = m.parent /\ m.parent \in RaBlocks
      /\ m.isOpen => /\ m.original = m.controller
                     /\ m.parent \in raIface =>
                          raOriginal[m.parent] = HostBridgeOf[m.controller]

PendingWhole == \A i \in 1..Len(list) : Pending(i) => WholeMapping(list[i])

\* What is installed is on the list, and what is held is installed and open.
NothingOffList ==
  \A c \in Controllers : ioIface[c] # NULL =>
    /\ \E i \in 1..Len(list) : Pending(i) /\ list[i] = ioIface[c]
    /\ mapping[ioIface[c]].controller = c

HeldIsOpen ==
  \A c \in Controllers : held[c] # NULL =>
    held[c] = ioIface[c] /\ mapping[held[c]].isOpen

\* How far the loop of the current call has come.
LoopProgress ==
  /\ pc = "opening" => \A i \in 1..Len(list) : i < cur => mapping[list[i]].isOpen
  /\ pc \in {"baseStart", "enumerating", "dumping", "closing"} =>
       \A i \in 1..Len(list) : Pending(i) => mapping[list[i]].isOpen
  /\ pc = "enumerating" => held[ctl] # NULL

\* What every step of the driver and its environment preserves.
Connected ==
  PendingWhole /\ NothingOffList /\ HeldIsOpen /\ LoopProgress /\ RoutedHome /\ NoFault

\* A dump visits functions of started bridges, and nothing of it outlives it.
DumpVisitsStarted ==
  /\ pc = "dumping" => \A d \in handles : Installed(d)
  /\ pc # "dumping" => buffer = NULL
  /\ buffer = NULL => handles = {}

ShimInv == TypeOK /\ AtMostOneMapping /\ DumpVisitsStarted /\ Connected

-----------------------------------------------------------------------------
(* The shim and the base driver behind it are a bus driver.                *)

Started == {c \in Controllers : held[c] # NULL}

\* Until the base driver has the bridge, or Start() has returned an error.
Accepted == IF pc \in {"ready", "opening", "baseStart"} THEN ctl ELSE NULL

Bus == INSTANCE BusBinding WITH accepted <- Accepted, started <- Started, route <- routed

\* Whatever the shim does with lists, mappings and records, the core and the
\* drivers see the bus driver of BusBinding: no call goes astray, and none is
\* served before the bridge is accepted and started or after it is stopped.
IsBusDriver == Bus!Spec

-----------------------------------------------------------------------------
(* What the comments of the code promise, and what it does not keep.       *)

\* "Any ControllerHandle than contains a gEfiPciRootBridgeIoProtocolGuid
\* protocol can be supported" (PciDxeShim.c:350), unless it is started already.
AnyRootBridgeSupported ==
  [][\A c \in Controllers : SupportedMappedRefused(c) => held[c] # NULL]_vars

\* OpenBaseProtocols() returns another status than EFI_SUCCESS when something
\* went wrong (PciDxeShim.c:236), so not after a loop that found every protocol open.
OpenErrMeansNotOpened ==
  [][OpenDone /\ ret' = "err" => \E i \in 1..Len(list) : ~mapping[list[i]].isOpen]_vars

\* Any other status of Stop() says that the driver was not removed
\* (PciDxeShim.c:496), so that it still runs the root bridge.
StopErrMeansNotRemoved ==
  [][pc = "closing" /\ pc' = "idle" /\ ret' = "err" => held[ctl] # NULL]_vars

\* CleanupDriver() returns: resources freed, or something went wrong
\* (PciDxeShim.c:296).
CleanupReturns == pc = "closing" ~> pc = "idle"
=============================================================================
