# A verification of thundermod

thundermod adds Thunderbolt support to an ASUS X99 board by changing its
firmware: it slips a shim between the firmware's PCI bus driver and PCI host
bridge driver, publishes a hot-plug driver, patches two bytes of the board's
settings, and carries a tool that renames GUIDs in firmware modules. This
directory holds TLA+ specifications of that code, the TLC instances that check
them and proofs that TLAPS checks.

## The system

| Part | Source | State it keeps | Operations |
|---|---|---|---|
| Driver binding of the shim | `PciDxeShim/PciDxeShim.c`, `.h` | `gDriverBindingSubstituteProtocol`, `RootBridgeIoProtocolList` with its mappings; in the DXE core: the two substitute interfaces and the open records | `PciDxeShimMain`, `Supported`, `Start` (`OpenBaseProtocols`), `Stop` (`CleanupDriver`), the two lookups |
| Root bridge I/O substitute | `PciDxeShim/PciBridgeIoShim.c` | none: looks the mapping up on every call | 17 services, each forwarded to the original protocol |
| Resource allocation substitute | `PciDxeShim/PciResourceAllocationShim.c` | none | 8 services, forwarded; `SubmitResources` also logs the descriptors |
| Device dump | `DumpInstalledDevices` in `PciDxeShim.c` | a handle buffer and open records, in the pool and in the core | locates, opens, reads and closes every PCI function at the end of `Start`; its result is ignored |
| Hot-plug driver | `PciHotPlug/PciHotPlug.c` | one private structure, NVS byte 0x71 | `GetRootHpcList`, `InitializeRootHpc`, `GetResourcePadding` |
| NVS patcher | `NvsPatcher/NvsPatcher.c` | NVS byte 0x7A7 | entry point |
| `guidsub` | `tools/guidsub.c` | a file image in memory | scan and replace, byte order of GUIDs |

The DXE core calls the driver binding of the shim; the shim calls the binding of
the renamed original bus driver ("the base driver"), which talks to the
substitutes, which forward to the originals of the host bridge driver. The dump
goes the whole way round:

    DXE core -> Supported/Start/Stop -> base Supported/Start/Stop
    base driver -> substitute RBIO / allocator -> lookup in the list -> original
    Start -> dump -> PCI I/O of the base driver -> substitute RBIO -> original

There are no threads, but three things make the order of events hard: the core
probes (`Supported`) as often as it likes, between any two other calls; the base
driver and the drivers above it call through the substitutes from timer events,
so also while a call of the core is half done, or while another call through a
substitute is; and every open, close, install and uninstall is a call that can
fail and that returns early when it does.

What makes each part correct:

* binding: no call through NULL or freed memory, every call reaches the original
  it was made for, nothing is freed under the base driver, a Stop that reports
  success has released everything, nothing is leaked, calls return;
* substitutes: a caller cannot tell them from the originals: each service is
  performed once, by the original of the caller's own bridge, with the caller's
  arguments, and the caller gets the original's status, also when calls nest;
* dump: it changes nothing of what `Start` reports, calls only through bridges
  that are started, and gives back its buffer and its open records;
* hot-plug driver and NVS patcher: the settings are written before they are
  used, padding descriptors describe what the slots need;
* `guidsub`: every occurrence is replaced and nothing else, the byte order
  conversion is its own inverse, the file is not lost.

## Modules

| Module | What it is |
|---|---|
| `PciDxeShim` | the driver binding of the shim with the dump, its environment, `Spec` and `LiveSpec` |
| `PciDxeShimProperties` | its properties, the inductive invariant, the refinement mapping to `BusBinding`, and the promises of the code's comments |
| `PciDxeShimProofs` | the theorems about it |
| `PciDxeShimLoops` | the theorems about what its loops leave behind, about leaks, and about calls getting on |
| `PciDxeShimRoutes` | the theorems about where the calls of the base driver go, and where they go wrong |
| `BusBinding` | the abstract specification of a PCI bus driver: what shim and base driver promise together |
| `PciDxeShimBusDriver` | the proof that `PciDxeShim` implements `BusBinding` |
| `MCPciDxeShim` | constants of the instances TLC checks |
| `Substitutes` | the two substitute protocols on top of `PciDxeShim`: every slot and function, and calls that take several steps and nest |
| `SubstitutesProperties` | what a call looks like from its two ends |
| `BridgeServices` | the abstract specification of the services of a root bridge and its host bridge, with no shim in between |
| `SubstitutesProofs` | the proof that `Substitutes` implements `BridgeServices` |
| `MCSubstitutes` | constants of the instance TLC checks |
| `GuidSub` | one run of `guidsub` after another on the same file |
| `GuidSubProperties` | substitution defined without a scan, and what the tool must do by that definition |
| `GuidSubProofs` | the theorems about the byte order, the scan, the file and two runs in a row |
| `MCGuidSub` | small windows and files |
| `GuidMakefile` | the GUIDs of the Makefile, of the header of the shim and of its code, and what runs with them must do |
| `GuidMakefileProofs` | the theorems about these GUIDs |
| `MCGuidMakefile` | files made of pieces of these GUIDs |
| `HotPlug` | the hot-plug driver and the NVS patcher, the dispatcher, the bus driver and the loader |
| `HotPlugProperties` | what must be in place when the bus driver or the operating system looks |
| `HotPlugProofs` | the theorems about it |
| `MCHotPlug` | the bridges of the board |

### How PciDxeShim corresponds to the code

One action per way through a handler. `Supported` runs to completion in one
step: nothing in it yields to a caller of the substitutes that could tell, since
the base driver holds no interface yet that it installs. `Start` and `Stop` are
loops over the list and take one step per entry, so that calls of the base
driver (`RbCall`, `RaCall`) fall between them.

* `list`, `mapping`, `raOriginal` are the list and the two mapping structures;
  blocks are members of `IoBlocks` and `RaBlocks`, and the content of a block
  outlives `FreePool`, as it does in the code that reads it afterwards. `segment` is
  the substitute's `SegmentNumber`, a data member that callers read without a call:
  zero after the allocation, copied once the first open has succeeded (264).
* Each of the two allocations of a probe can fail: `SupportedAllocFails` before
  anything is installed, `SupportedAllocRaFails` with the substitute RBIO in place.
* `ioIface`, `raIface`, `ioOpen`, `testOpen`, `raOpen`, `held` are the part of the
  DXE core's handle database that concerns the shim. `CloseProtocol` removes
  every record with the same handle, protocol, agent and controller, whatever
  its attributes: that is why the close of the availability test in `Supported`
  (line 403) also removes the record of `Start` (line 253).
* `held[c]` is the substitute the base driver has open BY_DRIVER on `c`. An
  interface that is held cannot be uninstalled, and the base driver accepts a
  probe only where a substitute is installed that nobody holds.
* `status = "unset"` is the unassigned local variable `Status`; what is returned
  then is any status.
* Between the base driver's answer and the return of `Start` the shim dumps the
  devices (`pc = "dumping"`). `bufLive` and `buffer` are the handle buffer of
  `LocateHandleBuffer`, a member of `Buffers`; `handles` is what of it is still to
  be visited; `deviceOpen` holds the open records on PCI I/O handles. Functions are
  `Devices`, behind the root bridge `BridgeOf` says. Opening, reading and closing
  one function is one step (`DumpDevice`), and so is each early return, which frees
  and closes nothing. The fifteen registers are read through the base driver's PCI
  I/O, so through the substitute: a step of the dump is also a call of the base
  driver. What is read is only logged. When a bridge is stopped its functions go,
  with the records on them.
* `fault` becomes `"null"` or `"freed"` at the first undefined access; nothing is
  said of the program after it.

The environment (DXE core, base driver) is not in this repository. Whether this
board's core ever calls `Stop` is decided there; the model allows every entry
point the shim publishes, under the contract of a driver binding: `Start` follows
a successful `Supported`, `Stop` is called on a bridge that was started. Failures
of the environment are switched on by the constant `Hazards`, one name per call.

### The abstract bus driver

`BusBinding` knows which root bridge was just accepted by `Supported`, which are
started, and where the last call of the base driver went. The mapping: a bridge
is accepted while the shim stands between a successful `Supported` and the end
of `Start` (`Accepted`), it is started while the base driver has the substitute
open (`Started`), and the route is the history
variable `routed`. Everything the shim does with lists, mappings and open
records is a stutter; what may not happen is a bridge that is started without
being accepted, a call served for a bridge that is not started, or one that
ends at another bridge's original.

### How Substitutes corresponds to the code

`PciDxeShim` takes a call through a substitute for one step, `RbCall` or `RaCall`.
`Substitutes` extends it and takes that step apart, with one operator for each of
the 25 functions of `PciBridgeIoShim.c` and `PciResourceAllocationShim.c`.

* `calls` is the stack of the calls under way. A frame is an activation of such a
  function: `substitute` is its `This`, `original` its local variable
  `OriginalProtocol`, `answer` its `Status`, and `stage` how far it has come:
  entered, original found (`FindOriginal`), original called (`CallOriginal`),
  returned (`ReturnAnswer`).
* `RootBridgeIoSlot` and `AllocatorSlot` are the assignments of the two install
  functions: which function is in which slot. What a function passes on is a member
  of the original and a sequence of arguments; arguments are told apart by their
  position, so a swapped or dropped one shows. `This` is replaced by the original.
* Timer events run at a higher task priority and to their end: a call that comes in
  while another one is under way returns first. For the same reason neither the
  core nor the shim gets on with a probe, a start or a stop before the stack is
  empty (`Quiet`): drivers are connected at the lowest priority only.
* The walk over the descriptors in `SubmitResources` reads and logs.
* The models go on after a failed `ASSERT`. See "Assertions" below.

`BridgeServices` is what the callers count on: a call is asked for, performed once
by the protocol of the caller's own bridge with the caller's arguments, and
answered with that protocol's status; the innermost call is answered first. It
knows neither list nor mapping. The mapping: `pending` is the stack as the callers
see it (`Unanswered`), `event` is the last thing an original or a caller has seen.
Probes, starts and stops of the shim are stutters.

### How GuidSub corresponds to the code

One action per way through each part of `main()`, one step per window of the
scan, and each point where a call can fail or the process can be killed between
two calls that touch the file.

* `disk` is the content of the file; `buffer`, `pos`, `substituted`,
  `original`, `new` are the locals. `ret` is how the run ended, by its message.
* `fopen(.., "wb")` empties the file; from there to `fclose` any beginning of the
  buffer may have reached it (`Partial`).
* `LoopBound` is the unsigned `fileSize - sizeof(uuid_t)`: it wraps. An access
  outside the buffer sets `fault`, and nothing is said of the program after it.
  `pos` is an `int` and the size of the file is not: `ScanOverflow` is the increment
  that passes `IntMax`, undefined in C and so a fault as well.
* `before` and `prior` are history: the file when the run began, and the run
  before this one. They let properties speak of two runs.

`uuid_parse` is a library: jobs are the GUIDs it returns. Options, usage and
refused arguments are one action, `Refuse`.

`GuidMakefile` puts the three GUID pairs in, as they are written in three places:
the calls in the Makefile (lines 47-49), which are commented out at this commit, so
that the reader runs them by hand; the bytes in the header of `PciDxeShim.c` (lines
12-19), for whoever has no tool; and the `EFI_GUID`s the shim looks for (lines
40-42). `InMemory` is how a little-endian machine lays the last ones out.

### How HotPlug corresponds to the code

* The entry points are dispatched once each, in any order their `[Depex]`
  sections allow: `NvsPatcher` after the area is published, `PciHotPlug` at any
  time (`TRUE`).
* `there` is what has been put in place: the area's protocol, the device path in
  `mPcieLocation`, the hot-plug protocol. `area` holds the two bytes the drivers
  write. `NvsProviderMain` is the firmware's own driver.
* The bus driver asks in its fixed order: list, initialisation, padding.
  `InitializeRootHpc` takes two steps, because the notification of the event runs
  inside `SignalEvent`.
* `padding[b]` is the sequence of descriptors before the end tag, each with the
  fields that the properties tell apart; `state[b]` stays `"unset"` where the code
  does not write `*HpcState`.
* A `LocateProtocol` that finds nothing leaves a pointer that must not be
  followed: `fault`.
* `attributes[b]` is what `GetResourcePadding` writes for every bridge it succeeds
  for, with the padding.

### Assertions

The shim and the hot-plug driver put `ASSERT` and `ASSERT_EFI_ERROR` behind most
calls that can fail, and handle the failure after them. Whether a failed assertion
stops the machine is settled by the debug library and its settings in edk2, a
submodule that is not part of this repository; the Makefile makes a RELEASE
build, and a patch gives that build a debug library with serial output. The models go on after a failed
assertion. A build that stops shows beginnings of the same behaviours, so the
safety properties hold of it; the liveness properties (`CallsReturn`,
`BusEventuallyStarts`, `Boots`) are claims about a build that goes on.

## Runs

### The shim

Two root bridges (on one or two host bridges), two blocks of each kind, two
functions behind the first root bridge and one handle buffer.
Two bridges are enough for one to take the place of, or be mistaken for,
another; one mapping at most is ever listed (proved below), so two blocks let one
be leaked or freed and another be in use. The pool bounds the number of leaks:
when it is exhausted probes that allocate no longer happen, and a dump that finds
no buffer is over at once, as when `LocateHandleBuffer` fails. With two functions a
dump can fail after it has finished one; the second bridge has none, so a dump may
also find nothing.

| Run | Environment | Checks |
|---|---|---|
| `shim_tolerant` | every failure but five | `TypeOK`, `NoFault`, `ShimInv` |
| `shim_all_hazards` | every failure | `AtMostOneMapping`, `ListedMappingsAlive`, `BaseHoldsInstalled`, `LoopPointersValid`, `RoutedHome`, `StartedServed`, `OneBridgeRuns`, `SupportedOkMeansHooked`, `StopOkReleasesAll`, `StartReportsBase`, `FaultsOnlyWhere`, `CallsGetOn`, `IsBusDriver` (the refinement of `BusBinding`) |
| `shim_refusals` | failing opens, closes and base driver; fairness | `NoLeak`, `CallsReturn`, `BusEventuallyStarts` |
| `substitutes` | calls in several steps that nest; an open, an installation and a start may fail, a stop may leave the bridge started | `CallTypeOK`, `LookedUpHome`, `IsTransparent` (the refinement of `BridgeServices`) |

They have 248,625, 478,344, 100,013 and 915,658 distinct states.
`shim_all_hazards` and `substitutes` do not check for deadlock: the program may stop
at an undefined access. The five failures left out of `shim_tolerant` are the ones the
code does not survive: a NULL from the pool, a mapping that is installed but not
listed (the allocator substitute could not be installed, or the substitute could
not be uninstalled), an original that could not be opened behind an open mapping,
and a pool that overwrites freed blocks. What the code does survive of them is the
larger part, and is checked with all failures on: every call that reaches anything
reaches the original of its own bridge (`RoutedHome`), a bridge that was started is
on the list with its original and its segment number, and with its allocator for as
long as the shim has that open (`StartedServed`), one bridge runs at a time (`OneBridgeRuns`), and three steps
only can touch what they must not (`FaultsOnlyWhere`): the write into one of two
mappings there was no pool for, a call of the base driver before its `Start` has found the allocator
and returned, and the walk over a freed and overwritten mapping.

`substitutes` has two root bridges with a host bridge each, and one block of each
kind: a call is told apart by the bridge it is made for, so leaked blocks add
nothing to what the other runs show. Its bounds are `MaxCalls` = 2, a call and one
that interrupts it, and `Nested`, the services called by the one that interrupts.
All 25 services are called, and each can be interrupted at each of its stages; what
a second interrupting service could do differently is only what it passes on,
which its own outermost call shows. The proofs are for any value of both bounds.

Fairness (`LiveSpec`): a call into the shim goes on until it returns, and the core
probes every root bridge again and again. The code counts on the latter
("pull our protocol and try again next time", `PciDxeShim.c:428`), and without it
nothing could ever start: the first probe is always refused.
`BusEventuallyStarts` is checked together with failures, and says of a bus that is
not mapped: if the refusals cease (`Refused`: of probes, and of the first open of
`Start`) some bridge gets started, unless the shim is `Wedged`. That is what a failed
close of the availability test and a failed start of the base driver leave behind,
and no fairness helps: see "Also seen".

The other runs state what the comments of the code promise and show how it is
not kept:

| Run | Promise | What happens |
|---|---|---|
| `second_bridge` | any root bridge can be supported (350) | only the first one is hooked, the base driver refuses the second |
| `start_retry` | another status means something went wrong (236) | with every mapping open, an unassigned status is returned |
| `stop_probed` | another status means the driver was not removed (496) | after a probe the record `Stop` closes is gone: it fails, the base driver has stopped |
| `cleanup_scrub` | resources freed, or something went wrong (296) | the loop reads the mapping it has freed |

### guidsub

Windows of two bytes over every file of three letters that is empty, shorter than
a window, one window, a byte more, or five bytes, and of two letters with six:
occurrences can overlap, touch, and lie at both ends, and two of them fit where the
scan reaches. `IntMax` = 3, so that the six bytes are one more than the position can
count; `guidsub_makefile` has the real one. Six jobs:
independent GUIDs there and back, one that overlaps itself, two that overlap each
other, and the same one twice. Two runs are the fewest in which one can undo or
repeat another. `SizeT` = 1000 stands for 2^64: all that matters is that it is
larger than any file.

| Run | Environment | Checks |
|---|---|---|
| `guidsub` | every call fails, `malloc` returns NULL, the process is killed; fairness | `TypeOK`, `ScanSubstitutes`, `OutcomeMatchesDisk`, `RerunFindsNothing`, `BackAndForth`, `OldOrBeginningOfNew`, `AllRenamed`, `FaultsOnlyWhere`, `RunsEnd` |
| `guidsub_makefile` | windows of 16 bytes, the three GUID pairs of the Makefile in any order, up to three runs on files made of GUIDs, and of beginnings and ends of GUIDs | `HeaderBytes`, `HeaderGuidsGone` |
| `guid_not_found` | "GUID not found in source file" (135) | violated: the window at the very end is never compared |

`ScanSubstitutes` holds where no end of the new GUID is a beginning of the
original one (`Apart`); otherwise replacing one occurrence can make another.
`RerunFindsNothing`, `BackAndForth` and `AllRenamed` (what was replaced, or was not
there, does not come back) ask the same of the pairs of GUIDs that could overlap, and
no more: two different random GUIDs are like that, and those of the Makefile are,
with one exception (see "Also seen") that `HeaderGuidsGone` names. The two
runs that pass have 1,343,479 and 583,234 distinct states.

Fairness: a run that was begun goes on until it ends; nothing makes anyone
run the tool. The tool may stop for good, so these runs do not check deadlock.

### Hot plug

The root port, the two Thunderbolt ports and another bridge: one for each way
through `GetResourcePadding`, and both addresses of the downstream one. Booting
ends, so deadlock is not checked. One run, `hotplug`, with every failure: an
allocation or the installation fails, nobody publishes the area, the bus driver is
connected before dispatching has ended. It checks `TypeOK`, `NoFault`,
`SettingsBeforeOs`, `ListHasLocation`, `EnabledHasPadding` and `Boots`. Fairness
(`WF_vars(Next)`): dispatcher, bus driver and loader go on as long as there is
something they can do.

### Also seen

Disagreements between code and comments, and other oddities, that show in the
models or were met while writing them, and that no run of their own is spent on:

* `PciDxeShim.c:667`: the very call that locates the substitute binding returns
  NULL, though NULL is "Unable to locate" (656). Start-up counts on another probe
  (`BusEventuallyStarts`).
* `PciDxeShim.c:263`: `IsOpen` is set before the allocator is opened; when that fails, a
  retry skips the mapping and may report "Protocols successfully opened" (235) with
  the allocator's `OriginalProtocol` NULL. `OpenRa` is not tolerable for this reason,
  and `StartedServed` promises the allocator only while the shim has it open.
* `PciDxeShim.c:517`: `Stop` for some children runs the whole cleanup, though it is
  zero children that "stop the entire bus driver" (491): the base driver runs on and
  the allocator's substitute is gone. `StartedServed` allows this too.
* `PciDxeShim.c:403`: the status of the close of the availability test is ignored. If
  it fails, the record stays, every later probe of that bridge finds "already
  started" (392) and succeeds without hooking anything: the base driver is then
  started on a bridge without a substitute and refuses (`Wedged`).
  `SupportedOkMeansHooked` shows that this is the only way a probe succeeds with
  nothing hooked.
* `PciDxeShim.c:477`: when the base driver fails to start, the mapping stays open. A
  retry skips it and returns an unassigned status (the run `start_retry`).
* `PciDxeShim.c:564`, `570`, `644`: the early returns of the dump free neither the
  handle buffer nor, in the last two cases, the open record. `NoLeakAlways` names
  them among the failures that leak.
* `PciResourceAllocationShim.c`: `SubmitResources` reads through `Configuration`
  before the original can refuse a NULL one; `GetNextRootBridge` asserts success
  though `EFI_NOT_FOUND` is how its walk ends: a build whose assertions stop stops there.
* `guidsub.c:160`: `fclose` writes what is buffered, its result is ignored, and
  success has been printed (153). `OutcomeMatchesDisk` speaks of files that were not
  cut short for that reason; `OldOrBeginningOfNew` says what is left of the others.
* `guidsub.c:124`: for a file shorter than a GUID the unsigned bound wraps and the
  scan leaves its buffer. `RunsEnd` leaves this out; `FaultsOnlyWhere` says that this,
  a `malloc` whose result is not looked at, and the position that overflows in a file
  of more than 2^31 + 15 bytes are the only undefined things it does.
* `Makefile:47-48`: the last byte of the new driver binding GUID (0xBB) is the first
  byte in memory of the root bridge I/O one. A file in which the other 15 bytes of
  the latter follow a driver binding GUID gets a root bridge I/O GUID out of the
  replacement, one that was not there before (`Joins`). In firmware nothing of the
  kind is to be expected: no harm, but no theorem without the exception either.
* `PciHotPlug.c:143`: the driver has no dependency on the area ("should be
  depex'd", 142) and does not look whether it was found. `NoFault` says when that
  matters.
* `PciHotPlug.c:179`: the event of completed initialisation (165) is signalled
  before the state is written. The bus driver reads the state after the call.
* `PciHotPlug.c:313`: for any other bridge the state, an output (194), is not
  written, with `EFI_SUCCESS`. `EnabledHasPadding` shows that such a bridge has no
  descriptors.
* `PciHotPlug.c:275`: the descriptor of the "padding for prefetchable memory" says
  that the memory is not prefetchable.

## Proofs

`PciDxeShimProofs` proves for any number of root bridges, host bridges, functions
and blocks:

* `TypeCorrect`: `TypeOK`. It needs that listed mappings have a controller,
  because `OpenIo` records it.
* `AtMostOneMappingAlways`, `ListedMappingsAliveAlways`,
  `BaseHoldsInstalledAlways`, whatever fails. The inductive invariant is
  `StructInv`: besides the three it says that an installed interface belongs to
  the controller it is installed on, so that freeing a mapping cannot take it
  from another bridge. That the list has one entry at most is what makes an
  early return from `CleanupDriver` harmless: no freed entry is left behind on it.
* `SupportedOkMeansHookedAlways`, whatever fails: a mapping is made only where no
  substitute was installed, which by `StructInv` the base driver then cannot hold.
* `StartReportsBaseAlways`, whatever fails. `StartsFresh` adds to `StructInv` what is
  known of the bridge at each point of `Start`, before the base driver is asked
  (it is not held, or it carries the record the availability test left) and after;
  the dump keeps the status and nothing else touches the bridge (`DumpAlone`).
* `ShimInvariant`, and from it `NoFaultEver`, under the assumption `Tolerant` (none of
  the five failures occurs): the only results about the shim that leave failures
  out, because they say of each listed mapping that it is whole. The invariant follows
  the chain a call takes: what the base driver holds is installed and open, what
  is installed is listed, what is listed is whole, and how far the loops of
  `Start` and `Stop` have come says which entries are open. `DumpVisitsStarted` does
  the same for the calls of a dump: what it visits is behind a started bridge.

`PciDxeShimLoops` proves, on top of `StructInv`:

* `LoopPointersValidAlways` and `StopOkReleasesAllAlways`, whatever fails. The
  invariant `LoopInv` speaks of the one listed mapping: past `OpenBaseProtocols` it is
  open, unopened it has its allocator mapping still; the only allocator substitute
  installed is its own, because a mapping that a failed probe left off the list has
  no handle for one; and what the base driver holds is that mapping, unless it has
  just opened it and has not found the allocator yet. The last two are what lets a
  `Stop` come only when there is something to clean up, and finish with nothing left.
* `NoLeakAlways`, under `LeaksNothing` and up to the first undefined access: none of six failures happened. They are the
  ones whose handling forgets something: the substitute RBIO that cannot be
  installed or uninstalled, the allocator substitute that cannot be installed, and
  the three early returns of the dump. Any other failure leaves everything that is allocated on the list.
* `CallsGetOnAlways`, whatever fails: each step of `Start` and of `CleanupDriver` either
  brings the call to a later part of it, or moves its loop to the next entry of a
  list that stays as it is, or takes a function off those the dump has still to
  visit; and no step of the base driver in between takes that back. This is the
  safety half of `CallsReturn`: list and buffer are finite, so a call that goes on
  (fairness) returns, unless it ends in an undefined access.

`PciDxeShimRoutes` proves, whatever fails and on top of `LoopInv`:
`RoutedHomeAlways`, `StartedServedAlways`, `OneBridgeRunsAlways` and
`FaultsOnlyWhereAlways`. The search in the list can go wrong in many ways when a
mapping is half made, but every one of them finds nothing rather than something
else: a mapping that has an original has that of its own controller, with its segment
number, listed or not (`OriginalHome`), and the allocator mapping behind the listed one has no original or
that of the host bridge above (`AllocatorHome`); while the shim has the allocator
open, its substitute is installed and has that original (`AllocatorServed`). So a lookup returns what the caller
was given, or NULL; and NULL is possible only until `Start` has found the allocator,
because a start of the base driver that succeeds needs both substitutes held and
open (`StartedHolds`, `StartedServed`). That one mapping serves one bridge makes it
the only one that runs.

The assumptions are those of the module: `NULL` is none of the handles and blocks,
every root bridge has a host bridge, every function a root bridge, hazards are
among the named ones.

`PciDxeShimBusDriver` proves `ImplementsBusDriver`: `Spec` implies `IsBusDriver`,
whatever fails. The initial states map to initial states, and every action
to one action of `BusBinding` or a stutter. What decides is that a call starts at
the interface the base driver holds, which ends at the original of its bridge or in
an undefined access (`RoutesHome`), and that a base driver which still holds a bridge
refuses to start it again. A step of the dump that reads is a call of a started
bridge.

`SubstitutesProofs` proves, whatever fails and for any bounds `MaxCalls` and
`Nested`: `CallTypeCorrect`; `LookedUpHomeAlways`, what a function has looked up
stays right until it is used; and `SubstitutesAreTransparent`, that `Substitutes`
implements `BridgeServices`.
The invariant is that of `PciDxeShimRoutes`, which carries over because every step is
one of `PciDxeShim` or leaves its variables alone (the lemma `StepIsShimStep`), with `CallTypeOK` and
`LookedUpHome`: what was looked up is the original of the frame's own bridge, or NULL,
and that only while this bridge is being started. A step of the binding cannot
disturb a frame, there being none (`Quiet`); a step of the innermost call leaves the
others as they are. A call that goes through NULL is never performed, so
the abstract specification is not made to answer it. For transparency every slot
passes on the service it is named for, with the arguments in place.

`GuidSubProofs` proves, for windows, GUIDs and files of any size:

* `FixEndiannessInvolutive`: the byte order conversion is its own inverse.
* `TypeCorrect`: the buffer keeps its length, the window stays on it.
* `ScanSubstitutesAlways`: the scan replaces the leftmost disjoint occurrences in
  the file as it was read. The point of the proof is a window that overlaps a
  replacement: it begins with an end of the new GUID, so it cannot match when the
  two are `Apart` (`MatchIsNewOccurrence`). The inductive invariant is the property
  itself with the types and `Untouched`: until the scan has found something the file
  is as it was.
* `OldOrBeginningOfNewAlways`, from an invariant that says that only a run that has
  found something gets as far as the file, and what has reached it by then.
* `OutcomeMatchesDiskAlways`. The scan of a file that is not too short ends exactly
  at `Reach`; until something is found the buffer is the file.
* `AllRenamedAlways`. A run that succeeded has written what the scan made (`DiskInv`),
  also when the file was cut short; and a GUID that is in a file after a substitution
  was put in there or was there before (`WhatOccursAfter`), if it cannot overlap what
  was put in (`StaysGone`).
* `RerunFindsNothingAlways` and `BackAndForthAlways`, about two runs. `RunsInv` says
  what a successful run has made of the file, of the last run and of the one before.
  By the same lemmas nothing is left to substitute (`NoneLeft`), and the
  places a substitution back finds are those of the one before (`BackIsUndone`).
* `FaultsOnlyWhereAlways`: for a file that is at least as long as a GUID the bound of
  the scan does not wrap, and no window leaves the buffer; and a position that
  overflows has counted `IntMax` windows.

"Any size" includes the files whose windows an `int` cannot count. On those a run
ends in a fault before the scan is over; what the theorems say of the time before
holds of it, and what they say of finished runs never applies.

`GuidMakefileProofs` proves, of the GUIDs in the source and for files of any size:
`HeaderBytesAlways`, that Makefile, header and code name the same bytes, with the
byte order conversion between them; `HeaderGuidsApart`, that the hypotheses of the
general theorems hold of these GUIDs, by looking at the first two bytes of each
(`ApartByFirstBytes`); and `HeaderGuidsGoneAlways`, which is `AllRenamed` with no
hypothesis left but the exception.

`HotPlugProofs` proves, for any set of bridges and whatever fails,
`SettingsBeforeOsAlways`, `ListHasLocationAlways` and `NoFaultAlways`, from an
invariant that says which byte is written by which point of the boot and what a
driver that did not run was waiting for; and `NoFaultInOrder`: with the area
published and the bus driver connected after dispatching (`Ordered`), nothing is
accessed through NULL. `TypeCorrect` and `EnabledHasPaddingAlways` follow from an
invariant that ties the state a bridge is reported in to the padding it got; they
assume that `NULL`, which stands for padding not asked for yet, is not a list of
descriptors.

Model-checked only: liveness under fairness (`CallsReturn`, `BusEventuallyStarts`,
`RunsEnd`, `Boots`), which is out of the prover's reach, and the runs that find a
violation. Every other property of a passing run is a theorem.

## Plan

Done: the binding of the shim with its loops, leaks and dump, its refinement of a
bus driver, the substitutes and their refinement, `guidsub` and the GUIDs it is for,
the hot-plug driver and the patcher; with theorems for every safety property. Left
to prove: what `CallsGetOn` is for `CallsReturn`, for `RunsEnd` (a bound on the steps of
a run of `guidsub`) and for `Boots`; and a theorem for each of the three steps of
`FaultsOnlyWhere` that says which failure it needs, so that `NoFaultEver` could leave
fewer than five out. Left of the code: nothing that a model could tell apart.
What a change of the code would ask for first: a list that may hold several
mappings, for `second_bridge`, would need `StructInv` and `LoopInv` restated for every
entry.

Not modelled: the patches under `patches/` change code that is not in this
repository; the build files, but for the GUIDs and the dependencies they name; the
declarations of the headers, which have no behaviour; the wording of the debug
output, with the tables of names that are indexed by the phase or the type of a
descriptor; and the assertions (see "Assertions").
