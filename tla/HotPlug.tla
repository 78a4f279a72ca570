------------------------------- MODULE HotPlug -------------------------------
(***************************************************************************)
(* The hot-plug driver (PciHotPlug.c) and the settings patcher             *)
(* (NvsPatcher.c) between the dispatcher that runs them, the bus driver    *)
(* that asks the first one for controllers and padding, and the operating  *)
(* system that reads the settings both have written.                       *)
(***************************************************************************)
EXTENDS Integers, Sequences

CONSTANTS
  Bridges,  \* addresses of hot-plug capable bridges: [bus, dev, func]
  NULL,
  Hazards   \* what the environment may do, see AllHazards

AllHazards ==
  { "NoNvs",         \* nobody publishes the NVS area
    "EarlyBus",      \* the bus driver is connected before dispatching has ended
    "PathAlloc", "InstanceAlloc", "PaddingAlloc",  \* PciHotPlug.c:73, 92, 224
    "Install" }      \* InstallProtocolInterface, PciHotPlug.c:109

ASSUME BridgesAssumption == Bridges \subseteq [bus : Nat, dev : Nat, func : Nat]
ASSUME HazardAssumption == Hazards \subseteq AllHazards

VARIABLES
  phase,      \* "dispatch", "bds" or "os"
  ran,        \* drivers whose entry point has run
  there,      \* what has been put in place, see below
  area,       \* the two bytes of the NVS area that are written
  bus,        \* how far the bus driver has come
  async,      \* it passed an event to InitializeRootHpc()
  event,      \* the event is signalled
  hpcState,   \* the state it was given for the root controller
  state,      \* and, with the padding and what the padding is for, for each bridge
  padding,
  attributes,
  fault       \* an access through NULL

firmware == <<phase, ran, there, area>>
answers  == <<async, event, hpcState, state, padding, attributes>>
vars     == <<firmware, bus, answers, fault>>

published == "nvsArea" \in there      \* the protocol of the NVS area is installed
location  == "location" \in there     \* mPcieLocation[0] holds a device path
installed == "hotPlugInit" \in there  \* the hot-plug protocol is installed

May(h) == h \in Hazards

OSC  == 113   \* 0x71, PciHotPlug.c:152
SRLD == 1959  \* 0x7A7, NvsPatcher.c:25

Init ==
  /\ phase = "dispatch" /\ ran = {} /\ there = {}
  /\ area = [o \in {OSC, SRLD} |-> 0]
  /\ bus = "off" /\ async = FALSE /\ event = FALSE /\ hpcState = "unset"
  /\ state = [b \in Bridges |-> "unset"] /\ padding = [b \in Bridges |-> NULL]
  /\ attributes = [b \in Bridges |-> "unset"]
  /\ fault = FALSE

-----------------------------------------------------------------------------
(* Entry points, in any order their dependencies allow.                    *)

NvsProviderMain ==
  /\ phase = "dispatch" /\ "nvs" \notin ran
  /\ ran' = ran \cup {"nvs"}
  /\ \/ there' = there \cup {"nvsArea"}
     \/ May("NoNvs") /\ UNCHANGED there
  /\ UNCHANGED <<phase, area, bus, answers, fault>>

\* A plausible bug: no dependency, and an area that is not there is passed over.
NvsPatcherMainUnordered ==
  /\ phase = "dispatch" /\ "patcher" \notin ran
  /\ ran' = ran \cup {"patcher"}
  /\ area' = IF published THEN [area EXCEPT ![SRLD] = 1] ELSE area
  /\ UNCHANGED <<phase, there, bus, answers, fault>>

\* A plausible bug: no dependency, and an area that is not there is written to.
NvsPatcherMainUnchecked ==
  /\ phase = "dispatch" /\ "patcher" \notin ran
  /\ ran' = ran \cup {"patcher"} /\ fault' = ~published
  /\ area' = [area EXCEPT ![SRLD] = 1]
  /\ UNCHANGED <<phase, there, bus, answers>>

\* A plausible bug: every bit of the byte is set.
NvsPatcherMainAllBits ==
  /\ phase = "dispatch" /\ "patcher" \notin ran /\ published
  /\ ran' = ran \cup {"patcher"}
  /\ area' = [area EXCEPT ![SRLD] = 255]
  /\ UNCHANGED <<phase, there, bus, answers, fault>>

\* It depends on the protocol of the area.
NvsPatcherMain ==
  /\ phase = "dispatch" /\ "patcher" \notin ran /\ published
  /\ ran' = ran \cup {"patcher"}
  /\ area' = [area EXCEPT ![SRLD] = 1]
  /\ UNCHANGED <<phase, there, bus, answers, fault>>

\* A plausible bug: the protocol is installed before the location is filled in.
HotPlugMainInstallsFirst ==
  /\ phase = "dispatch" /\ "hotplug" \notin ran
  /\ ran' = ran \cup {"hotplug"}
  /\ \/ there' = there \cup {"hotPlugInit", "location"}
     \/ May("PathAlloc") /\ there' = there \cup {"hotPlugInit"}
  /\ UNCHANGED <<phase, area, bus, answers, fault>>

\* It depends on nothing.  A location that was filled in stays so when what
\* follows fails.
HotPlugMain ==
  /\ phase = "dispatch" /\ "hotplug" \notin ran
  /\ ran' = ran \cup {"hotplug"}
  /\ \/ there' = there \cup {"hotPlugInit", "location"}
     \/ May("PathAlloc") /\ UNCHANGED there
     \/ (May("InstanceAlloc") \/ May("Install")) /\ there' = there \cup {"location"}
  /\ UNCHANGED <<phase, area, bus, answers, fault>>

\* The dispatcher is done when no driver that is left could run.
DispatchEnds ==
  /\ phase = "dispatch" /\ {"nvs", "hotplug"} \subseteq ran
  /\ published => "patcher" \in ran
  /\ phase' = "bds"
  /\ UNCHANGED <<ran, there, area, bus, answers, fault>>

OsBoots ==
  /\ phase = "bds" /\ bus = "done" /\ phase' = "os"
  /\ UNCHANGED <<ran, there, area, bus, answers, fault>>

-----------------------------------------------------------------------------
(* The bus driver, and what it calls.                                      *)

\* Without the protocol there is no hot plug, and nothing to ask.
BusConnects ==
  /\ bus = "off" /\ (phase = "bds" \/ May("EarlyBus"))
  /\ bus' = IF installed THEN "listing" ELSE "done"
  /\ UNCHANGED <<firmware, answers, fault>>

\* LocateProtocol() is not looked at: without the area NULL is written through.
GetRootHpcList ==
  /\ bus = "listing"
  /\ IF published
     THEN area' = [area EXCEPT ![OSC] = 1] /\ bus' = "initializing" /\ UNCHANGED fault
     ELSE fault' = TRUE /\ UNCHANGED <<area, bus>>
  /\ UNCHANGED <<phase, ran, there, answers>>

\* A plausible bug: the event is not signalled.
SignalForgotten ==
  /\ bus = "initializing" /\ bus' = "signalled" /\ async' \in BOOLEAN
  /\ UNCHANGED <<firmware, event, hpcState, state, padding, attributes, fault>>

\* InitializeRootHpc() signals the event, if there is one: its notification
\* runs before the next statement ...
Signal ==
  /\ bus = "initializing" /\ bus' = "signalled"
  /\ async' \in BOOLEAN /\ event' = async'
  /\ UNCHANGED <<firmware, hpcState, state, padding, attributes, fault>>

\* ... which hands out the state.
InitializeRootHpc ==
  /\ bus = "signalled" /\ bus' = "waiting"
  /\ hpcState' = "initialized"
  /\ UNCHANGED <<firmware, async, event, state, padding, attributes, fault>>

\* The bus driver waits for its event.
HpcInitialized ==
  /\ bus = "waiting" /\ (async => event) /\ bus' = "padding"
  /\ UNCHANGED <<firmware, answers, fault>>

PADDING_NUM == 4

Descriptor(type, flag, len, max) == [type |-> type, flag |-> flag, len |-> len, max |-> max]

RootPort    == [bus |-> 0, dev |-> 28, func |-> 4]
Thunderbolt == {[bus |-> 5, dev |-> 1, func |-> 0], [bus |-> 5, dev |-> 4, func |-> 0]}

\* A plausible bug: only the first downstream bridge is compared with.
PaddingForFirst(b) ==
  CASE b = RootPort ->
         << Descriptor("mem", 0, 512 * 1048576, 0), Descriptor("mem", 0, 512 * 1048576, 0),
            Descriptor("io", 0, 4 * 1024, 1) >>
    [] b = [bus |-> 5, dev |-> 1, func |-> 0] -> << Descriptor("bus", 0, 20, 0) >>
    [] OTHER -> <<>>

\* The descriptors before the end tag; the rest of the buffer is zero.
PaddingFor(b) ==
  CASE b = RootPort ->
         << Descriptor("mem", 0, 512 * 1048576, 0), Descriptor("mem", 0, 512 * 1048576, 0),
            Descriptor("io", 0, 4 * 1024, 1) >>
    [] b \in Thunderbolt -> << Descriptor("bus", 0, 20, 0) >>
    [] OTHER -> <<>>

\* A pointer to descriptors is none to nothing.
ASSUME NullAssumption == \A b \in Bridges : PaddingFor(b) # NULL

\* Padding and attributes are written for every bridge, *HpcState for the ones that
\* get descriptors only.
GetResourcePadding(b) ==
  /\ bus = "padding" /\ padding[b] = NULL
  /\ padding' = [padding EXCEPT ![b] = PaddingFor(b)]
  /\ attributes' = [attributes EXCEPT ![b] = "PciBus"]
  /\ state' = IF b \in Thunderbolt \cup {RootPort}
              THEN [state EXCEPT ![b] = "enabled"] ELSE state
  /\ UNCHANGED <<firmware, bus, async, event, hpcState, fault>>

\* EFI_OUT_OF_RESOURCES: the bridge gets no padding, nothing is written.
PaddingAllocFails(b) ==
  /\ bus = "padding" /\ padding[b] = NULL /\ May("PaddingAlloc")
  /\ padding' = [padding EXCEPT ![b] = <<>>]
  /\ UNCHANGED <<firmware, bus, async, event, hpcState, state, attributes, fault>>

BusEnumerated ==
  /\ bus = "padding" /\ (\A b \in Bridges : padding[b] # NULL) /\ bus' = "done"
  /\ UNCHANGED <<firmware, answers, fault>>

Boot ==
  \/ NvsProviderMain \/ NvsPatcherMain \/ HotPlugMain \/ DispatchEnds \/ OsBoots
  \/ BusConnects \/ GetRootHpcList \/ Signal \/ InitializeRootHpc \/ HpcInitialized
  \/ \E b \in Bridges : GetResourcePadding(b) \/ PaddingAllocFails(b)
  \/ BusEnumerated

Next == ~fault /\ Boot

Spec == Init /\ [][Next]_vars
\* Dispatcher, bus driver and loader go on as long as there is something to do.
LiveSpec == Spec /\ WF_vars(Next)
=============================================================================
