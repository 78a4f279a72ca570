----------------------------- MODULE HotPlugProofs -----------------------------
(* The settings are made before they are read, for any set of bridges.     *)
EXTENDS HotPlugProperties, TLAPS

FirmwareType ==
  /\ phase \in {"dispatch", "bds", "os"}
  /\ area \in [{OSC, SRLD} -> {0, 1}]

\* Where the two bytes are written, before the steps that count on them.
SettingsMade ==
  /\ "patcher" \in ran => area[SRLD] = 1
  /\ phase # "dispatch" /\ published => "patcher" \in ran
  /\ bus \in {"initializing", "signalled", "waiting"} => area[OSC] = 1
  /\ hpcState = "initialized" => area[OSC] = 1
  /\ bus \notin {"off", "done"} => installed
  /\ installed => location

\* A driver that dispatching has ended without is one that could not run.
FaultPlace ==
  /\ phase # "dispatch" => "nvs" \in ran
  /\ NoFault

BootInv == FirmwareType /\ SettingsMade /\ FaultPlace

LEMMA BootInit == Init => BootInv
  BY DEF Init, BootInv, FirmwareType, SettingsMade, FaultPlace, NoFault, published, location, installed

LEMMA BootStep == BootInv /\ [Next]_vars => BootInv'
<1> SUFFICES ASSUME BootInv, [Next]_vars PROVE BootInv'
  OBVIOUS
<1> USE DEF published, location, installed, BootInv, FirmwareType, SettingsMade, FaultPlace, NoFault,
  firmware, answers, OSC, SRLD
<1>1. CASE ~fault /\ NvsProviderMain
  BY <1>1 DEF NvsProviderMain
<1>2. CASE NvsPatcherMain
  BY <1>2 DEF NvsPatcherMain
<1>3. CASE HotPlugMain
  BY <1>3 DEF HotPlugMain
<1>4. CASE DispatchEnds \/ OsBoots
  BY <1>4 DEF DispatchEnds, OsBoots
<1>5. CASE BusConnects
  BY <1>5 DEF BusConnects
<1>6. CASE GetRootHpcList
  BY <1>6 DEF GetRootHpcList
<1>7. CASE Signal \/ InitializeRootHpc
  BY <1>7 DEF Signal, InitializeRootHpc
<1>8. CASE HpcInitialized \/ BusEnumerated
  BY <1>8 DEF HpcInitialized, BusEnumerated
<1>9. CASE \E b \in Bridges : GetResourcePadding(b) \/ PaddingAllocFails(b)
  BY <1>9 DEF GetResourcePadding, PaddingAllocFails
<1>10. CASE UNCHANGED vars
  BY <1>10 DEF vars
<1> QED
  BY <1>1, <1>2, <1>3, <1>4, <1>5, <1>6, <1>7, <1>8, <1>9, <1>10 DEF Next, Boot

\* NvsPatcher's UefiMain() and GetRootHpcList() have written their bytes by the
\* time the operating system runs, whatever fails.
THEOREM SettingsBeforeOsAlways == Spec => []SettingsBeforeOs
<1>1. BootInv => SettingsBeforeOs
  BY DEF BootInv, SettingsMade, SettingsBeforeOs
<1> QED BY <1>1, BootInit, BootStep, PTL DEF Spec

\* GetRootHpcList() never hands out a location that was not filled in.
THEOREM ListHasLocationAlways == Spec => []ListHasLocation
<1>1. BootInv => ListHasLocation
  BY DEF BootInv, SettingsMade, ListHasLocation
<1> QED BY <1>1, BootInit, BootStep, PTL DEF Spec

\* Nothing is accessed through NULL but by GetRootHpcList(), and that only
\* before the settings are published.
THEOREM NoFaultAlways == Spec => []NoFault
<1>1. BootInv => NoFault
  BY DEF BootInv, FaultPlace
<1> QED BY <1>1, BootInit, BootStep, PTL DEF Spec

-----------------------------------------------------------------------------
(* The access through NULL needs an area that nobody publishes, or a bus   *)
(* driver that comes before it.                                            *)
Ordered == Hazards \cap {"NoNvs", "EarlyBus"} = {}

AreaFirst ==
  /\ "nvs" \in ran => published
  /\ phase # "dispatch" => "nvs" \in ran
  /\ bus # "off" => phase # "dispatch"
  /\ ~fault

LEMMA AreaFirstStep ==
  ASSUME Ordered, AreaFirst, [Next]_vars
  PROVE  AreaFirst'
<1> USE DEF published, AreaFirst, firmware, answers
<1>0. ~May("NoNvs") /\ ~May("EarlyBus")
  BY DEF Ordered, May
<1>1. CASE ~fault /\ NvsProviderMain
  BY <1>0, <1>1 DEF NvsProviderMain
<1>2. CASE NvsPatcherMain \/ HotPlugMain
  BY <1>2 DEF NvsPatcherMain, HotPlugMain
<1>3. CASE DispatchEnds \/ OsBoots
  BY <1>3 DEF DispatchEnds, OsBoots
<1>4. CASE BusConnects
  BY <1>0, <1>4 DEF BusConnects
<1>5. CASE GetRootHpcList
  BY <1>5 DEF GetRootHpcList
<1>6. CASE Signal \/ InitializeRootHpc \/ HpcInitialized \/ BusEnumerated
  BY <1>6 DEF Signal, InitializeRootHpc, HpcInitialized, BusEnumerated
<1>7. CASE \E b \in Bridges : GetResourcePadding(b) \/ PaddingAllocFails(b)
  BY <1>7 DEF GetResourcePadding, PaddingAllocFails
<1>8. CASE UNCHANGED vars
  BY <1>8 DEF vars
<1> QED
  BY <1>1, <1>2, <1>3, <1>4, <1>5, <1>6, <1>7, <1>8 DEF Next, Boot

\* With an area that is published while drivers are dispatched, and a bus that
\* is connected after that, GetRootHpcList() finds the area it writes to.
THEOREM NoFaultInOrder == ASSUME Ordered PROVE Spec => []~fault
<1>1. Init => AreaFirst
  BY DEF Init, AreaFirst
<1>2. AreaFirst => ~fault
  BY DEF AreaFirst
<1> QED BY <1>1, <1>2, AreaFirstStep, PTL DEF Spec

-----------------------------------------------------------------------------
(* What the bus driver is told about the bridges.                          *)

LEMMA DescriptorType ==
  ASSUME NEW t \in {"mem", "io", "bus"}, NEW f \in Nat, NEW l \in Nat, NEW m \in Nat
  PROVE  Descriptor(t, f, l, m) \in Descriptors
BY DEF Descriptor, Descriptors

LEMMA PaddingFits ==
  ASSUME NEW b
  PROVE  /\ PaddingFor(b) \in Seq(Descriptors)
         /\ b \in Thunderbolt \cup {RootPort} => Len(PaddingFor(b)) \in 1..PADDING_NUM
         /\ b \notin Thunderbolt \cup {RootPort} => PaddingFor(b) = <<>>
<1> DEFINE mem == Descriptor("mem", 0, 512 * 1048576, 0)
           io  == Descriptor("io", 0, 4 * 1024, 1)
           bn  == Descriptor("bus", 0, 20, 0)
<1>1. mem \in Descriptors /\ io \in Descriptors /\ bn \in Descriptors
  BY DescriptorType
<1>2. PaddingFor(b) = CASE b = RootPort -> <<mem, mem, io>>
                        [] b \in Thunderbolt -> <<bn>>
                        [] OTHER -> <<>>
  BY DEF PaddingFor
<1>3. RootPort \notin Thunderbolt
  BY DEF RootPort, Thunderbolt
<1> HIDE DEF mem, io, bn
<1> QED BY <1>1, <1>2, <1>3 DEF PADDING_NUM

\* A bridge that is reported enabled has the padding meant for it, and the
\* attributes that come with it; the others have no descriptors.
Told ==
  \A b \in Bridges :
    IF state[b] = "enabled"
    THEN /\ b \in Thunderbolt \cup {RootPort} /\ padding[b] = PaddingFor(b)
         /\ attributes[b] = "PciBus"
    ELSE padding[b] \in {NULL, <<>>}

BusInv == TypeOK /\ Told

LEMMA BusInit == Init => BusInv
  BY DEF Init, BusInv, TypeOK, Told

LEMMA BusStep == BusInv /\ [Next]_vars => BusInv'
<1> SUFFICES ASSUME BusInv, [Next]_vars PROVE BusInv'
  OBVIOUS
<1> USE DEF BusInv, TypeOK, Told, firmware, answers
<1>1. CASE NvsProviderMain
  BY <1>1 DEF NvsProviderMain
<1>2. CASE NvsPatcherMain
  BY <1>2 DEF NvsPatcherMain
<1>3. CASE HotPlugMain
  BY <1>3 DEF HotPlugMain
<1>4. CASE DispatchEnds \/ OsBoots
  BY <1>4 DEF DispatchEnds, OsBoots
<1>5. CASE BusConnects
  BY <1>5 DEF BusConnects
<1>6. CASE GetRootHpcList
  BY <1>6 DEF GetRootHpcList
<1>7. CASE Signal \/ InitializeRootHpc
  BY <1>7 DEF Signal, InitializeRootHpc
<1>8. CASE HpcInitialized \/ BusEnumerated
  BY <1>8 DEF HpcInitialized, BusEnumerated
<1>9. ASSUME NEW b \in Bridges, GetResourcePadding(b)
      PROVE  BusInv'
  <2>1. /\ padding' = [padding EXCEPT ![b] = PaddingFor(b)] /\ PaddingFor(b) \in Seq(Descriptors)
        /\ attributes' = [attributes EXCEPT ![b] = "PciBus"]
    BY <1>9, PaddingFits DEF GetResourcePadding
  <2>2. state' = IF b \in Thunderbolt \cup {RootPort}
                 THEN [state EXCEPT ![b] = "enabled"] ELSE state
    BY <1>9 DEF GetResourcePadding
  <2>3. UNCHANGED <<firmware, bus, async, event, hpcState, fault>>
    BY <1>9 DEF GetResourcePadding
  <2>4. TypeOK'
    BY <2>1, <2>2, <2>3
  <2>5. Told'
    BY <2>1, <2>2, PaddingFits
  <2> QED BY <2>4, <2>5
<1>10. ASSUME NEW b \in Bridges, PaddingAllocFails(b)
       PROVE  BusInv'
  <2>1. padding' = [padding EXCEPT ![b] = <<>>] /\ padding[b] = NULL
    BY <1>10 DEF PaddingAllocFails
  <2>2. UNCHANGED <<firmware, bus, async, event, hpcState, state, attributes, fault>>
    BY <1>10 DEF PaddingAllocFails
  <2>3. TypeOK'
    BY <2>1, <2>2
  <2>4. state[b] # "enabled"
    BY <2>1, NullAssumption
  <2>5. Told'
    BY <2>1, <2>2, <2>4
  <2> QED BY <2>3, <2>5
<1>11. CASE UNCHANGED vars
  BY <1>11 DEF vars
<1> QED
  BY <1>1, <1>2, <1>3, <1>4, <1>5, <1>6, <1>7, <1>8, <1>9, <1>10, <1>11 DEF Next, Boot

\* Every variable keeps its type, whatever fails; in particular what
\* GetResourcePadding() hands out are descriptors, for any bridge.
THEOREM TypeCorrect == Spec => []TypeOK
<1>1. BusInv => TypeOK
  BY DEF BusInv
<1> QED BY <1>1, BusInit, BusStep, PTL DEF Spec

\* A bridge that GetResourcePadding() reports enabled has padding of the bus, and
\* the buffer had room for it, for any set of bridges.
THEOREM EnabledHasPaddingAlways == Spec => []EnabledHasPadding
<1>1. BusInv => EnabledHasPadding
  BY PaddingFits, NullAssumption DEF BusInv, Told, EnabledHasPadding
<1> QED BY <1>1, BusInit, BusStep, PTL DEF Spec
=============================================================================
