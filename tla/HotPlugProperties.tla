--------------------------- MODULE HotPlugProperties ---------------------------
(* What the hot-plug driver and the patcher must achieve by the time the   *)
(* bus driver or the operating system looks.                               *)
EXTENDS HotPlug

Descriptors == [type : {"mem", "io", "bus"}, flag : Nat, len : Nat, max : Nat]

TypeOK ==
  /\ phase \in {"dispatch", "bds", "os"} /\ ran \subseteq {"nvs", "patcher", "hotplug"}
  /\ there \subseteq {"nvsArea", "location", "hotPlugInit"}
  /\ area \in [{OSC, SRLD} -> {0, 1}]
  /\ bus \in {"off", "listing", "initializing", "signalled", "waiting", "padding", "done"}
  /\ async \in BOOLEAN /\ event \in BOOLEAN /\ hpcState \in {"unset", "initialized"}
  /\ state \in [Bridges -> {"unset", "enabled"}]
  /\ padding \in [Bridges -> Seq(Descriptors) \cup {NULL}]
  /\ attributes \in [Bridges -> {"unset", "PciBus"}]
  /\ fault \in BOOLEAN

\* What the drivers access is there, but for the settings that GetRootHpcList()
\* writes: they are missing if nobody has published them by then, because the
\* board has none or because the bus driver is connected that early.
NoFault ==
  fault => /\ bus = "listing" /\ ~published
           /\ "nvs" \in ran \/ phase = "dispatch"

\* The operating system finds both settings made: _OSC() offers hot plug if the
\* bus was enumerated with it, and the patcher has run if there is an area.
SettingsBeforeOs ==
  phase = "os" =>
    /\ published => area[SRLD] = 1
    /\ installed /\ hpcState = "initialized" => area[OSC] = 1

\* The list the bus driver is given names a location, whatever could not be
\* allocated when the driver was loaded.
ListHasLocation == bus \notin {"off", "done"} => location

\* What the bus driver takes padding from is what the driver set up: a bridge
\* that is reported enabled has padding, which the buffer had room for and which
\* is said to be padding of the bus; and a bridge that got descriptors is reported
\* enabled.  A bridge whose state is not written, though it should be (194), has
\* neither.
EnabledHasPadding ==
  \A b \in Bridges :
    /\ state[b] = "enabled" =>
         /\ padding[b] # NULL /\ Len(padding[b]) \in 1..PADDING_NUM
         /\ attributes[b] = "PciBus"
    /\ padding[b] \notin {NULL, <<>>} => state[b] = "enabled"

\* Waiting for the root controller does not keep the machine from booting,
\* whatever fails.
Boots == <>(phase = "os" \/ fault)

=============================================================================
