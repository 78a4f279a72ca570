------------------------ MODULE SubstitutesProperties ------------------------
(* What a call through a substitute must look like from its two ends.      *)
EXTENDS Substitutes, PciDxeShimProperties

Frames ==
  [ proto : {"rb", "ra"}, from : Controllers, substitute : IoBlocks \cup RaBlocks,
    service : IoServices \cup RaServices, stage : {"entered", "found", "called"},
    original : Controllers \cup HostBridges \cup {NULL}, answer : {"none", "ok", "err"} ]

\* The frames of the calls under way: a service of the protocol that was called,
\* and a status as soon as the original has returned, not before.
CallTypeOK ==
  /\ calls \in Seq(Frames)
  /\ \A i \in 1..Len(calls) :
       /\ calls[i].service \in ServicesOf(calls[i].proto)
       /\ calls[i].answer = "none" <=> calls[i].stage # "called"

\* What a function has looked up is right until it is used: however deep the
\* calls are nested, the bridge of each is held, through the substitute it came
\* in by; a search repeated now would still find what was found for it; and that
\* is the original of its bridge, or of its host bridge.  Only while the base
\* driver is starting the bridge may nothing have been found.
LookedUpHome ==
  \A i \in 1..Len(calls) :
    LET f == calls[i]
    IN  /\ IF f.proto = "rb" THEN f.substitute = held[f.from]
                             ELSE /\ i = 1 /\ pc = "enumerating" /\ f.from = ctl
                                  /\ f.substitute = mapping[held[ctl]].handle
                                  /\ f.substitute \in raIface
        /\ held[f.from] # NULL
        /\ f.stage # "entered" =>
             /\ f.original = Found(f).original
             /\ \/ f.original = IF f.proto = "rb" THEN f.from ELSE HostBridgeOf[f.from]
                \/ f.original = NULL /\ pc = "enumerating" /\ f.from = ctl

-----------------------------------------------------------------------------
\* The calls under way as their callers see them.
Unanswered ==
  [i \in 1..Len(calls) |-> [proto |-> calls[i].proto, from |-> calls[i].from,
                            service |-> calls[i].service, answer |-> calls[i].answer]]

Services == INSTANCE BridgeServices
              WITH Services <- ServicesOf, Args <- ArgsOf, pending <- Unanswered

\* A caller cannot tell a substitute from the original: each service is performed
\* once, by the protocol of the caller's own bridge, as asked for, and its status
\* is what the caller gets, with any calls of events in between.
IsTransparent == Services!Spec
=============================================================================
