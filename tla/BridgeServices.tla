---------------------------- MODULE BridgeServices ----------------------------
(* What a caller of a root bridge, or of its host bridge, may count on:    *)
(* the service it asked for is performed once, by the protocol of its own  *)
(* bridge, with the arguments it passed, before it gets that protocol's    *)
(* answer.  A caller may interrupt another one and is then answered first. *)
EXTENDS Naturals, Sequences

CONSTANTS
  Controllers, HostBridgeOf,
  Services(_),  \* the services of the protocol "rb" or "ra"
  Args(_)       \* the arguments of a call of a service

Answers == {"ok", "err"}

VARIABLES
  pending,  \* the calls that were made and not answered, the innermost last
  event     \* the last thing an original protocol, or a caller, has seen

vars == <<pending, event>>

Home(p, c) == IF p = "rb" THEN c ELSE HostBridgeOf[c]

Innermost == pending[Len(pending)]

Init == pending = <<>> /\ event = [kind |-> "none"]

Ask(p, c, s) ==
  /\ pending' = Append(pending, [proto |-> p, from |-> c, service |-> s, answer |-> "none"])
  /\ UNCHANGED event

Perform(a) ==
  /\ pending # <<>> /\ Innermost.answer = "none"
  /\ LET home == Home(Innermost.proto, Innermost.from)
         s    == Innermost.service
     IN  event' = [kind |-> "performed", at |-> home, this |-> home,
                   service |-> s, args |-> Args(s)]
  /\ pending' = [pending EXCEPT ![Len(pending)].answer = a]

Answer ==
  /\ pending # <<>> /\ Innermost.answer \in Answers
  /\ event' = [kind |-> "answered", to |-> Innermost.from,
               service |-> Innermost.service, answer |-> Innermost.answer]
  /\ pending' = SubSeq(pending, 1, Len(pending) - 1)

Next ==
  \/ \E p \in {"rb", "ra"}, c \in Controllers : \E s \in Services(p) : Ask(p, c, s)
  \/ \E a \in Answers : Perform(a)
  \/ Answer

Spec == Init /\ [][Next]_vars
=============================================================================
