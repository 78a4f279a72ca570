--------------------------- MODULE GuidSubProperties ---------------------------
(* What guidsub must do, against a definition of substitution that says    *)
(* nothing of windows or of the order they are looked at.                  *)
EXTENDS GuidSub

\* The buffer keeps the size of the file, and the window stays on it.
TypeOK ==
  /\ disk \in Seq(Byte) /\ before \in Seq(Byte) /\ buffer \in Seq(Byte)
  /\ pc \in {"shell", "reading", "scanning", "creating", "writing", "closing"}
  /\ original \in Guid \cup {<<>>} /\ new \in Guid \cup {<<>>}
  /\ pc # "shell" => original \in Guid /\ new \in Guid
  /\ pos \in 0..IntMax /\ runs \in 0..MaxRuns
  /\ pc \in {"scanning", "creating", "writing", "closing"} =>
       Len(buffer) = Len(before) /\ (pos = 0 \/ pos + W <= Len(buffer))
  /\ substituted \in BOOLEAN /\ fault \in BOOLEAN
  /\ ret \in {"none", "success", "notFound", "failed", "killed"}

\* Where the GUID g begins in s, below m.
Occurrences(s, g, m) ==
  {p \in 0..(m - 1) : p + W <= Len(s) /\ \A k \in 1..W : s[p + k] = g[k]}

\* H picks disjoint members of S from the left: each one it leaves out is
\* overlapped by one it took before.
Leftmost(H, S) ==
  /\ \A p, q \in H : p < q => p + W <= q
  /\ \A p \in S : \E h \in H : h <= p /\ p < h + W

\* t is s with g at the places in H.
Overlaid(t, s, H, g) ==
  /\ Len(t) = Len(s)
  /\ \A h \in H : \A k \in 1..W : t[h + k] = g[k]
  /\ \A i \in 1..Len(s) : (\A h \in H : i \notin (h + 1)..(h + W)) => t[i] = s[i]

\* t is s with the occurrences of o that begin below m replaced by n.
Substitution(t, s, o, n, m) ==
  LET S == Occurrences(s, o, m)
  IN  \E H \in SUBSET S : Leftmost(H, S) /\ Overlaid(t, s, H, n)

\* No end of a is a beginning of b, other than all of it.  For two GUIDs this
\* is what one expects; without it replacing one occurrence can make another.
Apart(a, b) == \A j \in 1..(W - 1) : \E k \in 1..j : a[W - j + k] # b[k]

\* How far a scan of s goes: the window at the very end is never looked at.
Reach(s) == Len(s) - W

-----------------------------------------------------------------------------
\* The scan replaces what occurs in the file as it was read, and nothing
\* else, though it compares with a buffer it has already changed.
ScanSubstitutes ==
  pc \in {"scanning", "creating", "writing", "closing"} /\ Apart(new, original) =>
    /\ Substitution(buffer, before, original, new, pos)
    /\ substituted <=> Occurrences(before, original, pos) # {}

\* Between runs the file is what the message of the last run says: replaced
\* as far as the scan reaches, unless fclose() cut it short, or as it was.
OutcomeMatchesDisk ==
  pc = "shell" =>
    CASE ret = "success" ->
           Len(disk) = Len(before) /\ Apart(new, original) =>
             Substitution(disk, before, original, new, Reach(before))
      [] ret = "notFound" ->
           disk = before /\ Occurrences(before, original, Reach(before)) = {}
      [] ret = "none" -> disk = before
      [] OTHER -> substituted \/ disk = before

Beginning(s, t) == Len(s) <= Len(t) /\ s = SubSeq(t, 1, Len(s))

\* Whatever fails, and whenever the tool is killed, the file is the old one or
\* a beginning of the new one.
OldOrBeginningOfNew ==
  runs > 0 =>
    \/ disk = before
    \/ /\ pc \in {"writing", "closing", "shell"} /\ substituted
       /\ Beginning(disk, buffer)

\* The tool leaves its buffer only where there was no memory for it, or where the
\* bound of the scan has wrapped around: the file is shorter than a GUID; and its
\* position overflows only in a file with more windows than an int can count.
FaultsOnlyWhere ==
  fault => \/ pc = "reading" /\ May("Malloc")
           \/ pc = "scanning" /\ (Len(before) < W \/ Len(before) > IntMax + W)

\* The same substitution does not succeed twice in a row.
RerunFindsNothing ==
  ~ /\ pc = "shell" /\ ret = "success" /\ prior.ret = "success"
    /\ original = prior.original /\ new = prior.new /\ new # original
    /\ Apart(original, new) /\ Apart(new, original)

\* Substituting back restores the file, if the new GUID was not in it before
\* and nothing was cut off.
BackAndForth ==
  /\ pc = "shell" /\ ret = "success" /\ prior.ret = "success"
  /\ original = prior.new /\ new = prior.original
  /\ Apart(original, original) /\ Apart(original, new) /\ Apart(new, original)
  /\ Len(disk) = Len(prior.before)
  /\ Occurrences(prior.before, original, Reach(prior.before)) = {}
  => disk = prior.before

\* The scan would find nothing to replace.
Gone(s, g) == Occurrences(s, g, Reach(s)) = {}

\* A run that says it has replaced a GUID, or found none, leaves none behind; and
\* another GUID that is not in the file, as one replaced by a run before, does
\* not come back, however the run ends.
AllRenamed ==
  pc = "shell" /\ original # <<>> /\ Apart(new, original) =>
    /\ ret = "notFound" \/ (ret = "success" /\ new # original /\ Apart(original, new)) =>
         Gone(disk, original)
    /\ \A g \in Guid :
         new # g /\ Apart(g, new) /\ Apart(new, g) /\ Gone(before, g) => Gone(disk, g)

\* Until the scan has found something the file is as it was: the tool may fail
\* or be killed without harm.
Untouched ==
  /\ pc \in {"reading", "scanning", "creating"} => disk = before
  /\ pc = "reading" => substituted = FALSE

\* Every run ends, whatever fails, unless there is such a fault.
RunsEnd == pc # "shell" ~> pc = "shell" \/ fault

\* "GUID not found in source file" (guidsub.c:135).
NotFoundMeansAbsent ==
  pc = "shell" /\ ret = "notFound" => Occurrences(before, original, Len(before)) = {}

=============================================================================
