----------------------------- MODULE GuidSubProofs -----------------------------
(* Theorems about guidsub, for windows, files and GUIDs of any size.       *)
EXTENDS GuidSubProperties, SequenceTheorems, TLAPS

-----------------------------------------------------------------------------
(* The byte order.                                                         *)

LEMMA SwappedInside ==
  ASSUME NEW i \in 1..W
  PROVE  Swapped(i) \in 1..W /\ Swapped(Swapped(i)) = i
  BY SizeAssumption, SMT DEF Swapped, Mirror

\* Converting a GUID gives a GUID, and converting it again gives it back: the
\* bytes in the file determine the GUID on the command line, uuid_fix_endianness().
THEOREM FixEndiannessInvolutive ==
  ASSUME NEW g \in Guid
  PROVE  /\ uuid_fix_endianness(g) \in Guid
         /\ uuid_fix_endianness(uuid_fix_endianness(g)) = g
<1> DEFINE f == uuid_fix_endianness(g)
<1>1. f \in Guid
  BY SwappedInside DEF uuid_fix_endianness, Guid
<1>2. \A i \in 1..W : uuid_fix_endianness(f)[i] = g[i]
  <2> TAKE i \in 1..W
  <2>1. uuid_fix_endianness(f)[i] = f[Swapped(i)]
    BY DEF uuid_fix_endianness
  <2>2. f[Swapped(i)] = g[Swapped(Swapped(i))]
    BY SwappedInside DEF uuid_fix_endianness
  <2> QED BY <2>1, <2>2, SwappedInside
<1>3. uuid_fix_endianness(f) \in Guid
  BY <1>1, SwappedInside DEF uuid_fix_endianness, Guid
<1>4. uuid_fix_endianness(f) = [i \in 1..W |-> uuid_fix_endianness(f)[i]]
  BY DEF uuid_fix_endianness
<1>5. g = [i \in 1..W |-> g[i]]
  BY DEF Guid
<1>6. uuid_fix_endianness(f) = g
  BY <1>2, <1>4, <1>5, Zenon
<1> QED BY <1>1, <1>6

-----------------------------------------------------------------------------
(* Types.                                                                  *)

LEMMA FunctionIsSeq ==
  ASSUME NEW S, NEW n \in Nat, NEW f \in [1..n -> S]
  PROVE  f \in Seq(S) /\ Len(f) = n
  BY IsASeq

LEMMA BeginningType ==
  ASSUME NEW S, NEW s \in Seq(S), NEW n \in 0..Len(s)
  PROVE  SubSeq(s, 1, n) \in Seq(S)
  BY SubSeqProperties

LEMMA ReplacedType ==
  ASSUME TypeOK, pc = "scanning", pos + W <= Len(buffer)
  PROVE  Replaced \in Seq(Byte) /\ Len(Replaced) = Len(buffer)
<1>1. Replaced \in [1..Len(buffer) -> Byte]
  BY SizeAssumption DEF Replaced, TypeOK, Guid
<1>2. Len(buffer) \in Nat
  BY DEF TypeOK
<1> QED BY <1>1, <1>2, FunctionIsSeq

LEMMA ScanStaysInside ==
  ASSUME TypeOK, Scanning, pos + W <= Len(buffer)
  PROVE  pos + 1 + W <= Len(buffer)
  BY SizeAssumption DEF Scanning, LoopBound, TypeOK

TypeInv == TypeOK /\ Untouched

LEMMA TypeInit == Init => TypeInv
<1> SUFFICES ASSUME Init PROVE TypeInv
  OBVIOUS
<1>1. disk \in Seq(Byte) /\ buffer \in Seq(Byte)
  BY FileAssumption DEF Init
<1>2. runs \in 0..MaxRuns
  BY RunAssumption DEF Init
<1>3. 0 \in 0..IntMax
  BY SizeAssumption
<1> QED BY <1>1, <1>2, <1>3 DEF Init, TypeInv, TypeOK, Untouched

LEMMA TypeStep == TypeInv /\ [Next]_vars => TypeInv'
<1> SUFFICES ASSUME TypeInv, [Next]_vars PROVE TypeInv'
  OBVIOUS
<1> USE DEF run, past, vars, Exit, TypeInv, Untouched
<1>1. CASE Refuse
  BY <1>1, RunAssumption DEF Refuse, TypeOK
<1>2. ASSUME NEW job \in Jobs, Begin(job[1], job[2]) PROVE TypeInv'
  <2>1. job[1] \in Guid /\ job[2] \in Guid
    BY JobAssumption
  <2>2. original' \in Guid /\ new' \in Guid
    BY <1>2, <2>1, FixEndiannessInvolutive DEF Begin
  <2>3. /\ substituted' \in BOOLEAN /\ before' = disk /\ pc' = "reading" /\ ret' = "none"
        /\ runs < MaxRuns /\ runs' = runs + 1 /\ UNCHANGED <<disk, buffer, pos, fault>>
    BY <1>2 DEF Begin
  <2>4. TypeOK'
    BY <2>2, <2>3, RunAssumption, SizeAssumption DEF TypeOK
  <2>5. Untouched'
    BY <1>2 DEF Begin
  <2> QED BY <2>4, <2>5
<1>3. CASE Read
  BY <1>3, SizeAssumption DEF Read, TypeOK
<1>4. CASE ScanMiss
  <2>1. pos + 1 \in 0..IntMax /\ pos + 1 + W <= Len(buffer)
    BY <1>4, ScanStaysInside, SizeAssumption DEF ScanMiss, AtWindow, TypeOK
  <2> QED BY <1>4, <2>1 DEF ScanMiss, AtWindow, Scanning, TypeOK
<1>5. CASE ScanHit
  <2>1. buffer' \in Seq(Byte) /\ Len(buffer') = Len(buffer)
    BY <1>5, ReplacedType DEF ScanHit, AtWindow, Scanning
  <2>2. pos + 1 \in 0..IntMax /\ pos + 1 + W <= Len(buffer)
    BY <1>5, ScanStaysInside, SizeAssumption DEF ScanHit, AtWindow, TypeOK
  <2> QED BY <1>5, <2>1, <2>2 DEF ScanHit, AtWindow, Scanning, TypeOK
<1>6. CASE Create
  BY <1>6 DEF Create, TypeOK
<1>7. CASE WriteFails \/ Write
  <2>1. disk' \in Seq(Byte)
    BY <1>7, BeginningType DEF WriteFails, Write, Partial, TypeOK
  <2> QED BY <1>7, <2>1 DEF WriteFails, Write, TypeOK
<1>8. CASE Close
  BY <1>8 DEF Close, TypeOK
<1>9. CASE \/ ReadFails \/ MallocFails \/ ScanOverrun \/ ScanOverflow \/ ScanEnd
           \/ CreateFails \/ CloseFails \/ Kill
  BY <1>9 DEF ReadFails, MallocFails, ScanOverrun, ScanOverflow, ScanEnd, CreateFails, CloseFails,
     Kill, Scanning, TypeOK
<1>10. CASE UNCHANGED vars
  BY <1>10 DEF TypeOK
<1> QED
  BY <1>1, <1>2, <1>3, <1>4, <1>5, <1>6, <1>7, <1>8, <1>9, <1>10 DEF Next, Tool

\* Every variable keeps its type, the buffer the size of the file, and the
\* window stays on it: what the scan loop of main() reads is in the buffer.
THEOREM TypeCorrect == Spec => []TypeOK
<1>1. TypeInv => TypeOK
  BY DEF TypeInv
<1> QED BY <1>1, TypeInit, TypeStep, PTL DEF Spec

\* What main() reads beyond its buffer is the first window of a file shorter than
\* a GUID, or a buffer that malloc() has not given it; no window of any other file.
\* And pos overflows in a file of more than INT_MAX windows only.
THEOREM FaultsOnlyWhereAlways == Spec => []FaultsOnlyWhere
<1>1. Init => FaultsOnlyWhere
  BY DEF Init, FaultsOnlyWhere
<1>2. TypeInv /\ FaultsOnlyWhere /\ [Next]_vars => FaultsOnlyWhere'
  <2> SUFFICES ASSUME TypeInv, FaultsOnlyWhere, [Next]_vars, fault'
               PROVE  \/ pc' = "reading" /\ May("Malloc")
                      \/ pc' = "scanning" /\ (Len(before') < W \/ Len(before') > IntMax + W)
    BY DEF FaultsOnlyWhere
  <2>1. CASE UNCHANGED vars
    BY <2>1 DEF vars, past, FaultsOnlyWhere
  <2>2. CASE MallocFails
    BY <2>2 DEF MallocFails
  <2>3. CASE ScanOverrun
    <3>1. pc' = "scanning" /\ before' = before /\ pos + W > Len(buffer) /\ pc = "scanning"
      BY <2>3 DEF ScanOverrun, Scanning, past
    <3>2. Len(buffer) = Len(before) /\ (pos = 0 \/ pos + W <= Len(buffer)) /\ buffer \in Seq(Byte)
      BY <3>1 DEF TypeInv, TypeOK
    <3>3. pos \in Nat /\ Len(buffer) \in Nat
      BY <3>2 DEF TypeInv, TypeOK
    <3>4. Len(before) < W
      BY <3>1, <3>2, <3>3, SizeAssumption
    <3> QED BY <3>1, <3>4
  <2>5. CASE ScanOverflow
    <3>1. /\ pc' = "scanning" /\ before' = before /\ pc = "scanning"
          /\ pos = IntMax /\ pos + W <= Len(buffer) /\ pos < LoopBound
      BY <2>5 DEF ScanOverflow, Scanning, past
    <3>2. Len(buffer) = Len(before) /\ Len(buffer) \in Nat
      BY <3>1 DEF TypeInv, TypeOK
    <3> QED BY <3>1, <3>2, SizeAssumption DEF LoopBound
  <2>4. CASE Next /\ ~MallocFails /\ ~ScanOverrun /\ ~ScanOverflow
    BY <2>4 DEF Next, Tool, Refuse, Begin, ReadFails, Read, ScanMiss, ScanHit, ScanEnd, CreateFails,
       Create, WriteFails, Write, Close, CloseFails, Kill
  <2> QED BY <2>1, <2>2, <2>3, <2>4, <2>5
<1> QED BY <1>1, <1>2, TypeInit, TypeStep, PTL DEF Spec

-----------------------------------------------------------------------------
(* The scan.  It compares with a buffer it has written to, so what matters *)
(* is that a window that overlaps a replacement can never match.           *)

\* The occurrences replaced so far.
Done(H) ==
  LET S == Occurrences(before, original, pos)
  IN  H \in SUBSET S /\ Leftmost(H, S) /\ Overlaid(buffer, before, H, new)

LEMMA MatchIsNewOccurrence ==
  ASSUME TypeInv, Scanning, pos + W <= Len(buffer), Apart(new, original), NEW H, Done(H)
  PROVE  Matches <=> /\ pos \in Occurrences(before, original, pos + 1)
                     /\ \A h \in H : h + W <= pos
<1> USE SizeAssumption DEF TypeInv, TypeOK, Scanning
<1>1. /\ \A h \in H : h \in Nat /\ h < pos
      /\ \A h \in H : \A k \in 1..W : buffer[h + k] = new[k]
      /\ \A i \in 1..Len(before) : (\A h \in H : i \notin (h + 1)..(h + W)) => buffer[i] = before[i]
      /\ Len(buffer) = Len(before)
  BY DEF Done, Overlaid, Occurrences
<1>2. CASE \A h \in H : h + W <= pos
  <2>1. \A k \in 1..W : buffer[pos + k] = before[pos + k]
    <3> TAKE k \in 1..W
    <3>1. pos + k \in 1..Len(before)
      BY <1>1
    <3>2. \A h \in H : pos + k \notin (h + 1)..(h + W)
      BY <1>1, <1>2
    <3> QED BY <1>1, <3>1, <3>2
  <2>2. pos \in 0..(pos + 1 - 1) /\ pos + W <= Len(before)
    BY <1>1
  <2>3. Matches <=> \A k \in 1..W : before[pos + k] = original[k]
    BY <2>1 DEF Matches
  <2> QED BY <1>2, <2>2, <2>3 DEF Occurrences
<1>3. CASE \E h \in H : ~ h + W <= pos
  <2>1. PICK h \in H : pos < h + W
    BY <1>1, <1>3
  <2> DEFINE j == h + W - pos
  <2>2. h \in Nat /\ j \in 1..(W - 1)
    BY <1>1, <2>1
  <2>3. PICK k \in 1..j : new[W - j + k] # original[k]
    BY <2>2 DEF Apart
  <2>4. W - j + k \in 1..W /\ h + (W - j + k) = pos + k /\ k \in 1..W
    BY <2>2
  <2>5. buffer[pos + k] = new[W - j + k]
    BY <1>1, <2>4
  <2>6. ~ Matches
    BY <2>3, <2>4, <2>5 DEF Matches
  <2> QED BY <1>3, <2>6
<1> QED BY <1>2, <1>3

LEMMA OccurrencesNext ==
  ASSUME NEW s, NEW g, NEW m \in Nat
  PROVE  /\ Occurrences(s, g, m) \subseteq Occurrences(s, g, m + 1)
         /\ \A p \in Occurrences(s, g, m + 1) : p \in Occurrences(s, g, m) \/ p = m
         /\ \A p \in Occurrences(s, g, m) : p \in Nat /\ p < m
  BY DEF Occurrences

LEMMA ScanMissSubstitutes ==
  ASSUME TypeInv, ScanMiss, Apart(new, original), ScanSubstitutes
  PROVE  ScanSubstitutes'
<1> USE DEF TypeInv, TypeOK
<1>1. Scanning /\ pc = "scanning" /\ ~Matches /\ pos + W <= Len(buffer) /\ pos' = pos + 1
      /\ UNCHANGED <<buffer, before, original, new, substituted>>
  BY DEF ScanMiss, AtWindow, Scanning, past
<1> DEFINE S == Occurrences(before, original, pos)
           T == Occurrences(before, original, pos + 1)
<1>2. PICK H \in SUBSET S : Done(H)
  BY <1>1 DEF ScanSubstitutes, Substitution, Done
<1>3. Leftmost(H, S) /\ Overlaid(buffer, before, H, new)
  BY <1>2 DEF Done
<1>4. S \subseteq T /\ (\A p \in T : p \in S \/ p = pos) /\ (\A p \in S : p \in Nat /\ p < pos)
  BY OccurrencesNext
<1>5. pos \in T => \E h \in H : h <= pos /\ pos < h + W
  BY <1>1, <1>2, <1>4, MatchIsNewOccurrence, SizeAssumption
<1>6. Leftmost(H, T)
  BY <1>3, <1>4, <1>5 DEF Leftmost
<1>7. Substitution(buffer, before, original, new, pos + 1)
  BY <1>3, <1>4, <1>6 DEF Substitution
<1>8. T # {} <=> S # {}
  BY <1>4, <1>5
<1>9. substituted <=> S # {}
  BY <1>1 DEF ScanSubstitutes
<1> QED BY <1>1, <1>7, <1>8, <1>9 DEF ScanSubstitutes

LEMMA ScanHitSubstitutes ==
  ASSUME TypeInv, ScanHit, Apart(new, original), ScanSubstitutes
  PROVE  ScanSubstitutes'
<1> USE SizeAssumption DEF TypeInv, TypeOK
<1>1. Scanning /\ pc = "scanning" /\ Matches /\ pos + W <= Len(buffer) /\ pos' = pos + 1
      /\ buffer' = Replaced /\ substituted' = TRUE /\ UNCHANGED <<before, original, new>>
  BY DEF ScanHit, AtWindow, Scanning, past
<1> DEFINE S == Occurrences(before, original, pos)
           T == Occurrences(before, original, pos + 1)
<1>2. PICK H \in SUBSET S : Done(H)
  BY <1>1 DEF ScanSubstitutes, Substitution, Done
<1>3. Leftmost(H, S) /\ Overlaid(buffer, before, H, new)
  BY <1>2 DEF Done
<1>4. S \subseteq T /\ (\A p \in T : p \in S \/ p = pos) /\ (\A p \in S : p \in Nat /\ p < pos)
  BY OccurrencesNext
<1>5. pos \in T /\ \A h \in H : h + W <= pos
  BY <1>1, <1>2, MatchIsNewOccurrence
<1> DEFINE K == H \cup {pos}
<1>6. K \in SUBSET T
  BY <1>4, <1>5
<1>7. Leftmost(K, T)
  <2>1. \A p, q \in K : p < q => p + W <= q
    BY <1>3, <1>4, <1>5 DEF Leftmost
  <2>2. pos <= pos /\ pos < pos + W /\ pos \in K
    OBVIOUS
  <2>3. \A p \in S : \E h \in K : h <= p /\ p < h + W
    BY <1>3 DEF Leftmost
  <2>4. \A p \in T : \E h \in K : h <= p /\ p < h + W
    <3> TAKE p \in T
    <3>1. CASE p \in S
      BY <2>3, <3>1
    <3>2. CASE p = pos
      BY <2>2, <3>2
    <3> QED BY <1>4, <3>1, <3>2
  <2> QED BY <2>1, <2>4, Zenon DEF Leftmost
<1>8. Len(Replaced) = Len(before)
  BY <1>1, <1>3, ReplacedType DEF Overlaid
<1>9. \A i \in 1..Len(buffer) :
        Replaced[i] = IF i \in (pos + 1)..(pos + W) THEN new[i - pos] ELSE buffer[i]
  BY DEF Replaced
<1>10. Overlaid(Replaced, before, K, new)
  <2>1. \A h \in K : \A k \in 1..W : Replaced[h + k] = new[k]
    <3> TAKE h \in K
    <3> TAKE k \in 1..W
    <3>1. CASE h = pos
      BY <1>1, <1>9, <3>1
    <3>2. CASE h \in H
      <4>1. h \in Nat /\ h + k \in 1..Len(buffer) /\ h + k \notin (pos + 1)..(pos + W)
        BY <1>1, <1>4, <1>5, <3>2
      <4>2. buffer[h + k] = new[k]
        BY <1>3, <3>2 DEF Overlaid
      <4> QED BY <1>9, <4>1, <4>2
    <3> QED BY <3>1, <3>2
  <2>2. ASSUME NEW i \in 1..Len(before), \A h \in K : i \notin (h + 1)..(h + W)
        PROVE  Replaced[i] = before[i]
    <3>1. i \in 1..Len(buffer) /\ i \notin (pos + 1)..(pos + W)
      BY <1>3, <2>2 DEF Overlaid
    <3>2. buffer[i] = before[i]
      BY <1>3, <2>2 DEF Overlaid
    <3> QED BY <1>9, <3>1, <3>2
  <2> QED BY <1>8, <2>1, <2>2 DEF Overlaid
<1>11. Substitution(Replaced, before, original, new, pos + 1)
  BY <1>6, <1>7, <1>10 DEF Substitution
<1> QED BY <1>1, <1>5, <1>11 DEF ScanSubstitutes

LEMMA ReadSubstitutes ==
  ASSUME TypeInv, Read
  PROVE  ScanSubstitutes'
<1> USE DEF TypeInv, TypeOK, Untouched
<1>1. buffer' = before /\ before' = before /\ original' = original /\ new' = new
      /\ pos' = 0 /\ substituted' = FALSE
  BY DEF Read, past
<1>2. Occurrences(before, original, 0) = {}
  BY DEF Occurrences
<1>3. Leftmost({}, {}) /\ Overlaid(before, before, {}, new)
  BY DEF Leftmost, Overlaid
<1>4. Substitution(before, before, original, new, 0)
  BY <1>2, <1>3 DEF Substitution
<1> QED BY <1>1, <1>2, <1>4 DEF ScanSubstitutes

LEMMA SubstitutesStep == TypeInv /\ ScanSubstitutes /\ [Next]_vars => ScanSubstitutes'
<1> SUFFICES ASSUME TypeInv, ScanSubstitutes, [Next]_vars PROVE ScanSubstitutes'
  OBVIOUS
<1> USE DEF run, past, vars, Exit
<1>1. CASE Read
  BY <1>1, ReadSubstitutes
<1>2. CASE ScanMiss
  <2>1. CASE Apart(new, original)
    BY <1>2, <2>1, ScanMissSubstitutes
  <2>2. CASE ~Apart(new, original)
    BY <1>2, <2>2 DEF ScanMiss, ScanSubstitutes, Apart
  <2> QED BY <2>1, <2>2
<1>3. CASE ScanHit
  <2>1. CASE Apart(new, original)
    BY <1>3, <2>1, ScanHitSubstitutes
  <2>2. CASE ~Apart(new, original)
    BY <1>3, <2>2 DEF ScanHit, ScanSubstitutes, Apart
  <2> QED BY <2>1, <2>2
<1>4. CASE Refuse \/ (\E job \in Jobs : Begin(job[1], job[2])) \/ ReadFails \/ CreateFails
           \/ WriteFails \/ Close \/ CloseFails \/ Kill
  BY <1>4 DEF Refuse, Begin, ReadFails, CreateFails, WriteFails, Close, CloseFails, Kill,
       ScanSubstitutes
<1>5. ASSUME UNCHANGED <<run, before>>, pc' = pc \/ pc \in {"scanning", "creating", "writing"}
      PROVE  ScanSubstitutes'
  BY <1>5 DEF ScanSubstitutes
<1>6. CASE MallocFails \/ ScanOverrun \/ ScanOverflow \/ ScanEnd \/ Create \/ Write
  BY <1>5, <1>6 DEF MallocFails, ScanOverrun, ScanOverflow, ScanEnd, Create, Write
<1>7. CASE UNCHANGED vars
  BY <1>5, <1>7
<1> QED
  BY <1>1, <1>2, <1>3, <1>4, <1>6, <1>7 DEF Next, Tool

\* The scan of main() replaces, from the left, the disjoint occurrences of the
\* original GUID in the file as it was read, and nothing else, unless an end of
\* the new GUID is a beginning of the original one.
THEOREM ScanSubstitutesAlways == Spec => []ScanSubstitutes
<1>1. Init => ScanSubstitutes
  BY DEF Init, ScanSubstitutes
<1> QED BY <1>1, TypeInit, TypeStep, SubstitutesStep, PTL DEF Spec

-----------------------------------------------------------------------------
(* The file, when something fails.                                         *)

\* Only a run that has found something touches the file.
WritingInv ==
  /\ OldOrBeginningOfNew
  /\ pc # "shell" => runs > 0
  /\ pc \in {"creating", "writing", "closing"} => substituted
  /\ pc \in {"writing", "closing"} => Beginning(disk, buffer)

LEMMA PartialIsBeginning ==
  ASSUME TypeOK, NEW n \in 0..Len(buffer), Partial(n)
  PROVE  Beginning(disk', buffer)
<1>1. Len(SubSeq(buffer, 1, n)) = n
  BY SubSeqProperties DEF TypeOK
<1> QED BY <1>1 DEF Partial, Beginning, TypeOK

LEMMA WritingStep == TypeInv /\ WritingInv /\ [Next]_vars => WritingInv'
<1> SUFFICES ASSUME TypeInv, WritingInv, [Next]_vars PROVE WritingInv'
  OBVIOUS
<1> USE DEF run, past, vars, Exit, TypeInv, Untouched, WritingInv, OldOrBeginningOfNew
<1>1. CASE Refuse \/ (\E job \in Jobs : Begin(job[1], job[2]))
  BY <1>1 DEF Refuse, Begin, TypeOK
<1>2. CASE Read \/ ScanMiss \/ ScanHit \/ ScanOverrun \/ ScanOverflow
  BY <1>2 DEF Read, ScanMiss, ScanHit, ScanOverrun, ScanOverflow, AtWindow, Scanning
<1>3. CASE ReadFails \/ MallocFails \/ ScanEnd \/ CreateFails \/ CloseFails \/ Kill
  BY <1>3 DEF ReadFails, MallocFails, ScanEnd, CreateFails, CloseFails, Kill
<1>4. CASE Create
  <2>1. Beginning(disk', buffer)
    BY <1>4, SubSeqProperties DEF Create, TypeOK, Beginning
  <2> QED BY <1>4, <2>1 DEF Create
<1>5. CASE WriteFails \/ Write
  <2>1. Beginning(disk', buffer)
    BY <1>5, PartialIsBeginning DEF WriteFails, Write
  <2> QED BY <1>5, <2>1 DEF WriteFails, Write
<1>6. CASE Close
  <2>1. Beginning(disk', buffer)
    BY <1>6, SubSeqProperties DEF Close, TypeOK, Beginning
  <2> QED BY <1>6, <2>1 DEF Close
<1>7. CASE UNCHANGED vars
  BY <1>7
<1> QED BY <1>1, <1>2, <1>3, <1>4, <1>5, <1>6, <1>7 DEF Next, Tool

\* Whatever fails in main(), and whenever the process is killed, the file is
\* the one the run found or a beginning of the one it was to write.
THEOREM OldOrBeginningOfNewAlways == Spec => []OldOrBeginningOfNew
<1>1. Init => WritingInv
  BY DEF Init, WritingInv, OldOrBeginningOfNew
<1>2. WritingInv => OldOrBeginningOfNew
  BY DEF WritingInv
<1> QED BY <1>1, <1>2, TypeInit, TypeStep, WritingStep, PTL DEF Spec

-----------------------------------------------------------------------------
(* What the last run says of the file.                                     *)

OutcomeInv ==
  /\ OutcomeMatchesDisk
  /\ pc \in {"creating", "writing", "closing"} => pos = Reach(before)
  /\ pc = "scanning" /\ substituted = FALSE =>
       buffer = before /\ Occurrences(before, original, pos) = {}

LEMMA FailureOutcome ==
  ASSUME pc' = "shell", ret' \in {"failed", "killed"}, substituted' \/ disk' = before'
  PROVE  OutcomeMatchesDisk'
  BY DEF OutcomeMatchesDisk

\* The scan of a file that is not shorter than a GUID ends at Reach(before),
\* that of a shorter one does not end.
LEMMA ScanEndsAtReach ==
  ASSUME TypeInv, ScanEnd
  PROVE  pos = Reach(before)
  BY SizeAssumption DEF TypeInv, TypeOK, ScanEnd, LoopBound, Reach

LEMMA ScanEndOutcome ==
  ASSUME TypeInv, OutcomeInv, ScanEnd
  PROVE  OutcomeInv'
<1> USE DEF run, past, Exit
<1>1. pos = Reach(before) /\ pos' = pos /\ before' = before /\ original' = original /\ disk' = disk
  BY ScanEndsAtReach DEF ScanEnd
<1>2. CASE substituted
  <2>1. pc' = "creating"
    BY <1>2 DEF ScanEnd
  <2> QED BY <1>1, <2>1 DEF OutcomeInv, OutcomeMatchesDisk, Reach
<1>3. CASE ~substituted
  <2>1. pc' = "shell" /\ ret' = "notFound" /\ disk = before
    BY <1>3 DEF ScanEnd, TypeInv, Untouched
  <2>2. Occurrences(before, original, Reach(before)) = {}
    BY <1>1, <1>3 DEF OutcomeInv, ScanEnd
  <2>3. Occurrences(before', original', Reach(before')) = {}
    BY <1>1, <2>2
  <2> QED BY <1>1, <2>1, <2>3 DEF OutcomeInv, OutcomeMatchesDisk
<1> QED BY <1>2, <1>3

LEMMA ScanMissOutcome ==
  ASSUME TypeInv, OutcomeInv, ScanMiss
  PROVE  OutcomeInv'
<1> USE DEF run, past, TypeInv, TypeOK
<1>1. /\ pc = "scanning" /\ pc' = "scanning" /\ pos' = pos + 1 /\ ~Matches
      /\ UNCHANGED <<buffer, before, original, substituted>>
  BY DEF ScanMiss, AtWindow, Scanning
<1>2. ASSUME buffer = before, Occurrences(before, original, pos) = {}
      PROVE  Occurrences(before, original, pos + 1) = {}
  <2>1. \A p \in Occurrences(before, original, pos + 1) :
          p \in Occurrences(before, original, pos) \/ p = pos
    BY OccurrencesNext
  <2>2. pos \notin Occurrences(before, original, pos + 1)
    BY <1>1, <1>2 DEF Occurrences, Matches
  <2> QED BY <1>2, <2>1, <2>2
<1>3. pc' = "scanning" /\ substituted' = FALSE =>
        buffer' = before' /\ Occurrences(before', original', pos') = {}
  BY <1>1, <1>2 DEF OutcomeInv
<1> QED BY <1>1, <1>3 DEF OutcomeInv, OutcomeMatchesDisk

\* fclose() has written all of the buffer, or some of it.
LEMMA CloseOutcome ==
  ASSUME TypeInv, ScanSubstitutes, WritingInv, OutcomeInv, Close \/ CloseFails
  PROVE  OutcomeInv'
<1> USE DEF run, past, TypeInv, TypeOK, Exit
<1>1. /\ pc = "closing" /\ pc' = "shell" /\ ret' = "success"
      /\ UNCHANGED <<buffer, before, original, new>>
  BY DEF Close, CloseFails
<1>2. ASSUME Len(disk') = Len(before) PROVE disk' = buffer
  <2>1. CASE Close
    BY <2>1 DEF Close
  <2>2. CASE CloseFails
    BY <1>2, <2>2, SubSeqProperties DEF CloseFails, WritingInv, Beginning
  <2> QED BY <2>1, <2>2
<1>3. ASSUME Len(disk') = Len(before), Apart(new, original)
      PROVE  Substitution(disk', before, original, new, Reach(before))
  BY <1>1, <1>2, <1>3 DEF ScanSubstitutes, OutcomeInv
<1> QED BY <1>1, <1>3 DEF OutcomeInv, OutcomeMatchesDisk, Apart, Reach

LEMMA OutcomeStep ==
  TypeInv /\ ScanSubstitutes /\ WritingInv /\ OutcomeInv /\ [Next]_vars => OutcomeInv'
<1> SUFFICES ASSUME TypeInv, ScanSubstitutes, WritingInv, OutcomeInv, [Next]_vars
             PROVE  OutcomeInv'
  OBVIOUS
<1> USE DEF run, past, vars, Exit, TypeInv, Untouched
<1>1. CASE Refuse
  BY <1>1, FailureOutcome DEF Refuse, OutcomeInv
<1>2. CASE (\E job \in Jobs : Begin(job[1], job[2])) \/ MallocFails
  BY <1>2 DEF Begin, MallocFails, OutcomeInv, OutcomeMatchesDisk
<1>3. CASE Read
  <2>1. Occurrences(before, original, 0) = {}
    BY DEF Occurrences
  <2> QED BY <1>3, <2>1 DEF Read, OutcomeInv, OutcomeMatchesDisk
<1>4. CASE ScanMiss
  BY <1>4, ScanMissOutcome
<1>5. CASE ScanHit
  BY <1>5 DEF ScanHit, AtWindow, Scanning, OutcomeInv, OutcomeMatchesDisk
<1>6. CASE ScanOverrun \/ ScanOverflow
  BY <1>6 DEF ScanOverrun, ScanOverflow, Scanning, OutcomeInv, OutcomeMatchesDisk
<1>7. CASE ScanEnd
  BY <1>7, ScanEndOutcome
<1>8. CASE Create \/ Write
  BY <1>8 DEF Create, Write, OutcomeInv, OutcomeMatchesDisk, Reach
<1>9. CASE ReadFails \/ CreateFails \/ WriteFails \/ Kill
  <2>1. pc' = "shell" /\ ret' \in {"failed", "killed"} /\ UNCHANGED <<substituted, before>>
    BY <1>9 DEF ReadFails, CreateFails, WriteFails, Kill
  <2>2. substituted \/ disk' = before
    BY <1>9 DEF ReadFails, CreateFails, WriteFails, Kill, WritingInv, TypeOK
  <2> QED BY <2>1, <2>2, FailureOutcome DEF OutcomeInv
<1>10. CASE Close \/ CloseFails
  BY <1>10, CloseOutcome
<1>11. CASE UNCHANGED vars
  BY <1>11 DEF OutcomeInv, OutcomeMatchesDisk, Occurrences, Substitution, Reach, Apart
<1> QED
  BY <1>1, <1>2, <1>3, <1>4, <1>5, <1>6, <1>7, <1>8, <1>9, <1>10, <1>11 DEF Next, Tool

\* What the last message says is so: the GUID was not found where the scan
\* looks, or it is replaced there, or a failed run has left the file alone
\* unless it had found something.
THEOREM OutcomeMatchesDiskAlways == Spec => []OutcomeMatchesDisk
<1>1. Init => OutcomeInv /\ ScanSubstitutes /\ WritingInv
  BY DEF Init, OutcomeInv, OutcomeMatchesDisk, ScanSubstitutes, WritingInv, OldOrBeginningOfNew
<1>2. OutcomeInv => OutcomeMatchesDisk
  BY DEF OutcomeInv
<1> QED
  BY <1>1, <1>2, TypeInit, TypeStep, SubstitutesStep, WritingStep, OutcomeStep, PTL DEF Spec
-----------------------------------------------------------------------------
(* Two runs in a row.                                                      *)

OccursAt(s, g, p) == \A k \in 1..W : s[p + k] = g[k]

\* Where two GUIDs overlap, an end of the first is a beginning of the second.
LEMMA NoOverlap ==
  ASSUME NEW s, NEW a, NEW b, Apart(a, b), NEW p \in Nat, NEW q \in Nat, p < q, q < p + W,
         OccursAt(s, a, p), OccursAt(s, b, q)
  PROVE  FALSE
<1> DEFINE j == p + W - q
<1>1. j \in 1..(W - 1)
  BY SizeAssumption
<1>2. PICK k \in 1..j : a[W - j + k] # b[k]
  BY <1>1 DEF Apart
<1>3. W - j + k \in 1..W /\ k \in 1..W /\ p + (W - j + k) = q + k
  BY <1>1, SizeAssumption
<1>4. s[p + (W - j + k)] = a[W - j + k] /\ s[q + k] = b[k]
  BY <1>3 DEF OccursAt
<1> QED BY <1>2, <1>3, <1>4

\* A GUID that is in the file after a substitution, and does not overlap what was
\* put in, was there before; and what was put in overlaps nothing else.
LEMMA WhatOccursAfter ==
  ASSUME NEW s \in Seq(Byte), NEW t, NEW o, NEW n, NEW g, NEW m, NEW H \in SUBSET Nat,
         Overlaid(t, s, H, n), Apart(n, g), Apart(g, n),
         NEW p \in Occurrences(t, g, m)
  PROVE  p \in H \/ ((\A h \in H : h + W <= p \/ p + W <= h) /\ p \in Occurrences(s, g, m))
<1>1. p \in Nat /\ p + W <= Len(s) /\ p \in 0..(m - 1) /\ OccursAt(t, g, p)
  BY DEF Occurrences, Overlaid, OccursAt
<1>2. ASSUME NEW h \in H, p # h
      PROVE  h + W <= p \/ p + W <= h
  <2>1. h \in Nat /\ OccursAt(t, n, h)
    BY DEF Overlaid, OccursAt
  <2>2. ~(h < p /\ p < h + W)
    BY <1>1, <2>1, NoOverlap
  <2>3. ~(p < h /\ h < p + W)
    BY <1>1, <2>1, NoOverlap
  <2> QED BY <1>1, <1>2, <2>1, <2>2, <2>3, SizeAssumption
<1>3. ASSUME p \notin H
      PROVE  p \in Occurrences(s, g, m)
  <2>1. ASSUME NEW k \in 1..W
        PROVE  s[p + k] = g[k]
    <3>1. Len(s) \in Nat /\ p + k \in 1..Len(s)
      BY <1>1, SizeAssumption
    <3>2. ASSUME NEW h \in H
          PROVE  p + k \notin (h + 1)..(h + W)
      BY <1>1, <1>2, <1>3, SizeAssumption
    <3>3. t[p + k] = s[p + k]
      BY <3>1, <3>2 DEF Overlaid
    <3>4. t[p + k] = g[k]
      BY <1>1 DEF OccursAt
    <3> QED BY <3>3, <3>4
  <2> QED BY <1>1, <2>1 DEF Occurrences
<1> QED BY <1>2, <1>3

\* Nothing is left to substitute.
LEMMA NoneLeft ==
  ASSUME NEW s \in Seq(Byte), NEW t, NEW o \in Guid, NEW n \in Guid, NEW m \in Int,
         o # n, Apart(o, n), Apart(n, o), Substitution(t, s, o, n, m)
  PROVE  Occurrences(t, o, m) = {}
<1> DEFINE S == Occurrences(s, o, m)
<1>1. PICK H \in SUBSET S : Leftmost(H, S) /\ Overlaid(t, s, H, n)
  BY DEF Substitution
<1>2. H \in SUBSET Nat
  BY DEF Occurrences
<1>3. SUFFICES ASSUME NEW p \in Occurrences(t, o, m) PROVE FALSE
  OBVIOUS
<1>4. CASE p \in H
  <2>1. \A k \in 1..W : n[k] = o[k]
    BY <1>1, <1>4 DEF Overlaid, Occurrences
  <2>2. n = [k \in 1..W |-> n[k]] /\ o = [k \in 1..W |-> o[k]]
    BY DEF Guid
  <2>3. n = o
    BY <2>1, <2>2, Zenon
  <2> QED BY <2>3
<1>5. CASE p \in S /\ \A h \in H : h + W <= p \/ p + W <= h
  <2>1. PICK h \in H : h <= p /\ p < h + W
    BY <1>1, <1>5 DEF Leftmost
  <2>2. p \in Nat /\ h \in Nat
    BY <1>2 DEF Occurrences
  <2> QED BY <1>5, <2>1, <2>2, SizeAssumption
<1> QED BY <1>1, <1>2, <1>4, <1>5, WhatOccursAfter

\* Substituting back undoes a substitution.
LEMMA BackIsUndone ==
  ASSUME NEW s \in Seq(Byte), NEW t, NEW u \in Seq(Byte), NEW o \in Guid, NEW n \in Guid, NEW m \in Int,
         Apart(n, n), Occurrences(s, n, m) = {},
         Substitution(t, s, o, n, m), Substitution(u, t, n, o, m)
  PROVE  u = s
<1> DEFINE S == Occurrences(s, o, m)
           T == Occurrences(t, n, m)
<1>1. PICK H \in SUBSET S : Leftmost(H, S) /\ Overlaid(t, s, H, n)
  BY DEF Substitution
<1>2. PICK K \in SUBSET T : Leftmost(K, T) /\ Overlaid(u, t, K, o)
  BY DEF Substitution
<1>3. H \in SUBSET Nat /\ K \in SUBSET Nat /\ T \in SUBSET Nat
  BY DEF Occurrences
<1>4. T \subseteq H
  BY <1>1, <1>3, WhatOccursAfter
<1>5. H \subseteq T
  BY <1>1 DEF Occurrences, Overlaid
<1>6. K = H
  <2>1. ASSUME NEW p \in H
        PROVE  p \in K
    <3>1. PICK h \in K : h <= p /\ p < h + W
      BY <1>2, <1>5 DEF Leftmost
    <3>2. h \in H /\ h \in Nat /\ p \in Nat
      BY <1>3, <1>4
    <3>3. ~(h < p)
      BY <1>1, <3>1, <3>2, SizeAssumption DEF Leftmost
    <3> QED BY <3>1, <3>2, <3>3
  <2> QED BY <1>4, <2>1
<1>7. Len(u) = Len(s) /\ Len(t) = Len(s)
  BY <1>1, <1>2 DEF Overlaid
<1>8. ASSUME NEW i \in 1..Len(s)
      PROVE  u[i] = s[i]
  <2>1. CASE \E h \in H : i \in (h + 1)..(h + W)
    <3>1. PICK h \in H : i \in (h + 1)..(h + W)
      BY <2>1
    <3>2. i - h \in 1..W /\ h + (i - h) = i
      BY <1>3, <3>1, SizeAssumption
    <3>3. u[h + (i - h)] = o[i - h]
      BY <1>2, <1>6, <3>2 DEF Overlaid
    <3>4. s[h + (i - h)] = o[i - h]
      BY <3>2 DEF Occurrences
    <3> QED BY <3>2, <3>3, <3>4
  <2>2. CASE \A h \in H : i \notin (h + 1)..(h + W)
    <3>1. u[i] = t[i] /\ t[i] = s[i]
      BY <1>1, <1>2, <1>6, <1>7, <2>2 DEF Overlaid
    <3> QED BY <3>1
  <2> QED BY <2>1, <2>2
<1> QED BY <1>7, <1>8, SeqEqual

\* What a run that reports success has made of the file s: d, which fclose() may
\* have cut short.
Rewritten(d, s, o, n) ==
  /\ d \in Seq(Byte) /\ s \in Seq(Byte) /\ o \in Guid /\ n \in Guid
  /\ Apart(n, o) =>
       /\ Occurrences(s, o, Reach(s)) # {}
       /\ \E t \in Seq(Byte) : Substitution(t, s, o, n, Reach(s)) /\ Beginning(d, t)

\* The last run and the one before it have done so, if they say so.
RunsInv ==
  /\ pc # "shell" => ret = "none"
  /\ ret = "success" => Rewritten(disk, before, original, new)
  /\ prior.ret = "success" => Rewritten(before, prior.before, prior.original, prior.new)

LEMMA CloseRewrites ==
  ASSUME TypeInv, ScanSubstitutes, WritingInv, OutcomeInv, Close \/ CloseFails
  PROVE  Rewritten(disk', before, original, new)
<1> USE DEF TypeInv, TypeOK, run, past
<1>1. /\ pc = "closing" /\ buffer \in Seq(Byte) /\ before \in Seq(Byte) /\ disk' \in Seq(Byte)
      /\ original \in Guid /\ new \in Guid
  BY DEF Close, CloseFails
<1>2. Beginning(disk', buffer)
  BY SubSeqProperties DEF Close, CloseFails, WritingInv, Beginning
<1>3. pos = Reach(before) /\ substituted
  BY <1>1 DEF OutcomeInv, WritingInv
<1>4. ASSUME Apart(new, original)
      PROVE  /\ Substitution(buffer, before, original, new, Reach(before))
             /\ Occurrences(before, original, Reach(before)) # {}
  BY <1>1, <1>3, <1>4 DEF ScanSubstitutes
<1> QED BY <1>1, <1>2, <1>4 DEF Rewritten

LEMMA RunsStep ==
  TypeInv /\ ScanSubstitutes /\ WritingInv /\ OutcomeInv /\ RunsInv /\ [Next]_vars => RunsInv'
<1> SUFFICES ASSUME TypeInv, ScanSubstitutes, WritingInv, OutcomeInv, RunsInv, [Next]_vars
             PROVE  RunsInv'
  OBVIOUS
<1> USE DEF run, past, vars, Exit, RunsInv
<1>1. CASE Refuse \/ \E job \in Jobs : Begin(job[1], job[2])
  <2>1. /\ ret' \in {"none", "failed"} /\ before' = disk
        /\ pc' # "shell" => ret' = "none"
        /\ prior' = [original |-> original, new |-> new, before |-> before, ret |-> ret]
    BY <1>1 DEF Refuse, Begin
  <2>2. prior'.ret = "success" => Rewritten(before', prior'.before, prior'.original, prior'.new)
    BY <2>1
  <2> QED BY <2>1, <2>2
<1>2. CASE Close \/ CloseFails
  <2>1. UNCHANGED <<before, original, new, prior>> /\ pc' = "shell"
    BY <1>2 DEF Close, CloseFails
  <2> QED BY <1>2, <2>1, CloseRewrites
<1>3. CASE \/ ReadFails \/ MallocFails \/ Read
           \/ ScanOverrun \/ ScanOverflow \/ ScanMiss \/ ScanHit \/ ScanEnd
           \/ CreateFails \/ Create \/ WriteFails \/ Write \/ Kill
  <2>1. /\ UNCHANGED <<before, prior>> /\ pc # "shell"
        /\ \/ ret' \in {"failed", "killed", "notFound"} /\ pc' = "shell"
           \/ ret' = ret
    BY <1>3 DEF ReadFails, MallocFails, Read, ScanOverrun, ScanOverflow, ScanMiss, ScanHit,
       ScanEnd, AtWindow, Scanning,
       CreateFails, Create, WriteFails, Write, Kill
  <2> QED BY <2>1
<1>4. CASE UNCHANGED vars
  BY <1>4
<1> QED BY <1>1, <1>2, <1>3, <1>4 DEF Next, Tool

BothRuns == TypeInv /\ ScanSubstitutes /\ WritingInv /\ OutcomeInv /\ RunsInv

LEMMA BothRunsAlways == Spec => []BothRuns
<1>1. Init => BothRuns
  BY TypeInit DEF Init, BothRuns, OutcomeInv, OutcomeMatchesDisk, ScanSubstitutes, WritingInv,
     OldOrBeginningOfNew, RunsInv, NoRun
<1>2. BothRuns /\ [Next]_vars => BothRuns'
  BY TypeStep, SubstitutesStep, WritingStep, OutcomeStep, RunsStep DEF BothRuns
<1> QED BY <1>1, <1>2, PTL DEF Spec

\* An occurrence in the beginning of a file is one in the file.
LEMMA OccursInBeginning ==
  ASSUME NEW d \in Seq(Byte), NEW t \in Seq(Byte), Beginning(d, t), NEW g
  PROVE  Occurrences(d, g, Reach(d)) \subseteq Occurrences(t, g, Reach(t))
<1>1. Len(d) \in Nat /\ Len(t) \in Nat /\ Len(d) <= Len(t) /\ \A i \in 1..Len(d) : d[i] = t[i]
  BY SubSeqProperties DEF Beginning
<1> SUFFICES ASSUME NEW p \in Occurrences(d, g, Reach(d))
             PROVE  p \in Occurrences(t, g, Reach(t))
  OBVIOUS
<1>2. p \in 0..(Len(d) - W - 1) /\ \A k \in 1..W : d[p + k] = g[k]
  BY DEF Occurrences, Reach
<1>3. \A k \in 1..W : p + k \in 1..Len(d)
  BY <1>1, <1>2, SizeAssumption
<1> QED BY <1>1, <1>2, <1>3, SizeAssumption DEF Occurrences, Reach

\* Running the tool again finds nothing that the first run should have replaced,
\* whatever became of the file in between, for GUIDs and files of any size.
THEOREM RerunFindsNothingAlways == Spec => []RerunFindsNothing
<1>1. BothRuns => RerunFindsNothing
  <2> SUFFICES ASSUME BothRuns, ret = "success", prior.ret = "success", original = prior.original,
                      new = prior.new, new # original, Apart(original, new), Apart(new, original)
               PROVE  FALSE
    BY DEF RerunFindsNothing
  <2>1. /\ Rewritten(disk, before, original, new)
        /\ Rewritten(before, prior.before, original, new)
        /\ Apart(new, original) /\ Apart(original, new)
    BY DEF BothRuns, RunsInv
  <2>2. PICK t \in Seq(Byte) : /\ Substitution(t, prior.before, original, new, Reach(prior.before))
                               /\ Beginning(before, t)
    BY <2>1 DEF Rewritten
  <2>3. /\ before \in Seq(Byte) /\ prior.before \in Seq(Byte) /\ original \in Guid /\ new \in Guid
        /\ Occurrences(before, original, Reach(before)) # {}
    BY <2>1 DEF Rewritten
  <2>4. Len(t) = Len(prior.before) /\ Reach(t) = Reach(prior.before) /\ Reach(t) \in Int
    BY <2>2, <2>3, SizeAssumption DEF Substitution, Overlaid, Reach
  <2>5. Occurrences(t, original, Reach(t)) = {}
    BY <2>1, <2>2, <2>3, <2>4, NoneLeft
  <2> QED BY <2>2, <2>3, <2>5, OccursInBeginning
<1> QED BY <1>1, BothRunsAlways, PTL

\* Substituting back restores the file byte by byte, if the new GUID was not in
\* it before and nothing was cut off, for GUIDs and files of any size.
THEOREM BackAndForthAlways == Spec => []BackAndForth
<1>1. BothRuns => BackAndForth
  <2> SUFFICES ASSUME BothRuns, ret = "success", prior.ret = "success", original = prior.new,
                      new = prior.original, Len(disk) = Len(prior.before),
                      Apart(original, original), Apart(original, new), Apart(new, original),
                      Occurrences(prior.before, original, Reach(prior.before)) = {}
               PROVE  disk = prior.before
    BY DEF BackAndForth
  <2>1. /\ Rewritten(disk, before, original, new)
        /\ Rewritten(before, prior.before, new, original)
        /\ Apart(new, original) /\ Apart(original, new) /\ Apart(original, original)
    BY DEF BothRuns, RunsInv
  <2>2. /\ disk \in Seq(Byte) /\ before \in Seq(Byte) /\ prior.before \in Seq(Byte)
        /\ original \in Guid /\ new \in Guid
    BY <2>1 DEF Rewritten
  <2>3. PICK t \in Seq(Byte) : /\ Substitution(t, prior.before, new, original, Reach(prior.before))
                               /\ Beginning(before, t)
    BY <2>1 DEF Rewritten
  <2>4. PICK u \in Seq(Byte) : Substitution(u, before, original, new, Reach(before)) /\ Beginning(disk, u)
    BY <2>1 DEF Rewritten
  <2>5. Len(t) = Len(prior.before) /\ Len(u) = Len(before)
    BY <2>3, <2>4 DEF Substitution, Overlaid
  <2>6. Len(before) = Len(t) /\ Len(disk) = Len(u)
    BY <2>2, <2>3, <2>4, <2>5 DEF Beginning
  <2>7. before = t /\ disk = u
    BY <2>2, <2>3, <2>4, <2>6, SubSeqProperties, SeqEqual DEF Beginning
  <2>8. Reach(before) = Reach(prior.before) /\ Reach(prior.before) \in Int
    BY <2>2, <2>5, <2>6, SizeAssumption DEF Reach
  <2> QED BY <2>1, <2>2, <2>3, <2>4, <2>7, <2>8, BackIsUndone
<1> QED BY <1>1, BothRunsAlways, PTL
-----------------------------------------------------------------------------
(* What is left in the file.                                               *)

\* The file between and during runs: what the run found, or a beginning of what
\* the substitution makes of it.
DiskInv ==
  Apart(new, original) =>
    \/ disk = before
    \/ /\ original \in Guid /\ new \in Guid
       /\ \E t \in Seq(Byte) : /\ Substitution(t, before, original, new, Reach(before))
                               /\ Beginning(disk, t)

LEMMA DiskStep ==
  TypeInv /\ ScanSubstitutes /\ WritingInv /\ OutcomeInv /\ DiskInv /\ [Next]_vars => DiskInv'
<1> SUFFICES ASSUME TypeInv, ScanSubstitutes, WritingInv, OutcomeInv, DiskInv, [Next]_vars
             PROVE  DiskInv'
  OBVIOUS
<1> USE DEF run, past, vars, Exit
<1>1. CASE Refuse \/ \E job \in Jobs : Begin(job[1], job[2])
  BY <1>1 DEF Refuse, Begin, DiskInv
<1>2. CASE Create \/ WriteFails \/ Write \/ Close
  <2>1. /\ pc \in {"creating", "writing", "closing"} /\ UNCHANGED <<original, new, before>>
        /\ original \in Guid /\ new \in Guid /\ buffer \in Seq(Byte) /\ pos = Reach(before)
    BY <1>2 DEF Create, WriteFails, Write, Close, TypeInv, TypeOK, OutcomeInv
  <2>2. Beginning(disk', buffer)
    <3> USE DEF TypeInv, TypeOK
    <3>1. CASE WriteFails \/ Write
      BY <3>1, PartialIsBeginning DEF WriteFails, Write
    <3>2. CASE Create
      BY <3>2, SubSeqProperties DEF Create, Beginning
    <3>3. CASE Close
      BY <3>3, SubSeqProperties DEF Close, Beginning
    <3> QED BY <1>2, <3>1, <3>2, <3>3
  <2>3. ASSUME Apart(new, original)
        PROVE  Substitution(buffer, before, original, new, Reach(before))
    BY <2>1, <2>3 DEF ScanSubstitutes
  <2>4. Apart(new', original') => Apart(new, original)
    BY <2>1
  <2> QED BY <2>1, <2>2, <2>3, <2>4 DEF DiskInv
<1>3. CASE \/ ReadFails \/ MallocFails \/ Read
           \/ ScanOverrun \/ ScanOverflow \/ ScanMiss \/ ScanHit \/ ScanEnd
           \/ CreateFails \/ CloseFails \/ Kill
  <2>1. UNCHANGED <<disk, original, new, before>>
    BY <1>3 DEF ReadFails, MallocFails, Read, ScanOverrun, ScanOverflow, ScanMiss, ScanHit,
       ScanEnd, AtWindow, Scanning,
       CreateFails, CloseFails, Kill
  <2> QED BY <2>1 DEF DiskInv
<1>4. CASE UNCHANGED vars
  BY <1>4 DEF DiskInv
<1> QED BY <1>1, <1>2, <1>3, <1>4 DEF Next, Tool

\* A substitution does not bring back a GUID that overlaps nothing of what it
\* puts in.
LEMMA StaysGone ==
  ASSUME NEW s \in Seq(Byte), NEW t \in Seq(Byte), NEW d \in Seq(Byte), NEW o \in Guid, NEW n \in Guid,
         NEW g \in Guid, n # g, Apart(g, n), Apart(n, g), Gone(s, g),
         Substitution(t, s, o, n, Reach(s)), Beginning(d, t)
  PROVE  Gone(d, g)
<1>1. PICK H \in SUBSET Occurrences(s, o, Reach(s)) : Overlaid(t, s, H, n)
  BY DEF Substitution
<1>2. H \in SUBSET Nat /\ Reach(t) = Reach(s)
  BY <1>1 DEF Occurrences, Overlaid, Reach
<1>3. ASSUME NEW p \in Occurrences(t, g, Reach(s)) PROVE FALSE
  <2>1. p \in H
    BY <1>1, <1>2, WhatOccursAfter DEF Gone
  <2>2. \A k \in 1..W : n[k] = g[k]
    BY <1>1, <2>1 DEF Overlaid, Occurrences
  <2>3. n = [k \in 1..W |-> n[k]] /\ g = [k \in 1..W |-> g[k]]
    BY DEF Guid
  <2>4. n = g
    BY <2>2, <2>3, Zenon
  <2> QED BY <2>4
<1> QED BY <1>2, <1>3, OccursInBeginning DEF Gone

\* A run that reports success, or that there is nothing to replace, leaves nothing
\* to replace; and what is not in the file does not come into it by replacing
\* something else, whatever fails, for GUIDs that do not overlap what is put in.
THEOREM AllRenamedAlways == Spec => []AllRenamed
<1>1. Init => DiskInv
  BY DEF Init, DiskInv
<1>2. BothRuns /\ DiskInv /\ [Next]_vars => DiskInv'
  BY DiskStep DEF BothRuns
<1>3. BothRuns /\ DiskInv => AllRenamed
  <2> SUFFICES ASSUME BothRuns, DiskInv, pc = "shell", Apart(new, original) PROVE AllRenamed
    BY DEF AllRenamed
  <2>1. disk \in Seq(Byte) /\ before \in Seq(Byte)
    BY DEF BothRuns, TypeInv, TypeOK
  <2>2. ASSUME ret = "notFound" PROVE Gone(disk, original)
    BY <2>2 DEF BothRuns, OutcomeInv, OutcomeMatchesDisk, Gone
  <2>3. ASSUME ret = "success", new # original, Apart(original, new) PROVE Gone(disk, original)
    <3>1. PICK t \in Seq(Byte) : Substitution(t, before, original, new, Reach(before)) /\ Beginning(disk, t)
      BY <2>3 DEF BothRuns, RunsInv, Rewritten
    <3>2. Reach(t) = Reach(before) /\ Reach(before) \in Int /\ original \in Guid /\ new \in Guid
      BY <2>1, <2>3, <3>1, SizeAssumption
         DEF Substitution, Overlaid, Reach, BothRuns, RunsInv, Rewritten
    <3>3. Occurrences(t, original, Reach(t)) = {}
      BY <2>1, <2>3, <3>1, <3>2, NoneLeft
    <3> QED BY <2>1, <3>1, <3>3, OccursInBeginning DEF Gone
  <2>4. ASSUME NEW g \in Guid, new # g, Apart(g, new), Apart(new, g), Gone(before, g)
        PROVE  Gone(disk, g)
    <3>1. CASE disk = before
      BY <2>4, <3>1
    <3>2. CASE disk # before
      BY <2>1, <2>4, <3>2, StaysGone DEF DiskInv
    <3> QED BY <3>1, <3>2
  <2> QED BY <2>2, <2>3, <2>4 DEF AllRenamed
<1> QED BY <1>1, <1>2, <1>3, BothRunsAlways, PTL DEF Spec
=============================================================================
