------------------------------- MODULE GuidSub -------------------------------
(***************************************************************************)
(* guidsub (tools/guidsub.c): replaces a GUID by another in a firmware     *)
(* module, in place.  The tool reads the whole file, walks a window of the *)
(* size of a GUID over it, and writes the file back if anything matched.   *)
(* The Makefile has three runs of it on the same file, in a row, commented *)
(* out.                                                                    *)
(***************************************************************************)
EXTENDS Integers, Sequences

CONSTANTS
  Byte,
  W,              \* sizeof(uuid_t), 16
  Word32, Word16, \* bytes of the fields the tool swaps, 4 and 2
  SizeT,          \* values of size_t, 2^64
  IntMax,         \* the greatest int, 2^31 - 1
  Files,          \* what may be in the file at first
  Jobs,           \* <<original, new>>, as uuid_parse() returns them
  MaxRuns,        \* bound on the number of runs
  Hazards         \* what may go wrong, see AllHazards

AllHazards ==
  { "Open", "Malloc", "Read",   \* fopen 101, malloc 113, fread 115
    "Create", "Write",          \* fopen 139, fwrite 147
    "Close",                    \* fclose 160 cannot write what is buffered
    "Kill" }                    \* the process ends early

Guid == [1..W -> Byte]

ASSUME SizeAssumption ==
  /\ W \in Nat \ {0} /\ Word32 \in Nat /\ Word16 \in Nat /\ Word32 + 2 * Word16 <= W
  /\ SizeT \in Nat /\ W < SizeT /\ IntMax \in Nat
ASSUME JobAssumption == Jobs \subseteq Guid \X Guid
ASSUME FileAssumption == Files \subseteq Seq(Byte)
ASSUME RunAssumption == MaxRuns \in Nat /\ Hazards \subseteq AllHazards

VARIABLES
  disk,          \* content of the file
  pc,            \* "shell" while the tool is not running
  original, new, \* originalGuid, newGuid, in the byte order of the file
  buffer, pos, substituted,
  ret,           \* how the last run ended, by the message it printed
  fault,         \* an access outside the buffer, or an overflow of pos
  runs,          \* runs so far
  before,        \* history: the file when the run began
  prior          \* history: arguments, file and end of the run before

run   == <<original, new, buffer, pos, substituted>>
past  == <<runs, before, prior>>
vars  == <<disk, pc, run, ret, fault, past>>

May(h) == h \in Hazards

NoRun == [original |-> <<>>, new |-> <<>>, before |-> <<>>, ret |-> "none"]

Init ==
  /\ disk \in Files /\ before = disk
  /\ pc = "shell" /\ original = <<>> /\ new = <<>>
  /\ buffer = <<>> /\ pos = 0 /\ substituted = FALSE
  /\ ret = "none" /\ fault = FALSE /\ runs = 0 /\ prior = NoRun

-----------------------------------------------------------------------------
\* Byte i of a field from byte lo to byte hi, in the other byte order.
Mirror(lo, hi, i) == lo + hi - i

\* A plausible bug: the third field is forgotten.
SwappedTwo(i) ==
  IF i <= Word32 THEN Mirror(1, Word32, i)
  ELSE IF i <= Word32 + Word16 THEN Mirror(Word32 + 1, Word32 + Word16, i) ELSE i

Swapped(i) ==
  IF i <= Word32 THEN Mirror(1, Word32, i)
  ELSE IF i <= Word32 + Word16 THEN Mirror(Word32 + 1, Word32 + Word16, i)
  ELSE IF i <= Word32 + 2 * Word16 THEN Mirror(Word32 + Word16 + 1, Word32 + 2 * Word16, i)
  ELSE i

uuid_fix_endianness(g) == [i \in 1..W |-> g[Swapped(i)]]

-----------------------------------------------------------------------------
Exit(r) == pc' = "shell" /\ ret' = r

\* Arguments that are missing or that uuid_parse() refuses.
Refuse ==
  /\ pc = "shell" /\ runs < MaxRuns
  /\ runs' = runs + 1 /\ Exit("failed")
  /\ prior' = [original |-> original, new |-> new, before |-> before, ret |-> ret]
  /\ before' = disk
  /\ UNCHANGED <<disk, run, fault>>

Begin(o, n) ==
  /\ pc = "shell" /\ runs < MaxRuns
  /\ runs' = runs + 1 /\ pc' = "reading" /\ ret' = "none"
  /\ original' = uuid_fix_endianness(o) /\ new' = uuid_fix_endianness(n)
  /\ prior' = [original |-> original, new |-> new, before |-> before, ret |-> ret]
  /\ before' = disk /\ substituted' = FALSE
  /\ UNCHANGED <<disk, buffer, pos, fault>>

\* An empty file cannot be read either: fread() of no byte returns 0.
ReadFails ==
  /\ pc = "reading" /\ (May("Open") \/ May("Read") \/ disk = <<>>)
  /\ Exit("failed")
  /\ UNCHANGED <<disk, run, fault, past>>

\* The result of malloc() is not looked at.
MallocFails ==
  /\ pc = "reading" /\ May("Malloc") /\ disk # <<>>
  /\ fault' = TRUE
  /\ UNCHANGED <<disk, pc, run, ret, past>>

Read ==
  /\ pc = "reading" /\ disk # <<>>
  /\ buffer' = disk /\ pos' = 0
  /\ pc' = "scanning"
  /\ UNCHANGED <<disk, original, new, substituted, ret, fault, past>>

\* A plausible bug: one more window at the end is left out.
LoopBoundShort == Len(buffer) - W - 1

\* A plausible bug: the windows that begin with each byte of the file are compared.
LoopBoundWhole == Len(buffer)

\* fileSize - sizeof(uuid_t) is unsigned, and pos is converted to it.
LoopBound == IF W <= Len(buffer) THEN Len(buffer) - W ELSE SizeT + Len(buffer) - W

Scanning == pc = "scanning" /\ pos < LoopBound

Matches == \A k \in 1..W : buffer[pos + k] = original[k]

\* memcmp() is given bytes that are not in the buffer.
ScanOverrun ==
  /\ Scanning /\ pos + W > Len(buffer)
  /\ fault' = TRUE
  /\ UNCHANGED <<disk, pc, run, ret, past>>

\* pos is an int and cannot count on; it makes no odds what was at the window.
ScanOverflow ==
  /\ Scanning /\ pos + W <= Len(buffer) /\ pos = IntMax
  /\ fault' = TRUE
  /\ UNCHANGED <<disk, pc, run, ret, past>>

\* A window that is in the buffer, with another one to come.
AtWindow == Scanning /\ pos + W <= Len(buffer) /\ pos < IntMax

\* A plausible bug: the window does not move on.
ScanMissStuck == AtWindow /\ ~Matches /\ UNCHANGED vars

ScanMiss ==
  /\ AtWindow /\ ~Matches
  /\ pos' = pos + 1
  /\ UNCHANGED <<disk, pc, original, new, buffer, substituted, ret, fault, past>>

\* A plausible bug: the new GUID is put in before the original one.
ReplacedInserting == SubSeq(buffer, 1, pos) \o new \o SubSeq(buffer, pos + 1, Len(buffer))

\* A plausible bug: one byte less is copied.
ReplacedShort ==
  [i \in 1..Len(buffer) |-> IF i \in (pos + 1)..(pos + W - 1) THEN new[i - pos] ELSE buffer[i]]

\* A plausible bug: it is copied to one byte after the match.
ReplacedLate ==
  [i \in 1..Len(buffer) |-> IF i \in (pos + 2)..(pos + W + 1) THEN new[i - pos - 1] ELSE buffer[i]]

\* The buffer with new written at pos.
Replaced == [i \in 1..Len(buffer) |-> IF i \in (pos + 1)..(pos + W) THEN new[i - pos] ELSE buffer[i]]

\* A plausible bug: the match is only noted.
ScanHitNoted ==
  /\ AtWindow /\ Matches
  /\ pos' = pos + 1 /\ substituted' = TRUE
  /\ UNCHANGED <<disk, pc, original, new, buffer, ret, fault, past>>

ScanHit ==
  /\ AtWindow /\ Matches
  /\ buffer' = Replaced /\ substituted' = TRUE /\ pos' = pos + 1
  /\ UNCHANGED <<disk, pc, original, new, ret, fault, past>>

ScanEnd ==
  /\ pc = "scanning" /\ pos >= LoopBound
  /\ IF substituted THEN pc' = "creating" /\ UNCHANGED ret ELSE Exit("notFound")
  /\ UNCHANGED <<disk, run, fault, past>>

CreateFails ==
  /\ pc = "creating" /\ May("Create")
  /\ Exit("failed")
  /\ UNCHANGED <<disk, run, fault, past>>

\* fopen() with "wb" empties the file.
Create ==
  /\ pc = "creating" /\ disk' = <<>> /\ pc' = "writing"
  /\ UNCHANGED <<run, ret, fault, past>>

\* A plausible bug: the file is opened to append to it.
PartialAppended(n) == n \in 0..Len(buffer) /\ disk' = before \o SubSeq(buffer, 1, n)

\* What has reached the file so far is a beginning of the buffer.
Partial(n) == n \in 0..Len(buffer) /\ disk' = SubSeq(buffer, 1, n)

WriteFails ==
  /\ pc = "writing" /\ May("Write")
  /\ \E n \in 0..Len(buffer) : Partial(n)
  /\ Exit("failed")
  /\ UNCHANGED <<run, fault, past>>

\* fwrite() returns once the rest is in the buffer of the stream.
Write ==
  /\ pc = "writing"
  /\ \E n \in 0..Len(buffer) : Partial(n)
  /\ pc' = "closing"
  /\ UNCHANGED <<run, ret, fault, past>>

Close ==
  /\ pc = "closing" /\ disk' = buffer /\ Exit("success")
  /\ UNCHANGED <<run, fault, past>>

\* The result of fclose() is not looked at.
CloseFails ==
  /\ pc = "closing" /\ May("Close") /\ Exit("success")
  /\ UNCHANGED <<disk, run, fault, past>>

Kill ==
  /\ pc # "shell" /\ May("Kill") /\ Exit("killed")
  /\ UNCHANGED <<disk, run, fault, past>>

Tool ==
  \/ ReadFails \/ MallocFails \/ Read
  \/ ScanOverrun \/ ScanOverflow \/ ScanMiss \/ ScanHit \/ ScanEnd
  \/ CreateFails \/ Create \/ WriteFails \/ Write \/ Close \/ CloseFails

\* Nothing is said of the tool after a fault.
Next ==
  /\ ~fault
  /\ \/ Refuse
     \/ \E job \in Jobs : Begin(job[1], job[2])
     \/ Tool
     \/ Kill

Spec == Init /\ [][Next]_vars
LiveSpec == Spec /\ WF_vars(~fault /\ Tool)
=============================================================================
