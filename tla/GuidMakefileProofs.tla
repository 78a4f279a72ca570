-------------------------- MODULE GuidMakefileProofs --------------------------
(* Theorems about guidsub with the GUIDs of the Makefile, on files of any  *)
(* size: what the general theorems suppose of GUIDs is so of these.        *)
EXTENDS GuidMakefile, GuidSubProofs

LEMMA ConvertedJobs ==
  ASSUME NEW job \in Jobs
  PROVE  <<uuid_fix_endianness(job[1]), uuid_fix_endianness(job[2])>> \in HeaderPairs \cap ShimPairs
<1> USE MakefileAssumption DEF Swapped, Mirror
<1>1. CASE job = DriverBinding
  <2>1. uuid_fix_endianness(DriverBinding[1]) = HeaderDriverBinding[1]
    BY SMT DEF DriverBinding, HeaderDriverBinding, uuid_fix_endianness
  <2>2. uuid_fix_endianness(DriverBinding[2]) = HeaderDriverBinding[2]
    BY SMT DEF DriverBinding, HeaderDriverBinding, uuid_fix_endianness
  <2>3. InMemory(gDriverBindingProtocolSubstituteGuid) = HeaderDriverBinding[2]
    BY SMT DEF gDriverBindingProtocolSubstituteGuid, HeaderDriverBinding, InMemory
  <2>4. HeaderDriverBinding = <<HeaderDriverBinding[1], HeaderDriverBinding[2]>>
    BY DEF HeaderDriverBinding
  <2> QED BY <1>1, <2>1, <2>2, <2>3, <2>4 DEF HeaderPairs, ShimPairs
<1>2. CASE job = RootBridgeIo
  <2>1. uuid_fix_endianness(RootBridgeIo[1]) = HeaderRootBridgeIo[1]
    BY SMT DEF RootBridgeIo, HeaderRootBridgeIo, uuid_fix_endianness
  <2>2. uuid_fix_endianness(RootBridgeIo[2]) = HeaderRootBridgeIo[2]
    BY SMT DEF RootBridgeIo, HeaderRootBridgeIo, uuid_fix_endianness
  <2>3. InMemory(gPciRootBridgeIoProtocolGuidSubstituteGuid) = HeaderRootBridgeIo[2]
    BY SMT DEF gPciRootBridgeIoProtocolGuidSubstituteGuid, HeaderRootBridgeIo, InMemory
  <2>4. HeaderRootBridgeIo = <<HeaderRootBridgeIo[1], HeaderRootBridgeIo[2]>>
    BY DEF HeaderRootBridgeIo
  <2> QED BY <1>2, <2>1, <2>2, <2>3, <2>4 DEF HeaderPairs, ShimPairs
<1>3. CASE job = ResourceAllocation
  <2>1. uuid_fix_endianness(ResourceAllocation[1]) = HeaderResourceAllocation[1]
    BY SMT DEF ResourceAllocation, HeaderResourceAllocation, uuid_fix_endianness
  <2>2. uuid_fix_endianness(ResourceAllocation[2]) = HeaderResourceAllocation[2]
    BY SMT DEF ResourceAllocation, HeaderResourceAllocation, uuid_fix_endianness
  <2>3. InMemory(gEfiPciHostBrgResAllocProtocolSubstituteGuid) = HeaderResourceAllocation[2]
    BY SMT DEF gEfiPciHostBrgResAllocProtocolSubstituteGuid, HeaderResourceAllocation, InMemory
  <2>4. HeaderResourceAllocation = <<HeaderResourceAllocation[1], HeaderResourceAllocation[2]>>
    BY DEF HeaderResourceAllocation
  <2> QED BY <1>3, <2>1, <2>2, <2>3, <2>4 DEF HeaderPairs, ShimPairs
<1> QED BY <1>1, <1>2, <1>3 DEF MakefileJobs

\* The GUIDs of a run, and none before the first one.
Arguments ==
  /\ <<original, new>> \in HeaderPairs \/ original = <<>>
  /\ HeaderBytes

LEMMA ArgumentsAlways == Spec => []Arguments
<1>1. Init => Arguments
  BY DEF Init, Arguments, HeaderBytes
<1>2. Arguments /\ [Next]_vars => Arguments'
  <2> SUFFICES ASSUME Arguments, [Next]_vars PROVE Arguments'
    OBVIOUS
  <2> USE DEF run, past, vars, Exit
  <2>1. ASSUME NEW job \in Jobs, Begin(job[1], job[2]) PROVE Arguments'
    BY <2>1, ConvertedJobs DEF Begin, Arguments, HeaderBytes
  <2>2. CASE Refuse \/ Tool \/ Kill \/ UNCHANGED vars
    <3>1. UNCHANGED <<original, new>> /\ (pc = "shell" => pc' = "shell")
      BY <2>2 DEF Refuse, Kill, Tool, ReadFails, MallocFails, Read, ScanOverrun, ScanOverflow, ScanMiss,
         ScanHit, ScanEnd, AtWindow, Scanning, CreateFails, Create, WriteFails, Write, Close, CloseFails
    <3> QED BY <3>1 DEF Arguments, HeaderBytes
  <2> QED BY <2>1, <2>2 DEF Next
<1> QED BY <1>1, <1>2, PTL DEF Spec

\* uuid_parse() and uuid_fix_endianness() make of the arguments in the Makefile
\* the bytes that the header of the shim tells the reader to replace by hand, and
\* the bytes in memory of the GUIDs that the shim looks for.
THEOREM HeaderBytesAlways == Spec => []HeaderBytes
<1>1. Arguments => HeaderBytes
  BY DEF Arguments
<1> QED BY <1>1, ArgumentsAlways, PTL

-----------------------------------------------------------------------------
\* Where GUIDs overlap, byte i of the first is byte 1 of the second, and unless
\* it is the last one byte i + 1 is byte 2.
LEMMA ApartByFirstBytes ==
  ASSUME NEW a, NEW b, \A i \in 2..16 : a[i] # b[1] \/ (i < 16 /\ a[i + 1] # b[2])
  PROVE  Apart(a, b)
<1> SUFFICES ASSUME NEW j \in 1..(W - 1) PROVE \E k \in 1..j : a[W - j + k] # b[k]
  BY DEF Apart
<1>1. W - j + 1 \in 2..16 /\ 1 \in 1..j /\ (W - j + 1 < 16 => 2 \in 1..j /\ W - j + 2 = W - j + 1 + 1)
  BY MakefileAssumption
<1> QED BY <1>1
\* What the general theorems ask of two GUIDs is so of those that are put in and
\* those that are looked for, whichever job is run after which: but for the root
\* bridge I/O GUID, which may begin with the last byte of the driver binding one.
THEOREM HeaderGuidsApart ==
  ASSUME NEW p \in HeaderPairs, NEW q \in HeaderPairs
  PROVE  /\ p[1] \in Guid /\ p[2] \in Guid /\ p[2] # q[1]
         /\ Apart(q[1], p[2])
         /\ Apart(p[2], q[1]) <=> ~Joins(p, q)
<1> DEFINE D == HeaderDriverBinding
           R == HeaderRootBridgeIo
           A == HeaderResourceAllocation
<1> USE DEF HeaderDriverBinding, HeaderRootBridgeIo, HeaderResourceAllocation
<1>1. p[1] \in Guid /\ p[2] \in Guid
  BY MakefileAssumption, SMT DEF HeaderPairs, Guid
<1>2. p[2][1] # q[1][1]
  BY SMT DEF HeaderPairs
<1>3. \A i \in 2..16 : q[1][i] # p[2][1] \/ (i < 16 /\ q[1][i + 1] # p[2][2])
  BY SMT DEF HeaderPairs
<1>4. ASSUME ~Joins(p, q) PROVE \A i \in 2..16 : p[2][i] # q[1][1]
  BY <1>4, SMT DEF HeaderPairs, Joins
<1>5. ASSUME Joins(p, q) PROVE ~Apart(p[2], q[1])
  <2>1. p[2][16] = q[1][1]
    BY <1>5, SMT DEF Joins
  <2>2. ASSUME NEW k \in 1..1 PROVE p[2][W - 1 + k] = q[1][k]
    <3>1. k = 1 /\ W - 1 + k = 16
      BY MakefileAssumption
    <3> QED BY <2>1, <3>1
  <2>3. 1 \in 1..(W - 1)
    BY MakefileAssumption
  <2> QED BY <2>2, <2>3 DEF Apart
<1> HIDE DEF HeaderDriverBinding, HeaderRootBridgeIo, HeaderResourceAllocation
<1> QED BY <1>1, <1>2, <1>3, <1>4, <1>5, ApartByFirstBytes

\* With the GUIDs of the Makefile, in any order and on files of any size: a run
\* that succeeds, or finds nothing, leaves none of its GUID where the scan of
\* main() reaches, and brings back no other, with the exception that Joins names.
THEOREM HeaderGuidsGoneAlways == Spec => []HeaderGuidsGone
<1>1. Arguments /\ OutcomeInv /\ AllRenamed => HeaderGuidsGone
  <2> SUFFICES ASSUME Arguments, OutcomeInv, AllRenamed, pc = "shell",
                      NEW p \in HeaderPairs, NEW q \in HeaderPairs, <<original, new>> = p
               PROVE  /\ ret \in {"success", "notFound"} => Gone(disk, p[1])
                      /\ Gone(before, q[1]) /\ ~Joins(p, q) => Gone(disk, q[1])
    BY DEF HeaderGuidsGone
  <2>1. original = p[1] /\ new = p[2] /\ ~Joins(p, p)
    BY DEF Joins, HeaderDriverBinding, HeaderRootBridgeIo
  <2>2. original # <<>>
    <3>1. DOMAIN original = 1..16
      BY <2>1, HeaderGuidsApart, MakefileAssumption DEF Guid
    <3>2. DOMAIN <<>> # 1..16
      OBVIOUS
    <3> QED BY <3>1, <3>2
  <2>3. new # q[1] /\ q[1] \in Guid /\ Apart(q[1], new) /\ (~Joins(p, q) => Apart(new, q[1]))
    BY <2>1, HeaderGuidsApart
  <2>4. new # original /\ Apart(new, original) /\ Apart(original, new)
    BY <2>1, HeaderGuidsApart
  <2> QED BY <2>1, <2>2, <2>3, <2>4 DEF AllRenamed
<1>2. BothRuns => OutcomeInv
  BY DEF BothRuns
<1> QED BY <1>1, <1>2, ArgumentsAlways, BothRunsAlways, AllRenamedAlways, PTL
=============================================================================
