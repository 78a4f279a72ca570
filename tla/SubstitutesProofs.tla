-------------------------- MODULE SubstitutesProofs --------------------------
(* Proofs about the calls through the substitutes: whatever fails, they are *)
(* the one-step calls of PciDxeShim, and their callers cannot tell a        *)
(* substitute from the original.                                           *)
EXTENDS PciDxeShimRoutes, SubstitutesProperties, SequenceTheorems

USE NullAssumption, BridgeAssumption, DeviceAssumption

Home(f) == IF f.proto = "rb" THEN f.from ELSE HostBridgeOf[f.from]

\* A frame of LookedUpHome; the one of the allocator is the outermost.
HomeFrame(i) ==
  LET f == calls[i]
  IN  /\ IF f.proto = "rb" THEN f.substitute = held[f.from]
                           ELSE /\ i = 1 /\ pc = "enumerating" /\ f.from = ctl
                                /\ f.substitute = mapping[held[ctl]].handle
                                /\ f.substitute \in raIface
      /\ held[f.from] # NULL
      /\ f.stage # "entered" =>
           /\ f.original = Found(f).original
           /\ f.original = Home(f) \/ (f.original = NULL /\ pc = "enumerating" /\ f.from = ctl)

LEMMA LookedUpHomeFrames == LookedUpHome <=> \A i \in 1..Len(calls) : HomeFrame(i)
BY DEF LookedUpHome, HomeFrame, Home

LEMMA LookedUpHomeFramesNext ==
  ASSUME \A i \in 1..Len(calls') : HomeFrame(i)'
  PROVE  LookedUpHome'
BY DEF LookedUpHome, HomeFrame, Home

LEMMA TopFrame ==
  ASSUME CallTypeOK, calls # <<>>
  PROVE  /\ Len(calls) \in Nat \ {0} /\ Innermost \in Frames
         /\ Innermost.service \in ServicesOf(Innermost.proto)
         /\ Innermost.answer = "none" <=> Innermost.stage # "called"
BY DEF CallTypeOK, Innermost

\* What the innermost call came in by: it is a call of PciDxeShim.
LEMMA InnermostCall ==
  ASSUME RoutingWell, CallTypeOK, LookedUpHome, calls # <<>>
  PROVE  /\ Innermost.from \in Controllers /\ held[Innermost.from] # NULL
         /\ Innermost.proto = "rb" =>
              Found(Innermost) =
                FindRootBridgeIoProtocolMappingBySubstitute(held[Innermost.from])
         /\ Innermost.proto # "rb" =>
              /\ Innermost.proto = "ra" /\ pc = "enumerating" /\ AllocatorFound
              /\ Innermost.from = ctl
              /\ Found(Innermost) =
                   FindResourceAllocationProtocolMappingBySubstitute(mapping[held[ctl]].handle)
<1>1. Innermost \in Frames /\ HomeFrame(Len(calls))
  BY TopFrame, LookedUpHomeFrames
<1> QED
  BY <1>1 DEF Frames, HomeFrame, Innermost, Found, AllocatorFound

\* The search of a call finds the original of its bridge, or nothing while the
\* base driver is starting it.
LEMMA FoundHome ==
  ASSUME RoutingWell, fault = "none", CallTypeOK, LookedUpHome, calls # <<>>
  PROVE  /\ \/ Found(Innermost).original = Home(Innermost)
            \/ Found(Innermost).original = NULL /\ pc = "enumerating" /\ Innermost.from = ctl
         /\ Home(Innermost) \in Controllers \cup HostBridges
<1>1. /\ Routing /\ Innermost.from \in Controllers /\ held[Innermost.from] # NULL
  BY InnermostCall DEF RoutingWell
<1>2. CASE Innermost.proto = "rb"
  <2>1. Found(Innermost).original \in {NULL, Innermost.from}
    BY <1>1, <1>2, InnermostCall, BridgeFoundOrNone
  <2>2. ~(pc = "enumerating" /\ Innermost.from = ctl) =>
           Found(Innermost).original = Innermost.from
    <3>1. ASSUME NEW c \in Controllers, held[c] # NULL, ~(pc = "enumerating" /\ c = ctl)
          PROVE  FindRootBridgeIoProtocolMappingBySubstitute(held[c]).original = c
      <4>1. FindRootBridgeIoProtocolMappingBySubstitute(held[c]) = [at |-> 1, original |-> c]
        BY <1>1, <3>1, StartedFound
      <4> QED
        BY <4>1
    <3> QED
      BY <1>1, <1>2, <3>1, InnermostCall
  <2> QED
    BY <1>1, <1>2, <2>1, <2>2 DEF Home
<1>3. CASE Innermost.proto # "rb"
  <2>1. pc = "enumerating" /\ AllocatorFound /\ Innermost.from = ctl
    BY <1>3, InnermostCall
  <2>2. Found(Innermost).original \in {NULL, HostBridgeOf[ctl]}
    BY <1>1, <1>3, <2>1, InnermostCall, AllocatorFoundOrNone
  <2> QED
    BY <1>1, <1>3, <2>1, <2>2 DEF Home
<1> QED
  BY <1>2, <1>3

\* A function calls through what it has looked up: that is the step of the shim.
\* Unless it is the first undefined access, it calls the right original.
LEMMA CallsHome ==
  ASSUME RoutingWell, CallTypeOK, LookedUpHome, fault = "none", NEW a, Call(a)
  PROVE  /\ Next
         /\ fault' = "none" => Innermost.original = Home(Innermost)
<1> DEFINE f == Innermost
<1>1. calls # <<>> /\ f.stage = "found"
  BY DEF Call, At
<1>2. f \in Frames /\ HomeFrame(Len(calls))
  BY <1>1, TopFrame, LookedUpHomeFrames
<1>3. f.original = Found(f).original /\ f.original \in {Home(f), NULL}
  BY <1>1, <1>2 DEF HomeFrame, Innermost
<1>4. Forward(f.proto, f.from, Found(f).at, Found(f).original)
  BY <1>3 DEF Call
<1>5. UNCHANGED <<binding, pool, ifaces, opens, held, control>>
  BY DEF Call
<1>6. fault' = "none" => f.original = Home(f)
  BY <1>3 DEF Call, Forward
<1>7. CASE f.proto = "rb"
  <2>1. RbCall(f.from) /\ f.from \in Controllers
    BY <1>1, <1>4, <1>5, <1>7, InnermostCall DEF RbCall, CallBridge
  <2> QED
    BY <1>6, <2>1 DEF Next
<1>8. CASE f.proto # "rb"
  <2>1. RaCall
    BY <1>1, <1>4, <1>5, <1>8, InnermostCall DEF RaCall
  <2> QED
    BY <1>6, <2>1 DEF Next
<1> QED
  BY <1>7, <1>8

\* Every step is a step of the shim, or none of its business: a call that takes
\* several steps is the one-step call the shim's invariants were proved with.
LEMMA StepIsShimStep ==
  ASSUME RoutingWell, CallTypeOK, LookedUpHome, [SubNext]_subVars
  PROVE  [Next]_vars
<1>1. CASE fault = "none" /\ Binding
  BY <1>1 DEF Binding, Next
<1>2. ASSUME fault = "none", NEW a \in {"ok", "err"}, CallOriginal(a)
      PROVE  Next
  BY <1>2, CallsHome DEF CallOriginal
<1>3. CASE FindOriginal \/ ReturnAnswer
  BY <1>3 DEF FindOriginal, ReturnAnswer
<1>4. CASE \/ \E c \in Controllers, s \in IoServices : EnterBridge(c, s)
           \/ \E s \in RaServices : EnterAllocator(s)
  BY <1>4 DEF EnterBridge, EnterAllocator, Enter
<1>5. CASE UNCHANGED subVars
  BY <1>5 DEF subVars
<1> QED
  BY <1>1, <1>2, <1>3, <1>4, <1>5 DEF SubNext

-----------------------------------------------------------------------------
(* How the calls under way change.                                         *)

\* A new call comes on top of those under way.
LEMMA Entered ==
  ASSUME CallTypeOK, NEW p \in {"rb", "ra"}, NEW c \in Controllers,
         NEW b \in IoBlocks \cup RaBlocks, NEW s \in ServicesOf(p), Enter(p, c, b, s)
  PROVE  /\ CallTypeOK' /\ Len(calls') = Len(calls) + 1
         /\ \A i \in 1..Len(calls) : calls'[i] = calls[i]
         /\ calls'[Len(calls) + 1] =
              [proto |-> p, from |-> c, substitute |-> b, service |-> s,
               stage |-> "entered", original |-> NULL, answer |-> "none"]
<1> DEFINE f == [proto |-> p, from |-> c, substitute |-> b, service |-> s,
                 stage |-> "entered", original |-> NULL, answer |-> "none"]
<1>1. f \in Frames
  BY DEF Frames, ServicesOf
<1>2. calls \in Seq(Frames) /\ calls' = Append(calls, f)
  BY DEF CallTypeOK, Enter
<1>3. /\ calls' \in Seq(Frames) /\ Len(calls') = Len(calls) + 1
      /\ \A i \in 1..Len(calls) : calls'[i] = calls[i]
      /\ calls'[Len(calls) + 1] = f
  BY <1>1, <1>2, AppendProperties
<1>4. ASSUME NEW i \in 1..Len(calls')
      PROVE  /\ calls'[i].service \in ServicesOf(calls'[i].proto)
             /\ calls'[i].answer = "none" <=> calls'[i].stage # "called"
  <2>1. CASE i = Len(calls) + 1
    BY <1>3, <2>1
  <2>2. CASE i # Len(calls) + 1
    <3>1. i \in 1..Len(calls)
      BY <1>2, <1>3, <2>2, LenProperties
    <3> QED BY <1>3, <3>1 DEF CallTypeOK
  <2> QED BY <2>1, <2>2
<1> QED BY <1>3, <1>4 DEF CallTypeOK

\* A step of the innermost call leaves the others as they are.
LEMMA TopChanged ==
  ASSUME CallTypeOK, calls # <<>>, NEW f \in Frames,
         calls' = [calls EXCEPT ![Len(calls)] = f],
         f.service \in ServicesOf(f.proto), f.answer = "none" <=> f.stage # "called"
  PROVE  /\ CallTypeOK' /\ Len(calls') = Len(calls)
         /\ \A i \in 1..Len(calls) : calls'[i] = IF i = Len(calls) THEN f ELSE calls[i]
<1>1. calls \in Seq(Frames) /\ Len(calls) \in 1..Len(calls)
  BY TopFrame DEF CallTypeOK
<1>2. /\ calls' \in Seq(Frames) /\ Len(calls') = Len(calls)
      /\ \A i \in 1..Len(calls) : calls'[i] = IF i = Len(calls) THEN f ELSE calls[i]
  BY <1>1, ExceptSeq
<1> QED BY <1>2 DEF CallTypeOK

\* A call that has returned is taken off.
LEMMA Returned ==
  ASSUME CallTypeOK, calls # <<>>, calls' = SubSeq(calls, 1, Len(calls) - 1)
  PROVE  /\ CallTypeOK' /\ Len(calls') = Len(calls) - 1
         /\ \A i \in 1..Len(calls') : calls'[i] = calls[i]
<1>1. calls \in Seq(Frames) /\ Len(calls) \in Nat \ {0}
  BY TopFrame DEF CallTypeOK
<1> DEFINE n == Len(calls) - 1
<1>2. n \in Nat /\ \A i \in 1..n : calls[i] \in Frames
  BY <1>1, LenProperties
<1>3. /\ SubSeq(calls, 1, n) \in Seq(Frames)
      /\ Len(SubSeq(calls, 1, n)) = IF 1 <= n THEN n - 1 + 1 ELSE 0
      /\ \A i \in 1..(n - 1 + 1) : SubSeq(calls, 1, n)[i] = calls[1 + i - 1]
  <2> HIDE DEF n
  <2> QED BY <1>2, SubSeqProperties
<1>4. ASSUME NEW i \in 1..n
      PROVE  calls'[i] = calls[i]
  <2>1. i \in 1..(n - 1 + 1) /\ 1 + i - 1 = i
    BY <1>2
  <2> QED BY <1>3, <2>1
<1>5. calls' \in Seq(Frames) /\ Len(calls') = n
  <2>1. calls' = SubSeq(calls, 1, n)
    OBVIOUS
  <2> HIDE DEF n
  <2> QED BY <1>2, <1>3, <2>1
<1>6. 1..Len(calls') = 1..n /\ 1..n \subseteq 1..Len(calls)
  BY <1>1, <1>5
<1>7. \A i \in 1..Len(calls') : calls'[i] = calls[i] /\ i \in 1..Len(calls)
  BY <1>4, <1>6
<1>8. CallTypeOK'
  BY <1>5, <1>7 DEF CallTypeOK
<1> QED BY <1>5, <1>7, <1>8

-----------------------------------------------------------------------------
(* What the functions have looked up stays right: it is looked up in a shim *)
(* that is whole, and neither the shim nor the core moves before they have  *)
(* returned.                                                                *)

\* A frame depends on nothing a call changes but itself.
LEMMA HomeFrameKept ==
  ASSUME UNCHANGED <<pool, ifaces, held, control>>, NEW i \in Nat, calls'[i] = calls[i],
         HomeFrame(i)
  PROVE  HomeFrame(i)'
<1>1. Found(calls[i])' = Found(calls[i])
  BY DEF Found, FindRootBridgeIoProtocolMappingBySubstitute,
     FindResourceAllocationProtocolMappingBySubstitute, FirstAt, pool
<1> QED
  BY <1>1 DEF HomeFrame, Home, pool, ifaces, control

LEMMA EnterHome ==
  ASSUME RoutingWell, CallTypeOK, LookedUpHome, NEW p \in {"rb", "ra"}, NEW s \in ServicesOf(p),
         NEW c \in Controllers, NEW b \in IoBlocks \cup RaBlocks, Enter(p, c, b, s),
         held[c] # NULL,
         IF p = "rb" THEN b = held[c]
                     ELSE /\ calls = <<>> /\ pc = "enumerating" /\ c = ctl
                          /\ b = mapping[held[ctl]].handle /\ b \in raIface
  PROVE  CallTypeOK' /\ LookedUpHome'
<1>1. /\ CallTypeOK' /\ Len(calls') = Len(calls) + 1
      /\ \A i \in 1..Len(calls) : calls'[i] = calls[i]
      /\ calls'[Len(calls) + 1] = [proto |-> p, from |-> c, substitute |-> b, service |-> s,
                                   stage |-> "entered", original |-> NULL, answer |-> "none"]
  BY Entered
<1>2. UNCHANGED <<pool, ifaces, held, control>>
  BY DEF Enter, vars
<1>3. Len(calls) \in Nat
  BY LenProperties DEF CallTypeOK
<1>4. ASSUME NEW i \in 1..Len(calls')
      PROVE  HomeFrame(i)'
  <2>1. CASE i = Len(calls) + 1
    <3>1. p # "rb" => i = 1
      BY <2>1, EmptySeq
    <3> QED BY <1>1, <1>2, <2>1, <3>1 DEF HomeFrame, pool, ifaces, control
  <2>2. CASE i # Len(calls) + 1
    <3>1. i \in 1..Len(calls)
      BY <1>1, <1>3, <2>2
    <3> QED BY <1>1, <1>2, <3>1, HomeFrameKept, LookedUpHomeFrames
  <2> QED BY <2>1, <2>2
<1>5. LookedUpHome'
  BY <1>4, LookedUpHomeFramesNext
<1> QED BY <1>1, <1>5

\* A step of the innermost call that leaves what it is about as it is.
LEMMA TopHome ==
  ASSUME CallTypeOK, LookedUpHome, calls # <<>>, NEW f \in Frames,
         calls' = [calls EXCEPT ![Len(calls)] = f],
         f.proto = Innermost.proto, f.from = Innermost.from,
         f.substitute = Innermost.substitute, f.service = Innermost.service,
         f.answer = "none" <=> f.stage # "called",
         f.stage # "entered", f.original = Found(Innermost).original,
         f.original = Home(Innermost)
           \/ (f.original = NULL /\ pc = "enumerating" /\ Innermost.from = ctl),
         UNCHANGED <<pool, ifaces, held, control>>
  PROVE  CallTypeOK' /\ LookedUpHome'
<1>1. /\ CallTypeOK' /\ Len(calls') = Len(calls)
      /\ \A i \in 1..Len(calls) : calls'[i] = IF i = Len(calls) THEN f ELSE calls[i]
  BY TopFrame, TopChanged
<1>2. Len(calls) \in Nat \ {0} /\ Innermost \in Frames
  BY TopFrame
<1>3. ASSUME NEW i \in 1..Len(calls')
      PROVE  HomeFrame(i)'
  <2>1. i \in 1..Len(calls) /\ HomeFrame(i)
    BY <1>1, LookedUpHomeFrames
  <2>2. CASE i = Len(calls)
    <3>1. calls'[i] = f /\ calls[i] = Innermost
      BY <1>1, <2>1, <2>2 DEF Innermost
    <3>2. Home(f) = Home(Innermost) /\ Found(f)' = Found(Innermost)
      BY DEF Home, Found, FindRootBridgeIoProtocolMappingBySubstitute,
         FindResourceAllocationProtocolMappingBySubstitute, FirstAt, pool
    <3>3. UNCHANGED <<held, pc, ctl, mapping, raIface>>
      BY DEF pool, ifaces, control
    <3> QED BY <2>1, <3>1, <3>2, <3>3 DEF HomeFrame, Home
  <2>3. CASE i # Len(calls)
    <3>1. calls'[i] = calls[i]
      BY <1>1, <2>1, <2>3
    <3>2. i \in Nat
      BY <1>2, <2>1
    <3> QED BY <2>1, <3>1, <3>2, HomeFrameKept
  <2> QED BY <2>2, <2>3
<1> QED BY <1>1, <1>3, LookedUpHomeFramesNext

LEMMA CallsStep ==
  ASSUME RoutingWell, CallTypeOK, LookedUpHome, [SubNext]_subVars
  PROVE  CallTypeOK' /\ LookedUpHome'
<1>1. CASE Binding
  <2>1. calls = <<>> /\ calls' = calls
    BY <1>1 DEF Binding, Quiet
  <2>2. calls' \in Seq(Frames) /\ Len(calls') = 0
    BY <2>1, EmptySeq
  <2> QED BY <2>2 DEF CallTypeOK, LookedUpHome
<1>2. ASSUME NEW c \in Controllers, NEW s \in IoServices, EnterBridge(c, s)
      PROVE  CallTypeOK' /\ LookedUpHome'
  <2>1. held[c] # NULL /\ held[c] \in IoBlocks /\ Enter("rb", c, held[c], s)
    BY <1>2 DEF EnterBridge, RoutingWell, Routing, TypeInv, ShimTypeOK, HandlesTypeOK
  <2> QED BY <2>1, EnterHome DEF ServicesOf
<1>3. ASSUME NEW s \in RaServices, EnterAllocator(s)
      PROVE  CallTypeOK' /\ LookedUpHome'
  <2> DEFINE b == mapping[held[ctl]].handle
  <2>1. /\ pc = "enumerating" /\ b \in raIface /\ calls = <<>>
        /\ Enter("ra", ctl, b, s)
    BY <1>3 DEF EnterAllocator, AllocatorFound, Quiet
  <2>2. ctl \in Controllers /\ b \in RaBlocks /\ held[ctl] # NULL
    BY <2>1 DEF RoutingWell, Routing, TypeInv, ShimTypeOK, HandlesTypeOK, ControlTypeOK,
       StartsFresh
  <2> HIDE DEF b
  <2> QED BY <2>1, <2>2, EnterHome DEF ServicesOf, b
<1>4. ASSUME fault = "none", FindOriginal
      PROVE  CallTypeOK' /\ LookedUpHome'
  <2> DEFINE f == [Innermost EXCEPT !.stage = "found", !.original = Found(Innermost).original]
  <2>1. calls # <<>> /\ Innermost.stage = "entered"
    BY <1>4 DEF FindOriginal, At
  <2>2. Innermost \in Frames /\ Innermost.answer = "none"
    BY <2>1, TopFrame
  <2>3. /\ \/ Found(Innermost).original = Home(Innermost)
           \/ Found(Innermost).original = NULL /\ pc = "enumerating" /\ Innermost.from = ctl
        /\ Home(Innermost) \in Controllers \cup HostBridges
    BY <1>4, <2>1, FoundHome
  <2>4. calls' = [calls EXCEPT ![Len(calls)] = f]
    BY <1>4 DEF FindOriginal, Innermost
  <2>5. f \in Frames
    BY <2>2, <2>3 DEF Frames
  <2>6. UNCHANGED <<pool, ifaces, held, control>>
    BY <1>4 DEF FindOriginal, vars
  <2>7. /\ f.proto = Innermost.proto /\ f.from = Innermost.from /\ f.service = Innermost.service
        /\ f.substitute = Innermost.substitute /\ f.stage = "found"
        /\ f.original = Found(Innermost).original /\ f.answer = "none"
    BY <2>2 DEF Frames
  <2> HIDE DEF f
  <2> QED BY <2>1, <2>3, <2>4, <2>5, <2>6, <2>7, TopHome
<1>5. ASSUME NEW a \in {"ok", "err"}, Call(a), fault' = "none"
      PROVE  CallTypeOK' /\ LookedUpHome'
  <2> DEFINE f == [Innermost EXCEPT !.stage = "called", !.answer = a]
  <2>1. calls # <<>> /\ Innermost.stage = "found"
    BY <1>5 DEF Call, At
  <2>2. Innermost \in Frames /\ HomeFrame(Len(calls))
    BY <2>1, TopFrame, LookedUpHomeFrames
  <2>3. /\ Innermost.original = Found(Innermost).original
        /\ \/ Innermost.original = Home(Innermost)
           \/ Innermost.original = NULL /\ pc = "enumerating" /\ Innermost.from = ctl
    BY <2>1, <2>2 DEF HomeFrame, Innermost
  <2>4. calls' = [calls EXCEPT ![Len(calls)] = f]
    BY <1>5 DEF Call, Innermost
  <2>5. f \in Frames
    BY <2>2 DEF Frames
  <2>6. UNCHANGED <<pool, ifaces, held, control>>
    BY <1>5 DEF Call
  <2>7. /\ f.proto = Innermost.proto /\ f.from = Innermost.from /\ f.service = Innermost.service
        /\ f.substitute = Innermost.substitute /\ f.stage = "called"
        /\ f.original = Innermost.original /\ f.answer = a
    BY <2>2 DEF Frames
  <2> HIDE DEF f
  <2> QED BY <2>1, <2>3, <2>4, <2>5, <2>6, <2>7, TopHome
<1>6. CASE ReturnAnswer
  <2>1. calls # <<>> /\ calls' = SubSeq(calls, 1, Len(calls) - 1)
    BY <1>6 DEF ReturnAnswer, At
  <2>2. /\ CallTypeOK' /\ Len(calls') = Len(calls) - 1
        /\ \A i \in 1..Len(calls') : calls'[i] = calls[i]
    BY <2>1, Returned
  <2>3. UNCHANGED <<pool, ifaces, held, control>>
    BY <1>6 DEF ReturnAnswer, vars
  <2>4. ASSUME NEW i \in 1..Len(calls')
        PROVE  HomeFrame(i)'
    <3>1. i \in 1..Len(calls)
      BY <2>1, <2>2, TopFrame
    <3> QED BY <2>2, <2>3, <3>1, HomeFrameKept, LookedUpHomeFrames
  <2> QED BY <2>2, <2>4, LookedUpHomeFramesNext
<1>7. ASSUME UNCHANGED <<calls, pool, ifaces, held, control>>
      PROVE  CallTypeOK' /\ LookedUpHome'
  <2>1. \A i \in 1..Len(calls') : i \in Nat /\ HomeFrame(i)
    BY <1>7, LookedUpHomeFrames
  <2>2. \A i \in 1..Len(calls') : HomeFrame(i)'
    BY <1>7, <2>1, HomeFrameKept
  <2> QED BY <1>7, <2>2, LookedUpHomeFramesNext DEF CallTypeOK
<1>8. ASSUME NEW a \in {"ok", "err"}, Call(a), fault' # "none"
      PROVE  CallTypeOK' /\ LookedUpHome'
  BY <1>7, <1>8 DEF Call
<1>9. CASE UNCHANGED subVars
  BY <1>7, <1>9 DEF subVars, vars
<1> QED
  BY <1>1, <1>2, <1>3, <1>4, <1>5, <1>6, <1>8, <1>9 DEF SubNext, CallOriginal

LEMMA SubInitOK == SubInit => RoutingWell /\ CallTypeOK /\ LookedUpHome
<1>1. SubInit => RoutingWell
  BY RoutingInit DEF SubInit
<1>2. SubInit => calls \in Seq(Frames) /\ Len(calls) = 0
  BY EmptySeq DEF SubInit
<1> QED BY <1>1, <1>2 DEF CallTypeOK, LookedUpHome

LEMMA SubInvariant ==
  SubSpec => [](RoutingWell /\ CallTypeOK /\ LookedUpHome)
<1>1. ASSUME RoutingWell, CallTypeOK, LookedUpHome, [SubNext]_subVars
      PROVE  (RoutingWell /\ CallTypeOK /\ LookedUpHome)'
  BY <1>1, StepIsShimStep, RoutingStep, CallsStep
<1> QED BY <1>1, SubInitOK, PTL DEF SubSpec

\* However deep calls are nested, what each has looked up is the original of its
\* own bridge, or host bridge, until it is used.
THEOREM LookedUpHomeAlways == SubSpec => []LookedUpHome
BY SubInvariant, PTL

\* The frames of the calls are what their stages say, for any depth of nesting.
THEOREM CallTypeCorrect == SubSpec => []CallTypeOK
BY SubInvariant, PTL

-----------------------------------------------------------------------------
(* What the callers see.                                                   *)

\* Every slot calls the member it stands for and passes on what it was given.
LEMMA SlotsPassOn ==
  ASSUME NEW p \in {"rb", "ra"}, NEW s \in ServicesOf(p), NEW a
  PROVE  Slot(p, s, a) = [service |-> s, args |-> a]
<1>1. CASE p = "rb"
  BY <1>1 DEF ServicesOf, IoServices, Slot, RootBridgeIoSlot, Passes,
     RootBridgeIoPollMem, RootBridgeIoPollIo, RootBridgeIoMemRead, RootBridgeIoMemWrite,
     RootBridgeIoIoRead, RootBridgeIoIoWrite, RootBridgeIoCopyMem, RootBridgeIoPciRead,
     RootBridgeIoPciWrite, RootBridgeIoMap, RootBridgeIoUnmap, RootBridgeIoAllocateBuffer,
     RootBridgeIoFreeBuffer, RootBridgeIoFlush, RootBridgeIoGetAttributes,
     RootBridgeIoSetAttributes, RootBridgeIoConfiguration
<1>2. CASE p = "ra"
  BY <1>2 DEF ServicesOf, RaServices, Slot, AllocatorSlot, Passes, NotifyPhase,
     GetNextRootBridge, GetAttributes, StartBusEnumeration, SetBusNumbers, SubmitResources,
     GetProposedResources, PreprocessController
<1> QED BY <1>1, <1>2

\* A call as its caller sees it.
Seen(f) == [proto |-> f.proto, from |-> f.from, service |-> f.service, answer |-> f.answer]

Views ==
  [ proto : {"rb", "ra"}, from : Controllers, service : IoServices \cup RaServices,
    answer : {"none", "ok", "err"} ]

LEMMA SeenSeq ==
  ASSUME NEW cs \in Seq(Frames), NEW u, u = [i \in 1..Len(cs) |-> Seen(cs[i])]
  PROVE  u \in Seq(Views) /\ Len(u) = Len(cs) /\ \A i \in 1..Len(cs) : u[i] = Seen(cs[i])
<1>1. Len(cs) \in Nat /\ \A i \in 1..Len(cs) : cs[i] \in Frames
  BY LenProperties
<1>2. \A i \in 1..Len(cs) : Seen(cs[i]) \in Views
  BY <1>1 DEF Seen, Views, Frames
<1>3. u \in [1..Len(cs) -> Views]
  BY <1>2
<1>4. u \in Seq(Views)
  BY <1>1, <1>3, SeqDef
<1>5. 1..Len(u) = 1..Len(cs) /\ Len(u) \in Nat
  BY <1>3, <1>4, LenProperties
<1>6. Len(u) = Len(cs)
  BY <1>1, <1>5
<1> QED BY <1>4, <1>6

LEMMA UnansweredSeen ==
  ASSUME CallTypeOK
  PROVE  /\ Unanswered \in Seq(Views) /\ Len(Unanswered) = Len(calls)
         /\ \A i \in 1..Len(calls) : Unanswered[i] = Seen(calls[i])
         /\ Len(calls) \in Nat
BY SeenSeq, LenProperties DEF CallTypeOK, Unanswered, Seen

LEMMA UnansweredSeenNext ==
  ASSUME CallTypeOK'
  PROVE  /\ Unanswered' \in Seq(Views) /\ Len(Unanswered') = Len(calls')
         /\ \A i \in 1..Len(calls') : Unanswered'[i] = Seen(calls'[i])
         /\ Len(calls') \in Nat
BY SeenSeq, LenProperties DEF CallTypeOK, Unanswered, Seen

\* A caller enters a substitute: it asks for a service.
LEMMA EnterAsks ==
  ASSUME CallTypeOK, NEW p \in {"rb", "ra"}, NEW c \in Controllers,
         NEW b \in IoBlocks \cup RaBlocks, NEW s \in ServicesOf(p), Enter(p, c, b, s)
  PROVE  Services!Next
<1> DEFINE v == [proto |-> p, from |-> c, service |-> s, answer |-> "none"]
<1>1. /\ CallTypeOK' /\ Len(calls') = Len(calls) + 1
      /\ \A i \in 1..Len(calls) : calls'[i] = calls[i]
      /\ calls'[Len(calls) + 1] = [proto |-> p, from |-> c, substitute |-> b, service |-> s,
                                   stage |-> "entered", original |-> NULL, answer |-> "none"]
  BY Entered
<1>2. v \in Views
  BY DEF Views, ServicesOf
<1>3. Seen(calls'[Len(calls) + 1]) = v
  BY <1>1 DEF Seen
<1> HIDE DEF v
<1>4. /\ Append(Unanswered, v) \in Seq(Views)
      /\ Len(Append(Unanswered, v)) = Len(Unanswered) + 1
      /\ \A i \in 1..Len(Unanswered) : Append(Unanswered, v)[i] = Unanswered[i]
      /\ Append(Unanswered, v)[Len(Unanswered) + 1] = v
  BY <1>2, UnansweredSeen, AppendProperties
<1>5. Len(Unanswered') = Len(Append(Unanswered, v)) /\ Unanswered' \in Seq(Views)
  BY <1>1, <1>4, UnansweredSeen, UnansweredSeenNext
<1>6. ASSUME NEW i \in 1..Len(Unanswered')
      PROVE  Unanswered'[i] = Append(Unanswered, v)[i]
  <2>1. Unanswered'[i] = Seen(calls'[i]) /\ i \in 1..(Len(calls) + 1)
    BY <1>1, UnansweredSeenNext
  <2>2. CASE i = Len(calls) + 1
    BY <1>3, <1>4, <2>1, <2>2, UnansweredSeen
  <2>3. CASE i # Len(calls) + 1
    <3>1. i \in 1..Len(calls)
      BY <2>1, <2>3, UnansweredSeen
    <3> QED BY <1>1, <1>4, <2>1, <3>1, UnansweredSeen
  <2> QED BY <2>2, <2>3
<1>7. Unanswered' = Append(Unanswered, v)
  BY <1>4, <1>5, <1>6, SeqEqual
<1>8. Services!Ask(p, c, s)
  BY <1>7 DEF Services!Ask, Enter, v
<1> QED BY <1>8 DEF Services!Next

\* What the innermost frame is to the shim it is to the caller.
LEMMA InnermostSeen ==
  ASSUME CallTypeOK, calls # <<>>
  PROVE  Unanswered # <<>> /\ Services!Innermost = Seen(Innermost)
<1>1. Len(calls) \in 1..Len(calls) /\ Len(Unanswered) # 0
  BY TopFrame, UnansweredSeen
<1>2. Len(<<>>) = 0
  BY EmptySeq
<1> QED BY <1>1, <1>2, UnansweredSeen DEF Services!Innermost, Innermost

\* A step of the innermost call within its function shows its status at most.
LEMMA TopSeen ==
  ASSUME CallTypeOK, calls # <<>>, NEW f \in Frames,
         calls' = [calls EXCEPT ![Len(calls)] = f],
         f.service \in ServicesOf(f.proto), f.answer = "none" <=> f.stage # "called"
  PROVE  /\ Unanswered' = [Unanswered EXCEPT ![Len(Unanswered)] = Seen(f)]
         /\ Seen(f) = Seen(Innermost) => Unanswered' = Unanswered
<1>1. /\ CallTypeOK' /\ Len(calls') = Len(calls)
      /\ \A i \in 1..Len(calls) : calls'[i] = IF i = Len(calls) THEN f ELSE calls[i]
  BY TopChanged
<1>2. Seen(f) \in Views
  BY DEF Seen, Views, Frames
<1>3. Len(calls) \in 1..Len(calls) /\ Seen(Innermost) = Unanswered[Len(calls)]
  BY TopFrame, UnansweredSeen DEF Innermost
<1> DEFINE w == [Unanswered EXCEPT ![Len(Unanswered)] = Seen(f)]
<1>4. /\ w \in Seq(Views) /\ Len(w) = Len(Unanswered)
      /\ \A i \in 1..Len(Unanswered) :
           w[i] = IF i = Len(Unanswered) THEN Seen(f) ELSE Unanswered[i]
  BY <1>2, <1>3, UnansweredSeen, ExceptSeq
<1> HIDE DEF w
<1>5. ASSUME NEW i \in 1..Len(Unanswered')
      PROVE  /\ Unanswered'[i] = w[i]
             /\ Seen(f) = Seen(Innermost) => Unanswered'[i] = Unanswered[i]
  <2>1. i \in 1..Len(calls) /\ Unanswered'[i] = Seen(calls'[i])
    BY <1>1, UnansweredSeenNext
  <2>2. CASE i = Len(calls)
    BY <1>1, <1>3, <1>4, <2>1, <2>2, UnansweredSeen
  <2>3. CASE i # Len(calls)
    BY <1>1, <1>4, <2>1, <2>3, UnansweredSeen
  <2> QED BY <2>2, <2>3
<1>6. /\ Unanswered \in Seq(Views) /\ Unanswered' \in Seq(Views)
      /\ Len(Unanswered') = Len(Unanswered) /\ Len(Unanswered') = Len(w)
  BY <1>1, <1>4, UnansweredSeen, UnansweredSeenNext
<1>7. Unanswered' = w
  BY <1>4, <1>5, <1>6, SeqEqual
<1>8. Seen(f) = Seen(Innermost) => Unanswered' = Unanswered
  BY <1>5, <1>6, SeqEqual
<1> QED BY <1>7, <1>8 DEF w

LEMMA CallPerforms ==
  ASSUME RoutingWell, CallTypeOK, LookedUpHome, fault = "none",
         NEW a \in {"ok", "err"}, CallOriginal(a), fault' = "none"
  PROVE  Services!Next
<1> DEFINE f == [Innermost EXCEPT !.stage = "called", !.answer = a]
<1>1. Call(a) /\ Performed(Innermost.original, Innermost.original)
  BY DEF CallOriginal
<1>2. calls # <<>> /\ Innermost.stage = "found" /\ calls' = [calls EXCEPT ![Len(calls)] = f]
  BY <1>1 DEF Call, At, Innermost
<1>3. /\ Innermost \in Frames /\ Innermost.service \in ServicesOf(Innermost.proto)
      /\ Innermost.answer = "none"
  BY <1>2, TopFrame
<1>4. /\ f \in Frames /\ f.service = Innermost.service /\ f.proto = Innermost.proto
      /\ f.stage = "called" /\ f.answer = a /\ f.from = Innermost.from
  BY <1>3 DEF Frames
<1>5. Unanswered # <<>> /\ Services!Innermost = Seen(Innermost)
  BY <1>2, InnermostSeen
<1>6. Seen(f) = [Seen(Innermost) EXCEPT !.answer = a]
  BY <1>4 DEF Seen
<1> HIDE DEF f
<1>7. Unanswered' = [Unanswered EXCEPT ![Len(Unanswered)] = Seen(f)]
  BY <1>2, <1>3, <1>4, TopSeen
<1>8. Unanswered' = [Unanswered EXCEPT ![Len(Unanswered)].answer = a]
  BY <1>5, <1>6, <1>7 DEF Services!Innermost
<1>9. fault' = "none" /\ Innermost.original = Home(Innermost)
  BY <1>1, CallsHome
<1> DEFINE s == Innermost.service
           home == Home(Innermost)
<1>10. Slot(Innermost.proto, s, ArgsOf(s)) = [service |-> s, args |-> ArgsOf(s)]
  BY <1>3, SlotsPassOn DEF Frames
<1>11. event' = [kind |-> "performed", at |-> home, this |-> home,
                 service |-> s, args |-> ArgsOf(s)]
  BY <1>1, <1>9, <1>10 DEF Performed
<1>12. /\ Seen(Innermost).answer = "none" /\ Seen(Innermost).service = s
       /\ Services!Home(Seen(Innermost).proto, Seen(Innermost).from) = home
  BY <1>3 DEF Seen, Services!Home, Home
<1>13. Services!Perform(a)
  BY <1>5, <1>8, <1>11, <1>12 DEF Services!Perform
<1> QED BY <1>13 DEF Services!Next, Services!Answers

LEMMA ReturnAnswers ==
  ASSUME CallTypeOK, ReturnAnswer
  PROVE  Services!Next
<1> DEFINE n == Len(Unanswered) - 1
<1>1. /\ calls # <<>> /\ Innermost.stage = "called"
      /\ calls' = SubSeq(calls, 1, Len(calls) - 1)
  BY DEF ReturnAnswer, At
<1>2. Innermost \in Frames /\ Innermost.answer # "none" /\ Len(calls) \in Nat \ {0}
  BY <1>1, TopFrame
<1>3. /\ CallTypeOK' /\ Len(calls') = Len(calls) - 1
      /\ \A i \in 1..Len(calls') : calls'[i] = calls[i]
  BY <1>1, Returned
<1>4. n \in Nat /\ n = Len(calls') /\ \A i \in 1..n : Unanswered[i] \in Views
  BY <1>2, <1>3, UnansweredSeen, LenProperties
<1>5. /\ SubSeq(Unanswered, 1, n) \in Seq(Views)
      /\ Len(SubSeq(Unanswered, 1, n)) = IF 1 <= n THEN n - 1 + 1 ELSE 0
      /\ \A i \in 1..(n - 1 + 1) : SubSeq(Unanswered, 1, n)[i] = Unanswered[1 + i - 1]
  <2> HIDE DEF n
  <2> QED BY <1>4, SubSeqProperties
<1>6. ASSUME NEW i \in 1..n
      PROVE  Unanswered'[i] = SubSeq(Unanswered, 1, n)[i]
  <2>1. i \in 1..(n - 1 + 1) /\ 1 + i - 1 = i
    BY <1>4
  <2>2. i \in 1..Len(calls') /\ i \in 1..Len(calls)
    BY <1>2, <1>3, <1>4
  <2>3. Unanswered'[i] = Unanswered[i]
    BY <1>3, <2>2, UnansweredSeen, UnansweredSeenNext
  <2> QED BY <1>5, <2>1, <2>3
<1>7. /\ Unanswered' \in Seq(Views) /\ Len(Unanswered') = n
      /\ Len(SubSeq(Unanswered, 1, n)) = n
  <2> HIDE DEF n
  <2> QED BY <1>3, <1>4, <1>5, UnansweredSeenNext
<1>8. Unanswered' = SubSeq(Unanswered, 1, n)
  <2> HIDE DEF n
  <2> QED BY <1>5, <1>6, <1>7, SeqEqual
<1>9. Unanswered # <<>> /\ Services!Innermost = Seen(Innermost)
  BY <1>1, InnermostSeen
<1>10. /\ Seen(Innermost).answer \in {"ok", "err"}
       /\ event' = [kind |-> "answered", to |-> Seen(Innermost).from,
                    service |-> Seen(Innermost).service, answer |-> Seen(Innermost).answer]
  BY <1>2 DEF Seen, Frames, ReturnAnswer
<1>11. Services!Answer
  BY <1>8, <1>9, <1>10 DEF Services!Answer, Services!Answers
<1> QED BY <1>11 DEF Services!Next

\* A look-up shows nothing.
LEMMA FindHidden ==
  ASSUME RoutingWell, fault = "none", CallTypeOK, LookedUpHome, FindOriginal
  PROVE  UNCHANGED Services!vars
<1> DEFINE f == [Innermost EXCEPT !.stage = "found", !.original = Found(Innermost).original]
<1>1. calls # <<>> /\ Innermost.stage = "entered" /\ UNCHANGED event
  BY DEF FindOriginal, At
<1>2. /\ Innermost \in Frames /\ Innermost.service \in ServicesOf(Innermost.proto)
      /\ Innermost.answer = "none"
  BY <1>1, TopFrame
<1>3. calls' = [calls EXCEPT ![Len(calls)] = f]
  BY DEF FindOriginal, Innermost
<1>4. /\ f \in Frames /\ f.service = Innermost.service /\ f.proto = Innermost.proto
      /\ f.stage = "found" /\ f.answer = "none"
  BY <1>1, <1>2, FoundHome DEF Frames
<1>5. Seen(f) = Seen(Innermost)
  BY <1>2 DEF Seen, Frames
<1> HIDE DEF f
<1>6. Unanswered' = Unanswered
  BY <1>1, <1>2, <1>3, <1>4, <1>5, TopSeen
<1> QED BY <1>1, <1>6 DEF Services!vars

LEMMA ServicesStep ==
  ASSUME RoutingWell, CallTypeOK, LookedUpHome, [SubNext]_subVars
  PROVE  [Services!Next]_(Services!vars)
<1>1. CASE Binding \/ UNCHANGED subVars
  BY <1>1 DEF Binding, subVars, Services!vars, Unanswered
<1>2. ASSUME NEW c \in Controllers, NEW s \in IoServices, EnterBridge(c, s)
      PROVE  Services!Next
  <2>1. held[c] \in IoBlocks /\ Enter("rb", c, held[c], s)
    BY <1>2 DEF EnterBridge, RoutingWell, Routing, TypeInv, ShimTypeOK, HandlesTypeOK
  <2> QED BY <2>1, EnterAsks DEF ServicesOf
<1>3. ASSUME NEW s \in RaServices, EnterAllocator(s)
      PROVE  Services!Next
  <2>1. /\ pc = "enumerating" /\ mapping[held[ctl]].handle \in raIface
        /\ Enter("ra", ctl, mapping[held[ctl]].handle, s)
    BY <1>3 DEF EnterAllocator, AllocatorFound
  <2>2. ctl \in Controllers /\ mapping[held[ctl]].handle \in RaBlocks
    BY <2>1 DEF RoutingWell, Routing, TypeInv, ShimTypeOK, HandlesTypeOK, ControlTypeOK
  <2> QED BY <2>1, <2>2, EnterAsks DEF ServicesOf
<1>4. ASSUME fault = "none", FindOriginal
      PROVE  UNCHANGED Services!vars
  BY <1>4, FindHidden
<1>5. ASSUME fault = "none", NEW a \in {"ok", "err"}, CallOriginal(a)
      PROVE  [Services!Next]_(Services!vars)
  <2>1. CASE fault' = "none"
    BY <1>5, <2>1, CallPerforms
  <2>2. CASE fault' # "none"
    BY <1>5, <2>2 DEF CallOriginal, Call, Performed, Services!vars, Unanswered
  <2> QED BY <2>1, <2>2
<1>6. CASE ReturnAnswer
  BY <1>6, ReturnAnswers
<1> QED BY <1>1, <1>2, <1>3, <1>4, <1>5, <1>6 DEF SubNext

\* A caller cannot tell a substitute from the original, for any number of root
\* bridges, of services under way and of calls nested in each other.
THEOREM SubstitutesAreTransparent == SubSpec => IsTransparent
<1>1. SubInit => Services!Init
  <2>1. SubInit => Unanswered = <<>>
    BY DEF SubInit, Unanswered
  <2> QED BY <2>1 DEF SubInit, Services!Init
<1> QED BY <1>1, SubInvariant, ServicesStep, PTL DEF SubSpec, IsTransparent, Services!Spec
=============================================================================
