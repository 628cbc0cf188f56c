--------------------------- MODULE AutoLoopProofs ---------------------------
(***************************************************************************)
(* How far the limits of the auto mode loop are kept, for any number of    *)
(* features and of loops that overlap, any limits and any dependencies.    *)
(***************************************************************************)
EXTENDS AutoLoop, FiniteSetTheorems, TLAPS

\* Sets of features, and of loops, can be counted.
LEMMA FeatureCount ==
  ASSUME NEW S \in SUBSET Feature
  PROVE  IsFiniteSet(S) /\ Cardinality(S) \in Nat
<1>1. IsFiniteSet(Feature)
  BY FS_Interval, SizeAssumption DEF Feature
<1>2. IsFiniteSet(S)
  BY <1>1, FS_Subset
<1>. QED  BY <1>2, FS_CardinalityType

LEMMA LoopCount ==
  ASSUME NEW S \in SUBSET Loop
  PROVE  /\ IsFiniteSet(S) /\ Cardinality(S) \in Nat /\ Cardinality(Loop) \in Nat
         /\ Cardinality(S) <= Cardinality(Loop)
BY FS_Subset, FS_CardinalityType, LoopAssumption

-----------------------------------------------------------------------------
LEMMA InitType == Init => TypeOK
<1>1. 0 \in 0 .. Threshold
  BY LimitAssumption
<1>. SUFFICES ASSUME Init
              PROVE  TypeOK
  OBVIOUS
<1>2. Unread \in [Feature -> {"unread", "pending", "done", "other"}]
  BY DEF Unread
<1>3. /\ status \in [Feature -> Status] /\ phase \in [Feature -> Phase]
      /\ entry \in [Feature -> {"none", "auto", "manual"}]
      /\ \A f \in Feature : phase[f] = "none" <=> entry[f] = "none"
  BY DEF Init, Status, Phase
<1>4. deps \in [Feature -> SUBSET Feature] /\ resuming \in [Feature -> Nat]
  BY GraphsAssumption DEF Init
<1>5. /\ pc \in [Loop -> {"idle", "wait", "load"}]
      /\ seen \in [Loop -> [Feature -> {"unread", "pending", "done", "other"}]]
  BY <1>2 DEF Init
<1>. QED  BY <1>1, <1>3, <1>4, <1>5 DEF Init, TypeOK

\* A step of a loop.
LEMMA LoopType ==
  ASSUME TypeOK, NEW l \in Loop, LoopNext(l)
  PROVE  TypeOK'
<1>1. CASE Start(l)
  <2>1. 0 \in 0 .. Threshold
    BY LimitAssumption
  <2>. QED  BY <1>1, <2>1 DEF Start, TypeOK, features
<1>2. CASE Turn(l)
  BY <1>2 DEF Turn, TypeOK, Unread, features, control, history
<1>3. CASE Pick(l)
  <2>1. /\ pc' \in [Loop -> {"idle", "wait", "load"}]
        /\ seen' \in [Loop -> [Feature -> {"unread", "pending", "done", "other"}]]
    BY <1>3 DEF Pick, TypeOK, Unread
  <2>2. CASE UNCHANGED <<features, late>>
    BY <1>3, <2>1, <2>2 DEF Pick, TypeOK, features, control
  <2>3. ASSUME NEW f \in Feature,
               entry' = [entry EXCEPT ![f] = "auto"], phase' = [phase EXCEPT ![f] = "start"],
               late' = IF running THEN late ELSE late + 1, UNCHANGED <<status, resuming>>
        PROVE  TypeOK'
    <3>1. late' \in Nat
      BY <2>3 DEF TypeOK
    <3>2. /\ entry' \in [Feature -> {"none", "auto", "manual"}]
          /\ phase' \in [Feature -> Phase]
          /\ \A g \in Feature : phase'[g] = "none" <=> entry'[g] = "none"
      BY <2>3 DEF TypeOK, Phase
    <3>. QED  BY <1>3, <2>1, <2>3, <3>1, <3>2 DEF Pick, TypeOK, control
  <2>. QED  BY <1>3, <2>2, <2>3 DEF Pick, Ready
<1>4. ASSUME NEW f \in Feature, Read(l, f)
      PROVE  TypeOK'
  <2>1. ClassOf(status[f]) \in {"unread", "pending", "done", "other"}
    BY DEF ClassOf
  <2>. QED  BY <1>4, <2>1 DEF Read, TypeOK, features, control, history
<1>. QED  BY <1>1, <1>2, <1>3, <1>4 DEF LoopNext

\* What the steps of a run do to the entry and the phase of a feature.
LEMMA EntryType ==
  ASSUME TypeOK, NEW f \in Feature, NEW e \in {"none", "auto", "manual"}, NEW p \in Phase,
         e = "none" <=> p = "none",
         entry' = [entry EXCEPT ![f] = e], phase' = [phase EXCEPT ![f] = p]
  PROVE  /\ entry' \in [Feature -> {"none", "auto", "manual"}]
         /\ phase' \in [Feature -> Phase]
         /\ \A g \in Feature : phase'[g] = "none" <=> entry'[g] = "none"
BY DEF TypeOK

\* A step of a run.
LEMMA RunType ==
  ASSUME TypeOK, NEW f \in Feature, RunNext(f)
  PROVE  TypeOK'
<1>1. CASE ExecuteByHand(f)
  <2>1. /\ entry' \in [Feature -> {"none", "auto", "manual"}]
        /\ phase' \in [Feature -> Phase]
        /\ \A g \in Feature : phase'[g] = "none" <=> entry'[g] = "none"
    BY <1>1, EntryType DEF ExecuteByHand, Goto, Phase
  <2>. QED  BY <1>1, <2>1 DEF ExecuteByHand, TypeOK, loops, control, history
<1>2. CASE HandOver(f)
  <2>1. /\ entry' \in [Feature -> {"none", "auto", "manual"}]
        /\ phase' \in [Feature -> Phase]
        /\ \A g \in Feature : phase'[g] = "none" <=> entry'[g] = "none"
    BY <1>2, EntryType DEF HandOver, Leave, Phase
  <2>2. resuming' \in [Feature -> Nat]
    BY <1>2 DEF HandOver, TypeOK
  <2>. QED  BY <1>2, <2>1, <2>2 DEF HandOver, TypeOK, loops, control, history
<1>3. CASE Resume(f)
  <2>1. /\ entry' \in [Feature -> {"none", "auto", "manual"}]
        /\ phase' \in [Feature -> Phase]
        /\ \A g \in Feature : phase'[g] = "none" <=> entry'[g] = "none"
    <3>1. CASE UNCHANGED <<entry, phase>>
      BY <3>1 DEF TypeOK
    <3>2. CASE entry' = [entry EXCEPT ![f] = "manual"] /\ Goto(f, "resumed")
      BY <3>2, EntryType DEF Goto, Phase
    <3>. QED  BY <1>3, <3>1, <3>2 DEF Resume
  <2>2. resuming' \in [Feature -> Nat]
    BY <1>3 DEF Resume, TypeOK
  <2>. QED  BY <1>3, <2>1, <2>2 DEF Resume, TypeOK, loops, control, history
<1>4. CASE Work(f)
  BY <1>4 DEF Work, Goto, SetStatus, TypeOK, Phase, Status, loops, control, history
<1>5. CASE Fail(f)
  BY <1>5 DEF Fail, Goto, SetStatus, TypeOK, Phase, Status, loops, control, history
<1>6. CASE TrackFailure(f)
  <2>1. /\ entry' \in [Feature -> {"none", "auto", "manual"}]
        /\ phase' \in [Feature -> Phase]
        /\ \A g \in Feature : phase'[g] = "none" <=> entry'[g] = "none"
    BY <1>6, EntryType DEF TrackFailure, Leave, Phase
  <2>2. /\ failures' \in 0 .. Threshold /\ late' \in Nat
        /\ running' \in BOOLEAN /\ paused' \in BOOLEAN
    BY <1>6, LimitAssumption DEF TrackFailure, TypeOK
  <2>. QED  BY <1>6, <2>1, <2>2 DEF TrackFailure, TypeOK, loops
<1>7. CASE Succeed(f)
  <2>1. 0 \in 0 .. Threshold
    BY LimitAssumption
  <2>2. /\ phase' \in [Feature -> Phase]
        /\ \A g \in Feature : phase'[g] = "none" <=> entry'[g] = "none"
    BY <1>7 DEF Succeed, Goto, TypeOK, Phase
  <2>3. status' \in [Feature -> Status] /\ finished' \in SUBSET Feature
    BY <1>7 DEF Succeed, SetStatus, TypeOK, Status
  <2>. QED  BY <1>7, <2>1, <2>2, <2>3 DEF Succeed, TypeOK, loops
<1>8. CASE End(f)
  <2>1. /\ entry' \in [Feature -> {"none", "auto", "manual"}]
        /\ phase' \in [Feature -> Phase]
        /\ \A g \in Feature : phase'[g] = "none" <=> entry'[g] = "none"
    BY <1>8, EntryType DEF End, Leave, Phase
  <2>. QED  BY <1>8, <2>1 DEF End, TypeOK, loops, control, history
<1>9. CASE Verify(f)
  BY <1>9 DEF Verify, SetStatus, TypeOK, Status, loops, control
<1>. QED  BY <1>1, <1>2, <1>3, <1>4, <1>5, <1>6, <1>7, <1>8, <1>9 DEF RunNext

LEMMA NextType == TypeOK /\ [Next]_vars => TypeOK'
<1>1. CASE Stop
  BY <1>1 DEF Stop, TypeOK, loops, features
<1>2. CASE UNCHANGED vars
  BY <1>2 DEF TypeOK, vars, loops, control, features, history
<1>. QED  BY <1>1, <1>2, LoopType, RunType DEF Next

\* Every state variable has its type, and a run has an entry until it ends.
THEOREM TypeCorrect == Spec => []TypeOK
BY InitType, NextType, PTL DEF Spec

-----------------------------------------------------------------------------
(***************************************************************************)
(* What a step does to the sets that are counted.                          *)
(***************************************************************************)
\* Only Turn adds to the loops that load and only Pick to the features that
\* loops have begun; Pick takes a loop from the ones that load.
LEMMA Counts ==
  ASSUME TypeOK, [Next]_vars
  PROVE  \/ ByLoop' \subseteq ByLoop /\ Loading' = Loading
         \/ \E l \in Loop : Turn(l) /\ ByLoop' = ByLoop
         \/ \E l \in Loading : /\ Pick(l) /\ Loading' = Loading \ {l}
                              /\ \E f : ByLoop' \subseteq ByLoop \cup {f}
<1>1. ASSUME NEW l \in Loop, Start(l) \/ \E f \in Feature : Read(l, f)
      PROVE  ByLoop' \subseteq ByLoop /\ Loading' = Loading
  BY <1>1 DEF Start, Read, TypeOK, ByLoop, Loading, features
<1>2. ASSUME NEW l \in Loop, Turn(l)
      PROVE  ByLoop' = ByLoop
  BY <1>2 DEF Turn, ByLoop, features
<1>3. ASSUME NEW l \in Loop, Pick(l)
      PROVE  /\ l \in Loading /\ Loading' = Loading \ {l}
             /\ \E f : ByLoop' \subseteq ByLoop \cup {f}
  <2>1. l \in Loading /\ Loading' = Loading \ {l}
    BY <1>3 DEF Pick, TypeOK, Loading
  <2>2. ASSUME UNCHANGED entry
        PROVE  \E f : ByLoop' \subseteq ByLoop \cup {f}
    <3>1. ByLoop' = ByLoop
      BY <2>2 DEF ByLoop
    <3>. QED  BY <3>1
  <2>3. ASSUME NEW f \in Feature, entry' = [entry EXCEPT ![f] = "auto"]
        PROVE  ByLoop' \subseteq ByLoop \cup {f}
    BY <2>3 DEF ByLoop, TypeOK
  <2>. QED  BY <1>3, <2>1, <2>2, <2>3 DEF Pick, Ready, features
<1>4. ASSUME NEW f \in Feature, RunNext(f)
      PROVE  ByLoop' \subseteq ByLoop /\ Loading' = Loading
  <2>1. UNCHANGED pc
    BY <1>4 DEF RunNext, ExecuteByHand, HandOver, Resume, Work, Fail, TrackFailure,
                Succeed, End, Verify, loops
  <2>2. UNCHANGED entry \/ entry' = [entry EXCEPT ![f] = "none"]
          \/ entry' = [entry EXCEPT ![f] = "manual"]
    BY <1>4 DEF RunNext, ExecuteByHand, HandOver, Resume, Work, Fail, TrackFailure,
                Succeed, End, Verify, Leave
  <2>. QED  BY <2>1, <2>2 DEF TypeOK, ByLoop, Loading
<1>5. CASE Stop \/ UNCHANGED vars
  BY <1>5 DEF Stop, vars, loops, features, ByLoop, Loading
<1>. QED  BY <1>1, <1>2, <1>3, <1>4, <1>5 DEF Next, LoopNext

-----------------------------------------------------------------------------
LEMMA InitCapacity == Init => CapacityBound
<1>. SUFFICES ASSUME Init
              PROVE  CapacityBound
  OBVIOUS
<1>1. ByLoop = {} /\ Loading = {}
  BY DEF Init, ByLoop, Loading
<1>2. Cardinality(Loop) \in Nat
  BY LoopAssumption, FS_CardinalityType
<1>. QED  BY <1>1, <1>2, FS_EmptySet, LimitAssumption DEF CapacityBound

\* A loop that passes the capacity check sees fewer features than the limit,
\* and each loop that loads may add one to them.
LEMMA NextCapacity == TypeOK /\ CapacityBound /\ [Next]_vars => CapacityBound'
<1>. SUFFICES ASSUME TypeOK, CapacityBound, [Next]_vars
              PROVE  CapacityBound'
  OBVIOUS
<1>. DEFINE most == MaxConcurrency - 1 + Cardinality(Loop)
            Within(A, L) == Cardinality(A) + Cardinality(L) <= most
<1>1. /\ ByLoop \in SUBSET Feature /\ ByLoop' \in SUBSET Feature
      /\ Registered \in SUBSET Feature /\ ByLoop \subseteq Registered
      /\ Loading \in SUBSET Loop /\ Loading' \in SUBSET Loop
  BY DEF ByLoop, Registered, Loading
<1>2. /\ IsFiniteSet(ByLoop) /\ Cardinality(ByLoop) \in Nat /\ Cardinality(ByLoop') \in Nat
      /\ IsFiniteSet(Registered) /\ Cardinality(Registered) \in Nat
      /\ IsFiniteSet(Loading) /\ Cardinality(Loading) \in Nat /\ Cardinality(Loading') \in Nat
      /\ Cardinality(Loop) \in Nat /\ Cardinality(Loading') <= Cardinality(Loop)
  BY <1>1, FeatureCount, LoopCount
<1>3. MaxConcurrency \in Nat /\ most \in Int /\ Within(ByLoop, Loading)
  BY <1>2, LimitAssumption DEF CapacityBound
<1>4. CASE ByLoop' \subseteq ByLoop /\ Loading' = Loading
  <2>1. Cardinality(ByLoop') <= Cardinality(ByLoop)
    BY <1>2, <1>4, FS_Subset
  <2>2. Within(ByLoop', Loading')
    BY <1>2, <1>3, <1>4, <2>1
  <2>. QED  BY <2>2 DEF CapacityBound
<1>5. ASSUME NEW l \in Loop, Turn(l), ByLoop' = ByLoop
      PROVE  CapacityBound'
  <2>1. CASE Loading' \subseteq Loading
    <3>1. Cardinality(Loading') <= Cardinality(Loading)
      BY <1>2, <2>1, FS_Subset
    <3>2. Within(ByLoop', Loading')
      BY <1>2, <1>3, <1>5, <3>1
    <3>. QED  BY <3>2 DEF CapacityBound
  <2>2. CASE Cardinality(Registered) < MaxConcurrency
    <3>1. Cardinality(ByLoop) <= Cardinality(Registered)
      BY <1>1, <1>2, FS_Subset
    <3>2. Within(ByLoop', Loading')
      BY <1>2, <1>3, <1>5, <2>2, <3>1
    <3>. QED  BY <3>2 DEF CapacityBound
  <2>. QED  BY <1>5, <2>1, <2>2 DEF Turn, TypeOK, Loading
<1>6. ASSUME NEW l \in Loading, NEW f,
             Loading' = Loading \ {l}, ByLoop' \subseteq ByLoop \cup {f}
      PROVE  CapacityBound'
  <2>1. Cardinality(Loading') = Cardinality(Loading) - 1
    BY <1>2, <1>6, FS_RemoveElement
  <2>2. /\ IsFiniteSet(ByLoop \cup {f})
        /\ Cardinality(ByLoop \cup {f}) \in Nat
        /\ Cardinality(ByLoop \cup {f}) <= Cardinality(ByLoop) + 1
    <3>1. /\ IsFiniteSet(ByLoop \cup {f})
          /\ Cardinality(ByLoop \cup {f}) =
               IF f \in ByLoop THEN Cardinality(ByLoop) ELSE Cardinality(ByLoop) + 1
      BY <1>2, FS_AddElement
    <3>. QED  BY <1>2, <3>1
  <2>3. Cardinality(ByLoop') <= Cardinality(ByLoop \cup {f})
    BY <1>6, <2>2, FS_Subset
  <2>4. Within(ByLoop', Loading')
    BY <1>2, <1>3, <2>1, <2>2, <2>3
  <2>. QED  BY <2>4 DEF CapacityBound
<1>. QED  BY <1>4, <1>5, <1>6, Counts

\* With a limit of n, at most n runs are registered as the loop's own, and one
\* more for each further loop that overlaps.
THEOREM ConcurrencyIsBounded == Spec => []CapacityBound
BY TypeCorrect, InitCapacity, NextCapacity, PTL DEF Spec

-----------------------------------------------------------------------------
LEMMA InitLate == Init => FewLateStarts
<1>. SUFFICES ASSUME Init
              PROVE  FewLateStarts
  OBVIOUS
<1>1. Loading = {} /\ late = 0
  BY DEF Init, Loading
<1>. QED  BY <1>1, FS_EmptySet, FS_CardinalityType, LoopAssumption DEF FewLateStarts

\* A stop begins the count anew and lets no further loop through; a loop that
\* is through begins one feature.
LEMMA NextLate == TypeOK /\ FewLateStarts /\ [Next]_vars => FewLateStarts'
<1>. SUFFICES ASSUME TypeOK, FewLateStarts, [Next]_vars, ~running'
              PROVE  late' + Cardinality(Loading') <= Cardinality(Loop)
  BY DEF FewLateStarts
<1>1. Loading \in SUBSET Loop /\ Loading' \in SUBSET Loop
  BY DEF Loading
<1>2. /\ IsFiniteSet(Loading) /\ Cardinality(Loading) \in Nat /\ Cardinality(Loop) \in Nat
      /\ Cardinality(Loading) <= Cardinality(Loop) /\ Cardinality(Loading') \in Nat
      /\ Cardinality(Loading') <= Cardinality(Loop)
  BY <1>1, LoopCount
<1>3. late \in Nat /\ (~running => late + Cardinality(Loading) <= Cardinality(Loop))
  BY DEF TypeOK, FewLateStarts
<1>4. CASE late' = 0
  BY <1>2, <1>4
<1>5. CASE ~running /\ late' = late /\ Loading' = Loading
  BY <1>3, <1>5
<1>6. ASSUME NEW l \in Loop, Pick(l)
      PROVE  late' + Cardinality(Loading') <= Cardinality(Loop)
  <2>1. l \in Loading /\ Loading' = Loading \ {l}
    BY <1>6 DEF Pick, TypeOK, Loading
  <2>2. Cardinality(Loading') = Cardinality(Loading) - 1
    BY <1>2, <2>1, FS_RemoveElement
  <2>3. ~running /\ (late' = late \/ late' = late + 1)
    BY <1>6 DEF Pick, control
  <2>. QED  BY <1>2, <1>3, <2>2, <2>3
<1>7. ASSUME NEW l \in Loop, Start(l) \/ Turn(l) \/ \E f \in Feature : Read(l, f)
      PROVE  ~running /\ late' = late /\ Loading' = Loading
  BY <1>7 DEF Start, Turn, Read, TypeOK, Loading, control, history
<1>8. ASSUME NEW f \in Feature, RunNext(f)
      PROVE  late' = 0 \/ (~running /\ late' = late /\ Loading' = Loading)
  <2>1. CASE TrackFailure(f)
    <3>1. Loading' = Loading
      BY <2>1 DEF TrackFailure, Loading, loops
    <3>2. PICK recent \in 0 .. failures, quota \in BOOLEAN :
            LET count == IF recent = Threshold THEN Threshold ELSE recent + 1
                pauses == ~paused /\ (count = Threshold \/ quota)
            IN /\ running' = (running /\ ~pauses)
               /\ late' = IF running /\ pauses THEN 0 ELSE late
      BY <2>1 DEF TrackFailure
    <3>3. late' = 0 \/ (~running /\ late' = late)
      BY <3>2, Zenon
    <3>. QED  BY <3>1, <3>3
  <2>2. CASE ~TrackFailure(f)
    BY <1>8, <2>2 DEF RunNext, ExecuteByHand, HandOver, Resume, Work, Fail,
                      Succeed, End, Verify, Loading, loops, control, history
  <2>. QED  BY <2>1, <2>2
<1>9. CASE Stop
  BY <1>4, <1>9 DEF Stop
<1>10. CASE UNCHANGED vars
  BY <1>5, <1>10 DEF vars, loops, control, history, Loading
<1>. QED  BY <1>4, <1>5, <1>6, <1>7, <1>8, <1>9, <1>10 DEF Next, LoopNext

\* Between a stop and the next start the loops begin at most one feature each.
THEOREM StopIsEffective == Spec => []FewLateStarts
BY TypeCorrect, InitLate, NextLate, PTL DEF Spec

-----------------------------------------------------------------------------
LEMMA NextFailing == TypeOK /\ StopsWhenFailing /\ [Next]_vars => StopsWhenFailing'
<1>. SUFFICES ASSUME TypeOK, StopsWhenFailing, [Next]_vars
              PROVE  StopsWhenFailing'
  OBVIOUS
<1>1. Threshold \in Nat \ {0}
  BY LimitAssumption
<1>2. ASSUME NEW l \in Loop, LoopNext(l)
      PROVE  StopsWhenFailing'
  BY <1>1, <1>2 DEF LoopNext, Start, Turn, Read, Pick, StopsWhenFailing, control
<1>3. ASSUME NEW f \in Feature, RunNext(f)
      PROVE  StopsWhenFailing'
  <2>1. CASE TrackFailure(f)
    <3>1. PICK recent \in 0 .. failures, quota \in BOOLEAN :
            LET count == IF recent = Threshold THEN Threshold ELSE recent + 1
                pauses == ~paused /\ (count = Threshold \/ quota)
            IN /\ failures' = count
               /\ paused' = (paused \/ pauses)
               /\ running' = (running /\ ~pauses)
      BY <2>1 DEF TrackFailure
    <3>. QED  BY <3>1, Zenon DEF StopsWhenFailing
  <2>2. CASE Succeed(f)
    BY <1>1, <2>2 DEF Succeed, StopsWhenFailing
  <2>3. CASE UNCHANGED control
    BY <2>3 DEF StopsWhenFailing, control
  <2>. QED  BY <1>3, <2>1, <2>2, <2>3 DEF RunNext, ExecuteByHand, HandOver, Resume,
                                            Work, Fail, End, Verify
<1>4. CASE Stop \/ UNCHANGED vars
  BY <1>4 DEF Stop, StopsWhenFailing, vars, control
<1>. QED  BY <1>2, <1>3, <1>4 DEF Next

\* As many failures as the threshold pause the loop, and pausing stops it.
THEOREM FailuresStopTheLoop == Spec => []StopsWhenFailing
<1>1. Init => StopsWhenFailing
  BY LimitAssumption DEF Init, StopsWhenFailing
<1>. QED  BY <1>1, TypeCorrect, NextFailing, PTL DEF Spec

-----------------------------------------------------------------------------
\* What is verified, or was when a loop read it, has been verified.
Known ==
  /\ \A f \in Feature : status[f] = "verified" => f \in finished
  /\ \A l \in Loop, f \in Feature : seen[l][f] = "done" => f \in finished

LEMMA NextKnown == TypeOK /\ Known /\ [Next]_vars => Known'
<1>. SUFFICES ASSUME TypeOK, Known, [Next]_vars
              PROVE  Known'
  OBVIOUS
<1>1. ASSUME NEW l \in Loop, LoopNext(l)
      PROVE  Known'
  <2>1. UNCHANGED <<status, finished>>
    BY <1>1 DEF LoopNext, Start, Turn, Read, Pick, features, history
  <2>2. CASE UNCHANGED seen \/ seen' = [seen EXCEPT ![l] = Unread]
    BY <2>1, <2>2 DEF Known, TypeOK, Unread
  <2>3. ASSUME NEW f \in Feature, seen' = [seen EXCEPT ![l][f] = ClassOf(status[f])]
        PROVE  Known'
    <3>1. ClassOf(status[f]) = "done" => status[f] = "verified"
      BY DEF ClassOf
    <3>. QED  BY <2>1, <2>3, <3>1 DEF Known, TypeOK
  <2>. QED  BY <1>1, <2>2, <2>3 DEF LoopNext, Start, Turn, Read, Pick
<1>2. ASSUME NEW f \in Feature, RunNext(f)
      PROVE  Known'
  <2>1. UNCHANGED seen /\ finished \subseteq finished'
    BY <1>2 DEF RunNext, ExecuteByHand, HandOver, Resume, Work, Fail, TrackFailure,
                Succeed, End, Verify, loops, history
  <2>2. \/ UNCHANGED status
        \/ \E s \in {"in_progress", "backlog", "waiting_approval"} : SetStatus(f, s)
        \/ SetStatus(f, "verified") /\ f \in finished'
    BY <1>2 DEF RunNext, ExecuteByHand, HandOver, Resume, Work, Fail, TrackFailure,
                Succeed, End, Verify
  <2>. QED  BY <2>1, <2>2 DEF Known, TypeOK, SetStatus
<1>3. CASE Stop \/ UNCHANGED vars
  BY <1>3 DEF Stop, Known, vars, loops, features, history
<1>. QED  BY <1>1, <1>2, <1>3 DEF Next

LEMMA BeginsReady ==
  ASSUME TypeOK, Known, [Next]_vars, ~SkipVerification,
         NEW f \in Feature, entry[f] = "none", entry'[f] = "auto"
  PROVE  deps[f] \subseteq finished
<1>1. ASSUME NEW g \in Feature, RunNext(g)
      PROVE  FALSE
  <2>1. UNCHANGED entry \/ entry' = [entry EXCEPT ![g] = "none"]
          \/ entry' = [entry EXCEPT ![g] = "manual"]
    BY <1>1 DEF RunNext, ExecuteByHand, HandOver, Resume, Work, Fail, TrackFailure,
                Succeed, End, Verify, Leave
  <2>. QED  BY <2>1 DEF TypeOK
<1>2. PICK l \in Loop : Pick(l)
  BY <1>1 DEF Next, Stop, LoopNext, Start, Turn, Read, vars, features
<1>3. f \in Ready(l)
  BY <1>2 DEF Pick, TypeOK, features
<1>4. deps[f] \subseteq Feature
  BY DEF TypeOK
<1>. QED  BY <1>3, <1>4 DEF Ready, Known

\* No loop begins a feature before all that it depends on has been verified,
\* however old what the loop has read may be.
THEOREM DependenciesComeFirst == Spec => DependenciesDone
<1>1. Init => Known
  BY DEF Init, Known, Unread
<1>2. TypeOK /\ Known /\ [Next]_vars =>
        [\A f \in Feature : entry[f] = "none" /\ entry'[f] = "auto" /\ ~SkipVerification
           => deps[f] \subseteq finished]_vars
  BY BeginsReady
<1>. QED  BY <1>1, <1>2, TypeCorrect, NextKnown, PTL DEF Spec, DependenciesDone
=============================================================================
