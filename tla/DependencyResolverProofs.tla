---------------------- MODULE DependencyResolverProofs ----------------------
(***************************************************************************)
(* What resolveDependencies guarantees for any number of features and any  *)
(* dependencies among them: types; that nothing comes before what it       *)
(* depends on, and the more urgent before the less, since an in-degree     *)
(* counts the dependencies that are not ordered yet; and that what is left *)
(* over is what cycles block, one of which the search reports.             *)
(***************************************************************************)
EXTENDS DependencyResolver, FiniteSetTheorems, WellFoundedInduction, TLAPS

LEMMA FeatureFacts ==
  /\ Feature \subseteq Nat /\ Feature \subseteq Id
  /\ IsFiniteSet(Feature)
  /\ \A f \in Feature : Known(f) \subseteq Feature /\ IsFiniteSet(Known(f))
<1>1. IsFiniteSet(Feature)
  BY FS_Interval, SizeAssumption DEF Feature
<1>2. ASSUME NEW f \in Feature
      PROVE  Known(f) \subseteq Feature /\ IsFiniteSet(Known(f))
  BY <1>1, FS_Subset DEF Known
<1>. QED  BY <1>1, <1>2, SizeAssumption DEF Feature, Id

LEMMA AppendFacts ==
  ASSUME NEW S, NEW s \in Seq(S), NEW e \in S
  PROVE  /\ Append(s, e) \in Seq(S)
         /\ Len(s) \in Nat /\ DOMAIN s = 1 .. Len(s)
         /\ DOMAIN Append(s, e) = 1 .. Len(s) + 1
         /\ Append(s, e)[Len(s) + 1] = e
         /\ \A i \in 1 .. Len(s) : Append(s, e)[i] = s[i] /\ s[i] \in S
OBVIOUS

\* A list of n elements of T after a sequence.
LEMMA ConcatFacts ==
  ASSUME NEW S, NEW T \in SUBSET S, NEW r \in Seq(S), NEW n \in Nat, NEW s \in [1 .. n -> T]
  PROVE  /\ r \o s \in Seq(S)
         /\ \A i \in DOMAIN r : (r \o s)[i] = r[i]
         /\ \A i \in DOMAIN (r \o s) \ DOMAIN r : (r \o s)[i] \in T
<1>1. s \in [1 .. n -> S] /\ \A i \in 1 .. n : s[i] \in T
  OBVIOUS
<1>2. s \in Seq(S) /\ Len(s) = n
  BY <1>1
<1>. QED  BY <1>1, <1>2

\* The call of dfs that is innermost, and those around it.
LEMMA CallFacts ==
  ASSUME TypeOK, calls # <<>>
  PROVE  /\ Len(calls) \in Nat /\ Len(calls) \in 1 .. Len(calls) /\ calls \in Seq(Call)
         /\ Top = calls[Len(calls)] /\ Top \in Call
         /\ Outer \in Seq(Call) /\ Len(Outer) = Len(calls) - 1
         /\ \A k \in 1 .. Len(calls) - 1 : Outer[k] = calls[k]
<1>1. calls \in Seq(Call) /\ Len(calls) \in Nat /\ Len(calls) \in 1 .. Len(calls)
  BY DEF TypeOK
<1>2. Outer \in Seq(Call) /\ Len(Outer) = Len(calls) - 1
  BY <1>1 DEF Outer
<1>3. \A k \in 1 .. Len(calls) - 1 : Outer[k] = calls[k]
  BY <1>1 DEF Outer
<1>4. Top = calls[Len(calls)] /\ Top \in Call
  BY <1>1 DEF Top
<1>. QED  BY <1>1, <1>2, <1>3, <1>4

\* The beginning of a call keeps the types of the search.
LEMMA EnterType ==
  ASSUME TypeOK, NEW d \in Id, NEW outer \in Seq(Call), Enter(d, outer)
  PROVE  /\ visited' \in SUBSET Id /\ path' \in Seq(Id)
         /\ calls' \in Seq(Call) /\ cycles' \in Seq(Seq(Id))
<1>1. [feature |-> d, todo |-> IF d \in Feature THEN deps[d] ELSE {}] \in Call
  BY DEF TypeOK, Call
<1>. QED  BY <1>1 DEF TypeOK, Enter

\* So does the report of a cycle.
LEMMA ReportType ==
  ASSUME TypeOK, NEW d \in Id, Report(d)
  PROVE  /\ visited' \in SUBSET Id /\ path' \in Seq(Id)
         /\ calls' \in Seq(Call) /\ cycles' \in Seq(Seq(Id))
<1>1. PICK i \in DOMAIN path : cycles' = Append(cycles, SubSeq(path, i, Len(path)))
  BY DEF Report
<1>2. SubSeq(path, i, Len(path)) \in Seq(Id)
  BY DEF TypeOK
<1>. QED  BY <1>1, <1>2 DEF TypeOK, Report

-----------------------------------------------------------------------------
(***************************************************************************)
(* The invariant of Kahn's algorithm.                                      *)
(***************************************************************************)
\* An in-degree counts the dependencies that have not been ordered.
DegreeCounts ==
  \A f \in Feature : inDegree[f] = Cardinality(Known(f) \ Taken)

\* The queue holds what is not ordered yet and could come next.
QueueReady ==
  queue = {f \in Feature \ Taken : Known(f) \subseteq Taken}

\* A feature that Kahn's algorithm leaves over waits for another one.
LeftOverIsBlocked ==
  pc = "cycles" => \A f \in remaining : Known(f) \cap remaining # {}

\* What has been ordered, except for the features that could not be, comes
\* after its dependencies; a feature is ordered once.
KahnInv ==
  /\ TypeOK
  /\ DependenciesFirst
  /\ pc = "kahn" => /\ DegreeCounts
                    /\ QueueReady
                    /\ remaining = {}
  /\ pc = "cycles" => remaining = Feature \ Taken
  /\ LeftOverIsBlocked

\* A feature that is dropped from the count, or is not in it.
LEMMA CountDown ==
  ASSUME NEW S, IsFiniteSet(S), NEW T, NEW f \in S, f \notin T
  PROVE  /\ Cardinality(S \ T) \in Nat \ {0}
         /\ Cardinality(S \ (T \cup {f})) = Cardinality(S \ T) - 1
         /\ Cardinality(S \ T) = 1 => S \subseteq T \cup {f}
<1>1. IsFiniteSet(S \ T) /\ f \in S \ T
  BY FS_Subset
<1>2. S \ (T \cup {f}) = (S \ T) \ {f}
  OBVIOUS
<1>3. IsFiniteSet((S \ T) \ {f}) /\ Cardinality((S \ T) \ {f}) = Cardinality(S \ T) - 1
  BY <1>1, FS_RemoveElement
<1>4. Cardinality(S \ T) \in Nat /\ Cardinality(S \ T) # 0
  BY <1>1, FS_CardinalityType, FS_EmptySet
<1>5. Cardinality(S \ T) = 1 => (S \ T) \ {f} = {}
  BY <1>3, FS_EmptySet
<1>. QED  BY <1>2, <1>3, <1>4, <1>5

LEMMA InitKahn == Init => KahnInv
<1>. SUFFICES ASSUME Init
              PROVE  KahnInv
  OBVIOUS
<1>1. ASSUME NEW f \in Feature
      PROVE  Cardinality(Known(f)) \in Nat
  BY <1>1, FeatureFacts, FS_CardinalityType
<1>2. Taken = {}
  BY DEF Init, Taken, Range
<1>3. TypeOK
  <2>1. deps \in [Feature -> SUBSET Id] /\ priority \in [Feature -> Nat]
    BY DependenciesAssumption, PriorityAssumption DEF Init
  <2>2. inDegree \in [Feature -> Nat] /\ pushed \in [Feature -> Nat]
    BY <1>1 DEF Init
  <2>3. queue \in SUBSET Feature /\ remaining \in SUBSET Feature /\ visited \in SUBSET Id
    BY DEF Init
  <2>4. /\ ordered \in Seq(Feature) /\ path \in Seq(Id) /\ calls \in Seq(Call)
        /\ cycles \in Seq(Seq(Id))
    BY DEF Init
  <2>. QED  BY <2>1, <2>2, <2>3, <2>4 DEF Init, TypeOK
<1>4. DegreeCounts /\ QueueReady
  BY <1>2 DEF Init, DegreeCounts, QueueReady
<1>5. DependenciesFirst /\ LeftOverIsBlocked
  BY DEF Init, DependenciesFirst, LeftOverIsBlocked
<1>. QED  BY <1>3, <1>4, <1>5 DEF KahnInv, Init

\* One turn of the while loop.
LEMMA TakeKeeps ==
  ASSUME KahnInv, NEW f \in Feature, TakeNext(f)
  PROVE  KahnInv'
<1>. DEFINE freed == {g \in Dependents(f) : inDegree[g] = 1}
<1>0. /\ TypeOK /\ pc = "kahn" /\ DegreeCounts /\ QueueReady /\ remaining = {}
      /\ f \in queue /\ f \in Feature \ Taken /\ Known(f) \subseteq Taken
  BY DEF KahnInv, TakeNext, QueueReady
<1>1. /\ UNCHANGED <<deps, priority, pc, remaining, visited, path, calls, cycles>>
      /\ ordered' = Append(ordered, f)
      /\ inDegree' = [g \in Feature |->
           IF f \in deps[g] THEN inDegree[g] - 1 ELSE inDegree[g]]
      /\ queue' = (queue \ {f}) \cup freed
      /\ pushed' = [g \in Feature |-> IF g \in freed THEN Len(ordered') ELSE pushed[g]]
  BY DEF TakeNext, input, search
<1>2. /\ Len(ordered) \in Nat /\ DOMAIN ordered = 1 .. Len(ordered)
      /\ ordered' \in Seq(Feature) /\ DOMAIN ordered' = 1 .. Len(ordered) + 1
      /\ ordered'[Len(ordered) + 1] = f
      /\ \A i \in 1 .. Len(ordered) : ordered'[i] = ordered[i]
  BY <1>0, <1>1, AppendFacts DEF TypeOK
<1>3. Taken' = Taken \cup {f}
  BY <1>2 DEF Taken, Range
<1>4. ASSUME NEW g \in Feature, f \in deps[g]
      PROVE  /\ inDegree[g] \in Nat \ {0}
             /\ Cardinality(Known(g) \ (Taken \cup {f})) = inDegree[g] - 1
             /\ inDegree[g] = 1 <=> Known(g) \subseteq Taken \cup {f}
  <2>1. f \in Known(g) /\ IsFiniteSet(Known(g)) /\ IsFiniteSet(Known(g) \ (Taken \cup {f}))
    BY <1>4, FeatureFacts, FS_Subset DEF Known
  <2>2. /\ Cardinality(Known(g) \ Taken) \in Nat \ {0}
        /\ Cardinality(Known(g) \ (Taken \cup {f})) = Cardinality(Known(g) \ Taken) - 1
        /\ Cardinality(Known(g) \ Taken) = 1 => Known(g) \subseteq Taken \cup {f}
    BY <1>0, <2>1, CountDown
  <2>3. Known(g) \subseteq Taken \cup {f} => Cardinality(Known(g) \ (Taken \cup {f})) = 0
    <3>1. Known(g) \subseteq Taken \cup {f} => Known(g) \ (Taken \cup {f}) = {}
      OBVIOUS
    <3>. QED  BY <3>1, FS_EmptySet
  <2>5. inDegree[g] = Cardinality(Known(g) \ Taken)
    BY <1>0 DEF DegreeCounts
  <2>. QED  BY <2>2, <2>3, <2>5
<1>5. ASSUME NEW g \in Feature, f \notin deps[g]
      PROVE  Known(g) \ (Taken \cup {f}) = Known(g) \ Taken
  BY <1>5 DEF Known
<1>6. \A g \in Feature : Known(g)' = Known(g)
  BY <1>1 DEF Known
<1>7. DegreeCounts'
  BY <1>0, <1>1, <1>3, <1>4, <1>5, <1>6 DEF DegreeCounts
<1>8. freed \subseteq Feature \ Taken'
  <2>1. ASSUME NEW g \in freed, g \in Taken'
        PROVE  FALSE
    <3>1. g \in Feature /\ f \in deps[g]
      BY DEF Dependents
    <3>2. CASE g = f
      BY <1>0, <3>1, <3>2 DEF Known
    <3>3. CASE g \in Taken
      <4>1. PICK i \in 1 .. Len(ordered) : ordered[i] = g
        BY <1>2, <3>3 DEF Taken, Range
      <4>2. Known(g) \subseteq {ordered[j] : j \in 1 .. i - 1}
        BY <1>0, <1>2, <4>1 DEF KahnInv, DependenciesFirst
      <4>3. \A j \in 1 .. i - 1 : ordered[j] \in Taken
        BY <1>2, <4>1 DEF Taken, Range
      <4>. QED  BY <1>0, <3>1, <4>2, <4>3 DEF Known
    <3>. QED  BY <1>3, <2>1, <3>2, <3>3
  <2>. QED  BY <2>1 DEF Dependents
<1>9. QueueReady'
  <2>1. ASSUME NEW g \in Feature \ Taken'
        PROVE  g \in queue' <=> Known(g) \subseteq Taken'
    <3>1. g \in Feature /\ g \notin Taken /\ g # f
      BY <1>3, <2>1
    <3>2. CASE f \in deps[g]
      <4>1. g \notin queue
        BY <1>0, <3>2 DEF QueueReady, Known
      <4>2. g \in queue' <=> inDegree[g] = 1
        BY <1>1, <3>1, <3>2, <4>1 DEF Dependents
      <4>. QED  BY <1>3, <1>4, <3>1, <3>2, <4>2
    <3>3. CASE f \notin deps[g]
      <4>1. g \in queue' <=> g \in queue
        BY <1>1, <3>1, <3>3 DEF Dependents
      <4>2. Known(g) \subseteq Taken' <=> Known(g) \subseteq Taken
        BY <1>3, <3>3 DEF Known
      <4>. QED  BY <1>0, <3>1, <4>1, <4>2 DEF QueueReady
    <3>. QED  BY <3>2, <3>3
  <2>2. queue' \subseteq Feature \ Taken'
    BY <1>0, <1>1, <1>3, <1>8 DEF QueueReady
  <2>. QED  BY <1>6, <2>1, <2>2 DEF QueueReady
<1>10. DependenciesFirst'
  <2>1. ASSUME NEW i \in 1 .. Len(ordered) + 1
        PROVE  Known(ordered'[i]) \subseteq {ordered'[j] : j \in 1 .. i - 1}
    <3>1. CASE i \in 1 .. Len(ordered)
      <4>1. Known(ordered[i]) \subseteq {ordered[j] : j \in 1 .. i - 1}
        BY <1>0, <1>2, <3>1 DEF KahnInv, DependenciesFirst
      <4>2. \A j \in 1 .. i - 1 : ordered'[j] = ordered[j]
        BY <1>2, <3>1
      <4>. QED  BY <1>2, <3>1, <4>1, <4>2
    <3>2. CASE i = Len(ordered) + 1
      <4>1. \A g \in Taken : \E j \in 1 .. i - 1 : ordered'[j] = g
        BY <1>2, <3>2 DEF Taken, Range
      <4>. QED  BY <1>0, <1>2, <3>2, <4>1
    <3>. QED  BY <1>2, <3>1, <3>2
  <2>. QED  BY <1>1, <1>2, <2>1 DEF DependenciesFirst, Known
<1>11. TypeOK'
  <2>1. inDegree' \in [Feature -> Nat]
    <3>1. ASSUME NEW g \in Feature, f \in deps[g]
          PROVE  inDegree[g] - 1 \in Nat
      <4>1. inDegree[g] \in Nat \ {0}
        BY <1>4, <3>1
      <4>. HIDE <1>4
      <4>. QED  BY <4>1
    <3>. QED  BY <1>0, <1>1, <3>1 DEF TypeOK
  <2>2. pushed' \in [Feature -> Nat]
    <3>1. Len(ordered') \in Nat
      BY <1>2
    <3>. QED  BY <1>0, <1>1, <3>1 DEF TypeOK
  <2>3. queue' \in SUBSET Feature
    BY <1>0, <1>1 DEF TypeOK, Dependents
  <2>. QED  BY <1>0, <1>1, <1>2, <2>1, <2>2, <2>3 DEF TypeOK
<1>. QED  BY <1>0, <1>1, <1>7, <1>9, <1>10, <1>11 DEF KahnInv, LeftOverIsBlocked

\* The search touches neither the graph nor the order.
LEMMA SearchKeeps ==
  ASSUME KahnInv, pc = "cycles", UNCHANGED <<input, kahn, pc, ordered, remaining>>,
         visited' \in SUBSET Id, path' \in Seq(Id),
         calls' \in Seq(Call), cycles' \in Seq(Seq(Id))
  PROVE  KahnInv'
<1>2. DependenciesFirst'
  BY DEF KahnInv, DependenciesFirst, Known, input
<1>3. LeftOverIsBlocked'
  BY DEF KahnInv, LeftOverIsBlocked, Known, input
<1>. QED  BY <1>2, <1>3 DEF KahnInv, TypeOK, Taken, input, kahn

LEMMA NextKahn == KahnInv /\ [Next]_vars => KahnInv'
<1>. SUFFICES ASSUME KahnInv, [Next]_vars
              PROVE  KahnInv'
  OBVIOUS
<1>0. TypeOK
  BY DEF KahnInv
<1>1. ASSUME NEW f \in Feature, TakeNext(f)
      PROVE  KahnInv'
  BY <1>1, TakeKeeps
<1>2. CASE FindRemaining
  <2>1. \A f : Known(f)' = Known(f)
    BY <1>2 DEF FindRemaining, Known, input
  <2>2. UNCHANGED ordered /\ remaining' = Feature \ Taken /\ pc = "kahn"
    BY <1>2 DEF FindRemaining
  <2>3. DependenciesFirst'
    BY <2>1, <2>2 DEF KahnInv, DependenciesFirst
  <2>4. TypeOK' /\ pc' \in {"cycles", "done"}
    BY <1>0, <1>2 DEF FindRemaining, TypeOK, input, kahn, search
  <2>5. ASSUME NEW f \in remaining'
        PROVE  Known(f) \cap remaining' # {}
    <3>1. f \in Feature \ Taken /\ f \notin queue
      BY <1>2, <2>2, <2>5 DEF FindRemaining
    <3>. QED  BY <2>2, <3>1 DEF KahnInv, QueueReady, Known
  <2>6. LeftOverIsBlocked'
    BY <2>1, <2>5 DEF LeftOverIsBlocked
  <2>. QED  BY <2>2, <2>3, <2>4, <2>6 DEF KahnInv, Taken
<1>3. ASSUME NEW f \in Feature, NextRoot(f)
      PROVE  KahnInv'
  <2>1. f \in Id /\ <<>> \in Seq(Call) /\ Enter(f, <<>>)
    BY <1>3, FeatureFacts DEF NextRoot
  <2>2. /\ visited' \in SUBSET Id /\ path' \in Seq(Id)
        /\ calls' \in Seq(Call) /\ cycles' \in Seq(Seq(Id))
    BY <1>0, <2>1, EnterType
  <2>. QED  BY <1>3, <2>2, SearchKeeps DEF NextRoot
<1>4. ASSUME NEW d \in Id, Look(d)
      PROVE  KahnInv'
  <2>. DEFINE outer == Append(Outer, [Top EXCEPT !.todo = @ \ {d}])
  <2>1. outer \in Seq(Call) /\ pc = "cycles"
    BY <1>0, <1>4, CallFacts DEF Look, Call
  <2>2. /\ visited' \in SUBSET Id /\ path' \in Seq(Id)
        /\ calls' \in Seq(Call) /\ cycles' \in Seq(Seq(Id))
    <3>1. CASE Enter(d, outer)
      BY <1>0, <2>1, <3>1, EnterType
    <3>2. CASE Report(d)
      BY <1>0, <3>2, ReportType
    <3>3. CASE calls' = outer /\ UNCHANGED <<visited, path, cycles>>
      BY <1>0, <2>1, <3>3 DEF TypeOK
    <3>. QED  BY <1>4, <3>1, <3>2, <3>3 DEF Look
  <2>. QED  BY <1>4, <2>1, <2>2, SearchKeeps DEF Look
<1>5. CASE Leave
  <2>1. SubSeq(path, 1, Len(path) - 1) \in Seq(Id)
    BY <1>0 DEF TypeOK
  <2>2. /\ visited' \in SUBSET Id /\ path' \in Seq(Id)
        /\ calls' \in Seq(Call) /\ cycles' \in Seq(Seq(Id))
    BY <1>0, <1>5, <2>1, CallFacts DEF Leave, TypeOK
  <2>. QED  BY <1>5, <2>2, SearchKeeps DEF Leave
<1>6. CASE AppendRemaining
  <2>1. PICK s \in [1 .. Cardinality(remaining) -> remaining] : ordered' = ordered \o s
    BY <1>6 DEF AppendRemaining
  <2>2. /\ UNCHANGED <<deps, priority, inDegree, queue, pushed, visited, path, calls, cycles, remaining>>
        /\ pc = "cycles" /\ pc' = "done" /\ remaining = Feature \ Taken
    BY <1>6 DEF AppendRemaining, KahnInv, input, kahn, search
  <2>3. Cardinality(remaining) \in Nat
    BY <1>0, FeatureFacts, FS_Subset, FS_CardinalityType DEF TypeOK
  <2>4. ordered \in Seq(Feature) /\ remaining \in SUBSET Feature
    BY <1>0 DEF TypeOK
  <2>5. /\ ordered' \in Seq(Feature)
        /\ \A i \in DOMAIN ordered : ordered'[i] = ordered[i]
        /\ \A i \in DOMAIN ordered' \ DOMAIN ordered : ordered'[i] \in remaining
    <3>1. /\ ordered \o s \in Seq(Feature)
          /\ \A i \in DOMAIN ordered : (ordered \o s)[i] = ordered[i]
          /\ \A i \in DOMAIN (ordered \o s) \ DOMAIN ordered : (ordered \o s)[i] \in remaining
      BY <2>3, <2>4, ConcatFacts, Zenon
    <3>. QED  BY <2>1, <3>1, Zenon
  <2>6. TypeOK'
    BY <1>0, <2>2, <2>5 DEF TypeOK
  <2>7. ASSUME NEW i \in DOMAIN ordered', ordered'[i] \notin remaining
        PROVE  Known(ordered'[i]) \subseteq {ordered'[j] : j \in 1 .. i - 1}
    <3>1. i \in DOMAIN ordered
      BY <2>5, <2>7
    <3>2. Known(ordered[i]) \subseteq {ordered[j] : j \in 1 .. i - 1}
      BY <2>5, <2>7, <3>1 DEF KahnInv, DependenciesFirst
    <3>3. \A j \in 1 .. i - 1 : j \in DOMAIN ordered
      BY <1>0, <3>1 DEF TypeOK
    <3>. QED  BY <2>5, <3>1, <3>2, <3>3
  <2>8. DependenciesFirst'
    BY <2>2, <2>7 DEF DependenciesFirst, Known
  <2>. QED  BY <2>2, <2>6, <2>8 DEF KahnInv, LeftOverIsBlocked
<1>7. CASE UNCHANGED vars
  <2>1. \A f : Known(f)' = Known(f)
    BY <1>7 DEF Known, vars, input
  <2>2. TypeOK'
    BY <1>0, <1>7 DEF TypeOK, vars, input, kahn, search
  <2>3. DependenciesFirst'
    BY <1>7, <2>1 DEF KahnInv, DependenciesFirst, vars
  <2>4. Taken' = Taken
    BY <1>7 DEF Taken, vars
  <2>. QED  BY <1>7, <2>1, <2>2, <2>3, <2>4
            DEF KahnInv, DegreeCounts, QueueReady, LeftOverIsBlocked, vars, kahn
<1>. QED  BY <1>1, <1>2, <1>3, <1>4, <1>5, <1>6, <1>7 DEF Next

-----------------------------------------------------------------------------
\* Every state variable has its type.
THEOREM TypeCorrect == Spec => []TypeOK
<1>1. KahnInv => TypeOK
  BY DEF KahnInv
<1>. QED  BY <1>1, InitKahn, NextKahn, PTL DEF Spec

\* Whatever the graph, no feature is ordered before one that it depends on
\* except for those that Kahn's algorithm cannot order.
THEOREM OrderRespectsDependencies == Spec => []DependenciesFirst
<1>1. KahnInv => DependenciesFirst
  BY DEF KahnInv
<1>. QED  BY <1>1, InitKahn, NextKahn, PTL DEF Spec

\* Every feature that is left over waits for another one that is: without a
\* cycle among the features nothing is left over.
THEOREM LeftOverBlocked == Spec => []LeftOverIsBlocked
<1>1. KahnInv => LeftOverIsBlocked
  BY DEF KahnInv
<1>. QED  BY <1>1, InitKahn, NextKahn, PTL DEF Spec

-----------------------------------------------------------------------------
(***************************************************************************)
(* The order by priority.  When Kahn's algorithm takes a feature, all that *)
(* could come next is in the queue, and stays less urgent than the feature *)
(* however late it is taken itself.                                        *)
(***************************************************************************)
\* A feature is ordered once.
Unique == \A i, j \in DOMAIN ordered : ordered[i] = ordered[j] => i = j

\* Whatever could have been taken in the place of the i-th feature, and was
\* not taken before, is not more urgent.
Urgent ==
  \A i \in DOMAIN ordered : \A g \in Feature :
    /\ g \notin {ordered[k] : k \in 1 .. i}
    /\ Known(g) \subseteq {ordered[k] : k \in 1 .. i - 1}
    => priority[ordered[i]] <= priority[g]

OrderInv ==
  /\ pc # "done" => Unique /\ Urgent
  /\ MostUrgentFirst

LEMMA UrgentSuffices ==
  ASSUME TypeOK, Unique, Urgent
  PROVE  MostUrgentFirst
<1>1. ASSUME NEW i \in DOMAIN ordered, NEW j \in DOMAIN ordered, i < j,
             Known(ordered[j]) \subseteq {ordered[k] : k \in 1 .. i - 1}
      PROVE  priority[ordered[i]] <= priority[ordered[j]]
  <2>1. /\ Len(ordered) \in Nat /\ DOMAIN ordered = 1 .. Len(ordered)
        /\ ordered[j] \in Feature
    BY DEF TypeOK
  <2>2. \A k \in 1 .. i : k \in DOMAIN ordered /\ k # j
    BY <1>1, <2>1
  <2>3. ordered[j] \notin {ordered[k] : k \in 1 .. i}
    BY <2>2 DEF Unique
  <2>. QED  BY <1>1, <2>1, <2>3 DEF Urgent
<1>. QED  BY <1>1 DEF MostUrgentFirst

LEMMA TakeOrder ==
  ASSUME KahnInv, OrderInv, NEW f \in Feature, TakeNext(f)
  PROVE  OrderInv'
<1>1. /\ TypeOK /\ QueueReady /\ Unique /\ Urgent
      /\ f \in Feature \ Taken /\ \A g \in queue \ {f} : Before(f, g)
      /\ UNCHANGED <<deps, priority, pc>> /\ ordered' = Append(ordered, f)
  BY DEF KahnInv, OrderInv, TakeNext, QueueReady, input
<1>2. TypeOK'
  BY TakeKeeps DEF KahnInv
<1>3. /\ Len(ordered) \in Nat /\ DOMAIN ordered = 1 .. Len(ordered)
      /\ DOMAIN ordered' = 1 .. Len(ordered) + 1
      /\ ordered'[Len(ordered) + 1] = f
      /\ \A i \in 1 .. Len(ordered) : ordered'[i] = ordered[i]
  BY <1>1, AppendFacts DEF TypeOK
<1>4. \A i \in 1 .. Len(ordered) : ordered[i] # f
  BY <1>1, <1>3 DEF Taken, Range
<1>5. Unique'
  BY <1>1, <1>3, <1>4 DEF Unique
<1>6. ASSUME NEW i \in 1 .. Len(ordered) + 1, NEW g \in Feature,
             g \notin {ordered'[k] : k \in 1 .. i},
             Known(g) \subseteq {ordered'[k] : k \in 1 .. i - 1}
      PROVE  priority[ordered'[i]] <= priority[g]
  <2>1. CASE i \in 1 .. Len(ordered)
    <3>1. \A k \in 1 .. i : k \in 1 .. Len(ordered) /\ ordered'[k] = ordered[k]
      BY <1>3, <2>1
    <3>2. g \notin {ordered[k] : k \in 1 .. i}
      BY <1>6, <3>1
    <3>3. \A k \in 1 .. i - 1 : ordered'[k] = ordered[k]
      BY <2>1, <3>1
    <3>4. Known(g) \subseteq {ordered[k] : k \in 1 .. i - 1}
      BY <1>6, <3>3
    <3>. QED  BY <1>1, <1>3, <2>1, <3>1, <3>2, <3>4 DEF Urgent
  <2>2. CASE i = Len(ordered) + 1
    <3>1. \A k \in 1 .. i - 1 : ordered'[k] \in Taken
      BY <1>3, <2>2 DEF Taken, Range
    <3>2. g # f
      BY <1>3, <1>6, <2>2
    <3>3. g \notin Taken
      <4>1. ASSUME NEW k \in 1 .. Len(ordered)
            PROVE  ordered[k] # g
        BY <1>3, <1>6, <2>2, <4>1
      <4>. QED  BY <1>3, <4>1 DEF Taken, Range
    <3>4. Known(g) \subseteq Taken
      BY <1>6, <3>1
    <3>5. g \in queue \ {f}
      BY <1>1, <3>2, <3>3, <3>4 DEF QueueReady
    <3>6. priority[f] \in Nat /\ priority[g] \in Nat
      BY <1>1 DEF TypeOK
    <3>. QED  BY <1>1, <1>3, <2>2, <3>5, <3>6 DEF Before
  <2>. QED  BY <2>1, <2>2, <1>3
<1>7. Urgent'
  BY <1>1, <1>3, <1>6 DEF Urgent, Known
<1>8. TypeOK' /\ Unique' /\ Urgent' => MostUrgentFirst'
  BY UrgentSuffices, PTL
<1>. QED  BY <1>2, <1>5, <1>7, <1>8 DEF OrderInv

LEMMA NextOrder == KahnInv /\ OrderInv /\ [Next]_vars => OrderInv'
<1>. SUFFICES ASSUME KahnInv, OrderInv, [Next]_vars
              PROVE  OrderInv'
  OBVIOUS
<1>1. ASSUME NEW f \in Feature, TakeNext(f)
      PROVE  OrderInv'
  BY <1>1, TakeOrder
<1>2. CASE FindRemaining
  <2>1. /\ UNCHANGED <<deps, priority, ordered>> /\ pc = "kahn"
        /\ Unique /\ Urgent /\ TypeOK
    BY <1>2 DEF FindRemaining, OrderInv, input, KahnInv
  <2>2. Unique' /\ Urgent'
    BY <2>1 DEF Unique, Urgent, Known
  <2>3. TypeOK'
    BY <1>2, NextKahn DEF Next, KahnInv
  <2>4. TypeOK' /\ Unique' /\ Urgent' => MostUrgentFirst'
    BY UrgentSuffices, PTL
  <2>. QED  BY <2>2, <2>3, <2>4 DEF OrderInv
<1>3. CASE UNCHANGED <<deps, priority, ordered, remaining, pc>>
  BY <1>3 DEF OrderInv, Unique, Urgent, MostUrgentFirst, Known
<1>4. CASE AppendRemaining
  <2>1. PICK s \in [1 .. Cardinality(remaining) -> remaining] : ordered' = ordered \o s
    BY <1>4 DEF AppendRemaining
  <2>2. UNCHANGED <<deps, priority, remaining>> /\ pc' = "done" /\ TypeOK
    BY <1>4 DEF AppendRemaining, input, KahnInv
  <2>3. Cardinality(remaining) \in Nat
    BY <2>2, FeatureFacts, FS_Subset, FS_CardinalityType DEF TypeOK
  <2>4. ordered \in Seq(Feature) /\ remaining \in SUBSET Feature
    BY <2>2 DEF TypeOK
  <2>5. /\ \A i \in DOMAIN ordered : ordered'[i] = ordered[i]
        /\ \A i \in DOMAIN ordered' \ DOMAIN ordered : ordered'[i] \in remaining
        /\ ordered' \in Seq(Feature)
    <3>1. /\ ordered \o s \in Seq(Feature)
          /\ \A i \in DOMAIN ordered : (ordered \o s)[i] = ordered[i]
          /\ \A i \in DOMAIN (ordered \o s) \ DOMAIN ordered : (ordered \o s)[i] \in remaining
      BY <2>3, <2>4, ConcatFacts, Zenon
    <3>. QED  BY <2>1, <3>1, Zenon
  <2>6. ASSUME NEW i \in DOMAIN ordered', NEW j \in DOMAIN ordered', i < j,
               ordered'[j] \notin remaining,
               Known(ordered'[j]) \subseteq {ordered'[k] : k \in 1 .. i - 1}
        PROVE  priority[ordered'[i]] <= priority[ordered'[j]]
    <3>1. j \in DOMAIN ordered
      BY <2>5, <2>6
    <3>2. i \in DOMAIN ordered /\ \A k \in 1 .. i - 1 : k \in DOMAIN ordered
      BY <2>4, <2>5, <2>6, <3>1
    <3>3. Known(ordered[j]) \subseteq {ordered[k] : k \in 1 .. i - 1}
      BY <2>5, <2>6, <3>1, <3>2
    <3>4. priority[ordered[i]] <= priority[ordered[j]]
      BY <2>5, <2>6, <3>1, <3>2, <3>3 DEF OrderInv, MostUrgentFirst
    <3>. QED  BY <2>5, <3>1, <3>2, <3>4
  <2>7. MostUrgentFirst'
    BY <2>2, <2>6 DEF MostUrgentFirst, Known
  <2>. QED  BY <2>2, <2>7 DEF OrderInv
<1>. QED  BY <1>1, <1>2, <1>3, <1>4
          DEF Next, NextRoot, Look, Leave, input, vars

\* Of the features that could come next, one of the highest priority does.
THEOREM UrgentAlwaysFirst == Spec => []MostUrgentFirst
<1>1. Init => OrderInv
  BY DEF Init, OrderInv, Unique, Urgent, MostUrgentFirst
<1>2. OrderInv => MostUrgentFirst
  BY DEF OrderInv
<1>. QED  BY <1>1, <1>2, InitKahn, NextKahn, NextOrder, PTL DEF Spec

-----------------------------------------------------------------------------
(***************************************************************************)
(* What is left over: the features that need one that needs itself.  What  *)
(* is ordered needs only what comes before it.  What is left over always   *)
(* waits for another one, so among the features that f needs one with the  *)
(* fewest needs of its own needs itself.                                   *)
(***************************************************************************)
\* The sets that hold whatever their members need.
Closed(S) == S \subseteq Feature /\ \A h \in S : Known(h) \subseteq S

LEMMA NeedsFacts ==
  ASSUME NEW f \in Feature
  PROVE  /\ Closed(Needs(f)) /\ Known(f) \subseteq Needs(f)
         /\ \A S : Closed(S) /\ Known(f) \subseteq S => Needs(f) \subseteq S
<1>1. \A g : Known(g) \subseteq Feature
  BY DEF Known
<1>2. Known(f) \subseteq Needs(f)
  BY <1>1 DEF Needs
<1>3. ASSUME NEW h \in Needs(f), NEW g \in Known(h)
      PROVE  g \in Needs(f)
  <2>1. ASSUME NEW S \in SUBSET Feature, Known(f) \subseteq S,
               \A k \in S : Known(k) \subseteq S
        PROVE  g \in S
    <3>1. h \in S
      BY <1>3, <2>1 DEF Needs
    <3>. QED  BY <1>3, <2>1, <3>1
  <2>2. g \in Feature
    BY <1>1, <1>3
  <2>. QED  BY <2>1, <2>2 DEF Needs
<1>4. Needs(f) \subseteq Feature
  BY DEF Needs
<1>5. \A S : Closed(S) /\ Known(f) \subseteq S => Needs(f) \subseteq S
  BY DEF Closed, Needs
<1>. QED  BY <1>2, <1>3, <1>4, <1>5 DEF Closed

\* What a feature needs includes what its needs need.
LEMMA NeedsTransitive ==
  ASSUME NEW f \in Feature, NEW g \in Needs(f)
  PROVE  g \in Feature /\ Needs(g) \subseteq Needs(f)
<1>1. Closed(Needs(f)) /\ g \in Feature /\ Known(g) \subseteq Needs(f)
  BY NeedsFacts DEF Closed
<1>. QED  BY <1>1, NeedsFacts

\* The first n features of the order, if all of it respects the dependencies.
LEMMA OrderedIsClosed ==
  ASSUME TypeOK, DependenciesFirst, remaining = {}, NEW n \in Nat, n <= Len(ordered)
  PROVE  Closed({ordered[j] : j \in 1 .. n})
<1>1. /\ DOMAIN ordered = 1 .. Len(ordered) /\ Len(ordered) \in Nat
      /\ \A j \in 1 .. n : j \in DOMAIN ordered /\ ordered[j] \in Feature
  BY DEF TypeOK
<1>2. ASSUME NEW i \in 1 .. n
      PROVE  Known(ordered[i]) \subseteq {ordered[j] : j \in 1 .. n}
  <2>1. Known(ordered[i]) \subseteq {ordered[j] : j \in 1 .. i - 1}
    BY <1>1, <1>2 DEF DependenciesFirst
  <2>2. 1 .. i - 1 \subseteq 1 .. n
    BY <1>2
  <2>. QED  BY <2>1, <2>2
<1>. QED  BY <1>1, <1>2 DEF Closed

LEMMA TakenNeedsNoCycle ==
  ASSUME TypeOK, DependenciesFirst, Unique, remaining = {},
         NEW f \in Taken, NEW g \in Needs(f) \cup {f}
  PROVE  g \notin Needs(g)
<1>1. /\ DOMAIN ordered = 1 .. Len(ordered) /\ Len(ordered) \in Nat
      /\ \A j \in DOMAIN ordered : ordered[j] \in Feature
  BY DEF TypeOK
<1>2. PICK i \in DOMAIN ordered : ordered[i] = f
  BY DEF Taken, Range
<1>3. Closed({ordered[j] : j \in 1 .. Len(ordered)})
  BY <1>1, OrderedIsClosed
<1>4. f \in {ordered[j] : j \in 1 .. Len(ordered)}
  BY <1>1, <1>2
<1>5. Needs(f) \subseteq {ordered[j] : j \in 1 .. Len(ordered)}
  <2>1. Known(f) \subseteq {ordered[j] : j \in 1 .. Len(ordered)}
    BY <1>3, <1>4 DEF Closed
  <2>. QED  BY <1>1, <1>2, <1>3, <2>1, NeedsFacts
<1>6. PICK k \in 1 .. Len(ordered) : ordered[k] = g
  BY <1>4, <1>5
<1>7. k \in DOMAIN ordered /\ g \in Feature /\ k - 1 \in Nat /\ k - 1 <= Len(ordered)
  BY <1>1, <1>6
<1>8. Closed({ordered[j] : j \in 1 .. k - 1})
  BY <1>7, OrderedIsClosed
<1>9. Known(g) \subseteq {ordered[j] : j \in 1 .. k - 1}
  BY <1>6, <1>7 DEF DependenciesFirst
<1>10. Needs(g) \subseteq {ordered[j] : j \in 1 .. k - 1}
  BY <1>7, <1>8, <1>9, NeedsFacts
<1>11. \A j \in 1 .. k - 1 : j \in DOMAIN ordered /\ j # k
  BY <1>1, <1>6
<1>12. \A j \in 1 .. k - 1 : ordered[j] # g
  BY <1>6, <1>7, <1>11 DEF Unique
<1>. QED  BY <1>10, <1>12

\* Of a family of sets of features, one that has no smaller one in it.
LEMMA SmallestSet ==
  ASSUME NEW T \in SUBSET SUBSET Feature, T # {}
  PROVE  \E m \in T : \A s \in T : s \subseteq m => s = m
<1>1. IsWellFoundedOn(StrictSubsetOrdering(Feature), SUBSET Feature)
  BY FeatureFacts, FS_StrictSubsetOrderingWellFounded, FS_FiniteSubsetsOfFinite
<1>2. PICK m \in T : \A s \in T : <<s, m>> \notin StrictSubsetOrdering(Feature)
  BY <1>1, WFMin
<1>3. ASSUME NEW s \in T, s \subseteq m, s # m
      PROVE  FALSE
  <2>1. <<s, m>> \in (SUBSET Feature) \X (SUBSET Feature)
    OBVIOUS
  <2>2. <<s, m>> \in StrictSubsetOrdering(Feature)
    BY <1>3, <2>1 DEF StrictSubsetOrdering
  <2>. QED  BY <1>2, <2>2
<1>. QED  BY <1>3

\* A feature that always leads to one that waits as well needs a cycle.
LEMMA BlockedNeedsCycle ==
  ASSUME NEW R \in SUBSET Feature, \A f \in R : Known(f) \cap R # {}, NEW f \in R
  PROVE  \E g \in Needs(f) \cup {f} : g \in Needs(g)
<1>. DEFINE within(g) == (Needs(g) \cup {g}) \cap R
            T == {within(g) : g \in within(f)}
<1>1. \E g \in within(f) : \A h \in within(f) : within(h) \subseteq within(g) => within(h) = within(g)
  <2>1. T \in SUBSET SUBSET Feature /\ within(f) \in T
    OBVIOUS
  <2>2. PICK m \in T : \A s \in T : s \subseteq m => s = m
    <3>. HIDE DEF T, within
    <3>. QED  BY <2>1, SmallestSet
  <2>. HIDE DEF within
  <2>3. PICK g \in within(f) : m = within(g)
    OBVIOUS
  <2>4. \A h \in within(f) : within(h) \in T
    OBVIOUS
  <2>. QED  BY <2>2, <2>3, <2>4
<1>2. PICK g \in within(f) : \A h \in within(f) : within(h) \subseteq within(g) => within(h) = within(g)
  BY <1>1
<1>3. g \in R /\ g \in Feature /\ f \in Feature
  BY <1>2
<1>4. PICK h \in R : h \in Known(g)
  BY <1>3
<1>5. h \in Feature /\ h \in Needs(g) /\ Needs(h) \subseteq Needs(g)
  BY <1>3, <1>4, NeedsFacts, NeedsTransitive
<1>6. Needs(g) \subseteq Needs(f)
  BY <1>2, <1>3, NeedsTransitive
<1>7. h \in within(f) /\ within(h) \subseteq within(g)
  BY <1>4, <1>5, <1>6
<1>8. g \in within(h)
  BY <1>2, <1>3, <1>7
<1>9. g \in Needs(g)
  BY <1>5, <1>8
<1>. QED  BY <1>2, <1>9

LEMMA CyclesRemain ==
  ASSUME KahnInv, OrderInv, FindRemaining
  PROVE  OnlyCyclesRemain'
<1>1. /\ TypeOK /\ DependenciesFirst /\ QueueReady /\ Unique /\ remaining = {}
      /\ queue = {} /\ remaining' = Feature \ Taken /\ UNCHANGED <<deps, priority>>
  BY DEF FindRemaining, KahnInv, OrderInv, input
<1>2. \A f \in Feature \ Taken : Known(f) \cap (Feature \ Taken) # {}
  BY <1>1 DEF QueueReady, Known
<1>3. ASSUME NEW f \in Feature
      PROVE  f \in Feature \ Taken <=> \E g \in Needs(f) \cup {f} : g \in Needs(g)
  <2>1. CASE f \in Taken
    BY <1>1, <2>1, TakenNeedsNoCycle
  <2>2. CASE f \notin Taken
    <3>. DEFINE R == Feature \ Taken
    <3>1. R \in SUBSET Feature /\ f \in R /\ \A k \in R : Known(k) \cap R # {}
      BY <1>2, <2>2
    <3>. HIDE DEF R
    <3>2. \E g \in Needs(f) \cup {f} : g \in Needs(g)
      BY <3>1, BlockedNeedsCycle
    <3>. QED  BY <2>2, <3>2
  <2>. QED  BY <2>1, <2>2
<1>4. \A f : Needs(f)' = Needs(f)
  BY <1>1 DEF Needs, Known
<1>. QED  BY <1>1, <1>3, <1>4 DEF OnlyCyclesRemain

LEMMA NextCyclesRemain ==
  KahnInv /\ OrderInv /\ OnlyCyclesRemain /\ [Next]_vars => OnlyCyclesRemain'
<1>. SUFFICES ASSUME KahnInv, OrderInv, OnlyCyclesRemain, [Next]_vars
              PROVE  OnlyCyclesRemain'
  OBVIOUS
<1>1. CASE FindRemaining
  BY <1>1, CyclesRemain
<1>2. ASSUME NEW f \in Feature, TakeNext(f)
      PROVE  OnlyCyclesRemain'
  BY <1>2 DEF TakeNext, OnlyCyclesRemain
<1>3. CASE UNCHANGED <<deps, remaining>> /\ (pc' = "kahn" => pc = "kahn") /\ pc # "kahn"
  <2>1. \A f : Needs(f)' = Needs(f)
    BY <1>3 DEF Needs, Known
  <2>. QED  BY <1>3, <2>1 DEF OnlyCyclesRemain
<1>4. CASE UNCHANGED vars
  <2>1. UNCHANGED <<deps, remaining, pc>>
    BY <1>4 DEF vars, input
  <2>2. \A f : Needs(f)' = Needs(f)
    BY <2>1 DEF Needs, Known
  <2>. QED  BY <2>1, <2>2 DEF OnlyCyclesRemain
<1>. QED  BY <1>1, <1>2, <1>3, <1>4
          DEF Next, NextRoot, Look, Leave, AppendRemaining, input

-----------------------------------------------------------------------------
(***************************************************************************)
(* The search for cycles.  Until it finds one, currentPath follows the     *)
(* calls that are under way, each a dependency of the one before, and what *)
(* was visited and left again depends on nothing but such features and     *)
(* forms no cycle.  So a dependency that is met on the path closes a       *)
(* cycle; and a search that has visited everything without meeting one     *)
(* would leave features that all wait for one another without a cycle.     *)
(***************************************************************************)
DepsOf(d) == IF d \in Feature THEN deps[d] ELSE {}

\* Visited, and not on the path any more.
Finished == visited \ Range(path)

CallsFitPath ==
  /\ Len(path) = Len(calls)
  /\ \A k \in 1 .. Len(calls) :
       /\ calls[k].feature = path[k] /\ path[k] \in visited
       /\ calls[k].todo \subseteq DepsOf(path[k])
  /\ \A k, l \in 1 .. Len(calls) : path[k] = path[l] => k = l

PathFollowsDeps ==
  \A k \in 1 .. Len(calls) - 1 : path[k + 1] \in DepsOf(path[k])

\* The dependencies that a call does not look at any more.
LookedAt ==
  \A k \in 1 .. Len(calls) : \A d \in DepsOf(path[k]) \ calls[k].todo :
    d \in Finished \/ (k < Len(calls) /\ d = path[k + 1])

FinishedClosed == \A d \in Finished : DepsOf(d) \subseteq Finished

\* Every set of finished features has one that depends on none of the others.
FinishedFree ==
  \A S \in SUBSET Finished : S # {} => \E d \in S : DepsOf(d) \cap S = {}

NothingFound ==
  CallsFitPath /\ PathFollowsDeps /\ LookedAt /\ FinishedClosed /\ FinishedFree

SearchInv ==
  /\ cycles = <<>> => NothingFound
  /\ cycles # <<>> => IsCycle(cycles[1])
  /\ pc = "kahn" => calls = <<>> /\ cycles = <<>>
  /\ pc = "cycles" => remaining # {}
  /\ CycleReported

LEMMA SearchUnchanged ==
  ASSUME UNCHANGED <<deps, visited, path, calls, cycles>>
  PROVE  /\ NothingFound' = NothingFound
         /\ \A c : IsCycle(c)' = IsCycle(c)
<1>1. \A d : DepsOf(d)' = DepsOf(d)
  BY DEF DepsOf
<1>2. Finished' = Finished
  BY DEF Finished
<1>3. CallsFitPath' = CallsFitPath /\ PathFollowsDeps' = PathFollowsDeps
  BY <1>1 DEF CallsFitPath, PathFollowsDeps
<1>4. LookedAt' = LookedAt
  BY <1>1, <1>2 DEF LookedAt
<1>5. FinishedClosed' = FinishedClosed /\ FinishedFree' = FinishedFree
  BY <1>1, <1>2 DEF FinishedClosed, FinishedFree
<1>6. \A c : IsCycle(c)' = IsCycle(c)
  BY DEF IsCycle
<1>. QED  BY <1>3, <1>4, <1>5, <1>6 DEF NothingFound

\* A call of dfs begins.  outer are the calls around it: those under way, the
\* innermost of which has looked at d.
LEMMA EnterKeeps ==
  ASSUME TypeOK, NothingFound, UNCHANGED deps,
         NEW d \in Id \ visited, NEW outer \in Seq(Call), Enter(d, outer),
         Len(outer) = Len(calls),
         \A k \in 1 .. Len(calls) :
           /\ outer[k].feature = calls[k].feature
           /\ outer[k].todo = IF k = Len(calls) THEN calls[k].todo \ {d} ELSE calls[k].todo,
         calls # <<>> => d \in Top.todo
  PROVE  NothingFound'
<1>. DEFINE n == Len(calls)
            c == [feature |-> d, todo |-> DepsOf(d)]
<1>1. /\ visited' = visited \cup {d} /\ path' = Append(path, d)
      /\ calls' = Append(outer, c)
  BY DEF Enter, DepsOf
<1>2. \A e : DepsOf(e)' = DepsOf(e)
  BY DEF DepsOf
<1>3. /\ n \in Nat /\ Len(path) = n /\ path \in Seq(Id) /\ calls \in Seq(Call)
      /\ \A k \in 1 .. n : path[k] \in Id
  BY DEF TypeOK, NothingFound, CallsFitPath
<1>4. /\ Len(path') = n + 1 /\ path'[n + 1] = d
      /\ \A k \in 1 .. n : path'[k] = path[k]
      /\ DOMAIN path = 1 .. n /\ DOMAIN path' = 1 .. n + 1
  BY <1>1, <1>3
<1>5. /\ Len(calls') = n + 1 /\ calls'[n + 1] = c
      /\ \A k \in 1 .. n : calls'[k] = outer[k]
  <2>. HIDE DEF c
  <2>. QED  BY <1>1, <1>3
<1>6. Range(path') = Range(path) \cup {d}
  BY <1>4 DEF Range
<1>7. Finished' = Finished
  BY <1>1, <1>6 DEF Finished
<1>8. \A k \in 1 .. n : path[k] \in visited /\ path[k] # d
  BY DEF NothingFound, CallsFitPath
<1>9. CallsFitPath'
  <2>1. ASSUME NEW k \in 1 .. n + 1
        PROVE  /\ calls'[k].feature = path'[k] /\ path'[k] \in visited'
               /\ calls'[k].todo \subseteq DepsOf(path'[k])
    <3>1. CASE k \in 1 .. n
      BY ZenonT(40), <1>1, <1>4, <1>5, <3>1 DEF NothingFound, CallsFitPath
    <3>2. CASE k = n + 1
      BY <1>1, <1>4, <1>5, <3>2
    <3>. QED  BY <2>1, <3>1, <3>2, <1>3
  <2>2. ASSUME NEW k \in 1 .. n + 1, NEW l \in 1 .. n + 1, path'[k] = path'[l]
        PROVE  k = l
    <3>1. CASE k \in 1 .. n /\ l \in 1 .. n
      BY ZenonT(40), <1>4, <2>2, <3>1 DEF NothingFound, CallsFitPath
    <3>2. CASE k = n + 1 \/ l = n + 1
      BY <1>3, <1>4, <1>8, <2>2, <3>2
    <3>. QED  BY <1>3, <3>1, <3>2
  <2>. QED  BY <1>2, <1>4, <1>5, <2>1, <2>2 DEF CallsFitPath
<1>10. n # 0 => d \in DepsOf(path[n])
  <2>1. n # 0 => calls # <<>> /\ n \in 1 .. n
    BY <1>3
  <2>. QED  BY <2>1 DEF NothingFound, CallsFitPath, Top
<1>11. PathFollowsDeps'
  <2>1. ASSUME NEW k \in 1 .. n
        PROVE  path'[k + 1] \in DepsOf(path'[k])
    <3>1. CASE k = n
      BY <1>3, <1>4, <1>10, <3>1
    <3>2. CASE k \in 1 .. n - 1
      <4>1. k + 1 \in 1 .. n
        BY <1>3, <3>2
      <4>. QED  BY <1>4, <2>1, <3>2, <4>1 DEF NothingFound, PathFollowsDeps
    <3>. QED  BY <1>3, <3>1, <3>2
  <2>2. Len(calls') - 1 = n
    BY <1>3, <1>5
  <2>. QED  BY <1>2, <2>1, <2>2 DEF PathFollowsDeps
<1>12. LookedAt'
  <2>1. ASSUME NEW k \in 1 .. n + 1, NEW e \in DepsOf(path'[k]) \ calls'[k].todo
        PROVE  e \in Finished \/ (k < n + 1 /\ e = path'[k + 1])
    <3>1. CASE k \in 1 .. n /\ e \in calls[k].todo
      BY <1>3, <1>4, <1>5, <2>1, <3>1
    <3>2. CASE k \in 1 .. n /\ e \notin calls[k].todo
      <4>1. e \in Finished \/ (k < n /\ e = path[k + 1])
        BY <1>4, <2>1, <3>2 DEF NothingFound, LookedAt
      <4>2. k < n => k + 1 \in 1 .. n /\ k < n + 1
        BY <1>3, <3>2
      <4>. QED  BY <1>4, <4>1, <4>2
    <3>3. CASE k = n + 1
      BY <1>4, <1>5, <2>1, <3>3
    <3>. QED  BY <1>3, <3>1, <3>2, <3>3
  <2>. QED  BY <1>2, <1>5, <1>7, <2>1 DEF LookedAt
<1>13. FinishedClosed' /\ FinishedFree'
  BY <1>2, <1>7 DEF NothingFound, FinishedClosed, FinishedFree
<1>. QED  BY <1>9, <1>11, <1>12, <1>13 DEF NothingFound

\* A dependency that was visited and left before.
LEMMA SkipKeeps ==
  ASSUME TypeOK, NothingFound, calls # <<>>, UNCHANGED <<deps, visited, path>>,
         NEW d \in Finished,
         calls' = Append(Outer, [Top EXCEPT !.todo = @ \ {d}])
  PROVE  NothingFound'
<1>. DEFINE n == Len(calls)
            c == [Top EXCEPT !.todo = @ \ {d}]
<1>1. n \in Nat /\ n \in 1 .. n /\ calls \in Seq(Call) /\ Top = calls[n] /\ Top \in Call
      /\ Len(path) = n
  BY CallFacts DEF TypeOK, Top, NothingFound, CallsFitPath
<1>2. c.feature = Top.feature /\ c.todo = Top.todo \ {d} /\ c \in Call
  BY <1>1 DEF Call
<1>3. Len(calls') = n /\ calls'[n] = c /\ \A k \in 1 .. n - 1 : calls'[k] = calls[k]
  <2>1. Outer \in Seq(Call) /\ Len(Outer) = n - 1 /\ \A k \in 1 .. n - 1 : Outer[k] = calls[k]
    BY <1>1 DEF Outer
  <2>2. calls' = Append(Outer, c) /\ c \in Call
    BY <1>2
  <2>. HIDE DEF c
  <2>. QED  BY <1>1, <2>1, <2>2, AppendFacts
<1>4. \A e : DepsOf(e)' = DepsOf(e)
  BY DEF DepsOf
<1>5. Finished' = Finished
  BY DEF Finished
<1>6. \A k \in 1 .. n : /\ calls'[k].feature = calls[k].feature
                        /\ calls'[k].todo \subseteq calls[k].todo
                        /\ calls[k].todo \subseteq calls'[k].todo \cup {d}
  <2>1. \A k \in 1 .. n : k = n \/ k \in 1 .. n - 1
    BY <1>1
  <2>. QED  BY <1>1, <1>2, <1>3, <2>1
<1>. HIDE DEF c
<1>7. CallsFitPath'
  BY <1>1, <1>3, <1>4, <1>6 DEF NothingFound, CallsFitPath
<1>8. PathFollowsDeps'
  BY <1>3, <1>4 DEF NothingFound, PathFollowsDeps
<1>9. LookedAt'
  BY <1>3, <1>4, <1>5, <1>6 DEF NothingFound, LookedAt
<1>10. FinishedClosed' /\ FinishedFree'
  BY <1>4, <1>5 DEF NothingFound, FinishedClosed, FinishedFree
<1>. QED  BY <1>7, <1>8, <1>9, <1>10 DEF NothingFound

\* dfs returns false: the feature is finished.
LEMMA LeaveKeeps ==
  ASSUME TypeOK, NothingFound, calls # <<>>, UNCHANGED <<deps, visited>>,
         Top.todo = {}, path' = SubSeq(path, 1, Len(path) - 1), calls' = Outer
  PROVE  NothingFound'
<1>. DEFINE n == Len(calls)
            d == path[n]
<1>1. /\ n \in Nat /\ n \in 1 .. n /\ calls \in Seq(Call) /\ Top = calls[n]
      /\ Len(path) = n /\ path \in Seq(Id) /\ DOMAIN path = 1 .. n
  BY CallFacts DEF TypeOK, Top, NothingFound, CallsFitPath
<1>2. /\ Len(path') = n - 1 /\ DOMAIN path' = 1 .. n - 1
      /\ \A k \in 1 .. n - 1 : path'[k] = path[k]
  BY <1>1
<1>3. Len(calls') = n - 1 /\ \A k \in 1 .. n - 1 : calls'[k] = calls[k]
  BY <1>1 DEF Outer
<1>4. \A e : DepsOf(e)' = DepsOf(e)
  BY DEF DepsOf
<1>5. 1 .. n - 1 \subseteq 1 .. n /\ n \notin 1 .. n - 1 /\ 1 .. n = 1 .. n - 1 \cup {n}
  BY <1>1
<1>6. d \in visited /\ \A k \in 1 .. n - 1 : path[k] # d
  BY <1>1, <1>5 DEF NothingFound, CallsFitPath
<1>7. Range(path) = Range(path') \cup {d} /\ d \notin Range(path')
  <2>1. Range(path) = {path[k] : k \in 1 .. n} /\ Range(path') = {path'[k] : k \in 1 .. n - 1}
    BY <1>1, <1>2 DEF Range
  <2>. QED  BY SMTT(20), <1>2, <1>5, <1>6, <2>1
<1>8. Finished' = Finished \cup {d} /\ d \notin Finished
  BY <1>6, <1>7 DEF Finished
<1>9. DepsOf(d) \subseteq Finished
  BY <1>1 DEF NothingFound, LookedAt
<1>. HIDE DEF d
<1>10. CallsFitPath'
  BY SMTT(20), <1>2, <1>3, <1>4, <1>5 DEF NothingFound, CallsFitPath
<1>11. PathFollowsDeps'
  <2>1. \A k \in 1 .. Len(calls') - 1 : k \in 1 .. n - 1 /\ k + 1 \in 1 .. n - 1
    BY <1>1, <1>3
  <2>. QED  BY <1>2, <1>4, <2>1 DEF NothingFound, PathFollowsDeps
<1>12. LookedAt'
  <2>1. ASSUME NEW k \in 1 .. n - 1, NEW e \in DepsOf(path[k]) \ calls[k].todo
        PROVE  e \in Finished' \/ (k < n - 1 /\ e = path'[k + 1])
    <3>1. e \in Finished \/ e = path[k + 1]
      BY <1>5, <2>1 DEF NothingFound, LookedAt
    <3>2. CASE k = n - 1
      BY <1>1, <1>8, <3>1, <3>2 DEF d
    <3>3. CASE k # n - 1
      <4>1. k < n - 1 /\ k + 1 \in 1 .. n - 1
        <5>1. n \in Nat /\ k \in 1 .. n - 1 /\ k # n - 1
          BY <1>1, <2>1, <3>3
        <5>. HIDE DEF n
        <5>. QED  BY <5>1
      <4>. QED  BY <1>2, <1>8, <3>1, <4>1
    <3>. QED  BY <3>2, <3>3
  <2>. QED  BY <1>2, <1>3, <1>4, <2>1 DEF LookedAt
<1>13. FinishedClosed'
  BY <1>4, <1>8, <1>9 DEF NothingFound, FinishedClosed
<1>14. FinishedFree'
  <2>1. ASSUME NEW S \in SUBSET (Finished \cup {d}), S # {}
        PROVE  \E e \in S : DepsOf(e) \cap S = {}
    <3>1. CASE S \ {d} = {}
      <4>1. S = {d}
        BY <2>1, <3>1
      <4>. QED  BY <1>8, <1>9, <4>1
    <3>2. CASE S \ {d} # {}
      <4>1. S \ {d} \in SUBSET Finished
        BY <2>1
      <4>2. PICK e \in S \ {d} : DepsOf(e) \cap (S \ {d}) = {}
        BY <3>2, <4>1 DEF NothingFound, FinishedFree
      <4>3. d \notin DepsOf(e)
        BY <1>8, <4>1, <4>2 DEF NothingFound, FinishedClosed
      <4>. QED  BY <4>2, <4>3
    <3>. QED  BY <3>1, <3>2
  <2>. QED  BY <1>4, <1>8, <2>1 DEF FinishedFree
<1>. QED  BY <1>10, <1>11, <1>12, <1>13, <1>14 DEF NothingFound

\* The first report: the part of the path from d on, which d closes.
LEMMA ReportIsCycle ==
  ASSUME TypeOK, NothingFound, calls # <<>>, cycles = <<>>, UNCHANGED deps,
         NEW d \in Id, d \in Top.todo, Report(d)
  PROVE  \E c : cycles' = <<c>> /\ IsCycle(c)
<1>. DEFINE n == Len(calls)
<1>1. /\ n \in Nat /\ n \in 1 .. n /\ Top = calls[n]
      /\ Len(path) = n /\ path \in Seq(Id) /\ DOMAIN path = 1 .. n
  BY CallFacts DEF TypeOK, Top, NothingFound, CallsFitPath
<1>2. PICK i \in 1 .. n : path[i] = d /\ cycles' = Append(cycles, SubSeq(path, i, n))
  BY <1>1 DEF Report
<1>. DEFINE c == SubSeq(path, i, n)
<1>3. /\ c \in Seq(Id) /\ Len(c) = n - i + 1
      /\ \A k \in 1 .. n - i + 1 : c[k] = path[k + i - 1]
  BY <1>1, <1>2
<1>4. cycles' = <<c>>
  BY <1>2
<1>. HIDE DEF c
<1>5. ASSUME NEW e
      PROVE  DepsOf(e) \subseteq (IF e \in Feature THEN deps[e] ELSE {})
  BY DEF DepsOf
<1>6. \A k \in 1 .. n - 1 : path[k + 1] \in deps[path[k]]
  BY <1>5 DEF NothingFound, PathFollowsDeps
<1>7. d \in deps[path[n]]
  BY <1>1, <1>5 DEF NothingFound, CallsFitPath
<1>8. ASSUME NEW k \in 1 .. Len(c) - 1
      PROVE  c[k + 1] \in deps[c[k]]
  <2>1. /\ k \in 1 .. n - i + 1 /\ k + 1 \in 1 .. n - i + 1
        /\ k + i - 1 \in 1 .. n - 1 /\ (k + 1) + i - 1 = (k + i - 1) + 1
    BY <1>1, <1>2, <1>3
  <2>. QED  BY <1>3, <1>6, <2>1
<1>9. c[1] = d /\ c[Len(c)] = path[n]
  <2>1. 1 \in 1 .. n - i + 1 /\ n - i + 1 \in 1 .. n - i + 1 /\ 1 + i - 1 = i
        /\ (n - i + 1) + i - 1 = n
    BY <1>1, <1>2
  <2>. QED  BY <1>2, <1>3, <2>1
<1>10. IsCycle(c)
  BY <1>7, <1>8, <1>9 DEF IsCycle
<1>. QED  BY <1>4, <1>10

\* Without a report nothing can be left over at the end.
LEMMA NothingLeftOver ==
  ASSUME TypeOK, LeftOverIsBlocked, NothingFound, pc = "cycles", calls = <<>>,
         remaining \subseteq visited
  PROVE  remaining = {}
<1>1. path \in Seq(Id) /\ Len(path) = 0
  BY DEF TypeOK, NothingFound, CallsFitPath
<1>2. remaining \subseteq Finished
  BY <1>1 DEF Finished, Range
<1>3. ASSUME remaining # {}
      PROVE  FALSE
  <2>1. PICK f \in remaining : DepsOf(f) \cap remaining = {}
    BY <1>2, <1>3 DEF NothingFound, FinishedFree
  <2>2. f \in Feature
    BY DEF TypeOK
  <2>. QED  BY <2>1, <2>2 DEF LeftOverIsBlocked, DepsOf, Known
<1>. QED  BY <1>3

\* A step of the search that goes on.
LEMMA SearchGoesOn ==
  ASSUME SearchInv, pc = "cycles", pc' = "cycles", UNCHANGED <<deps, remaining>>,
         \/ UNCHANGED cycles /\ (cycles = <<>> => NothingFound')
         \/ cycles = <<>> /\ \E c : cycles' = <<c>> /\ IsCycle(c)
         \/ cycles # <<>> /\ \E c : cycles' = Append(cycles, c) /\ cycles'[1] = cycles[1]
                                    /\ cycles' # <<>>
  PROVE  SearchInv'
<1>1. \A c : IsCycle(c)' = IsCycle(c)
  BY DEF IsCycle
<1>2. (cycles' = <<>> => cycles = <<>> /\ NothingFound') /\ (cycles' # <<>> => IsCycle(cycles'[1]))
  BY DEF SearchInv
<1>3. cycles' # <<>> => IsCycle(cycles[1])'
  BY <1>2 DEF IsCycle
<1>. QED  BY <1>2, <1>3 DEF SearchInv, CycleReported

LEMMA LookSearch ==
  ASSUME KahnInv, SearchInv, NEW d \in Id, Look(d)
  PROVE  SearchInv'
<1>. DEFINE c == [Top EXCEPT !.todo = @ \ {d}]
            outer == Append(Outer, c)
            n == Len(calls)
<1>1. /\ TypeOK /\ pc = "cycles" /\ pc' = "cycles" /\ calls # <<>> /\ d \in Top.todo
      /\ UNCHANGED <<deps, remaining>>
  BY DEF KahnInv, Look, input
<1>2. /\ n \in Nat /\ n \in 1 .. n /\ calls \in Seq(Call) /\ Top = calls[n] /\ Top \in Call
      /\ Outer \in Seq(Call) /\ Len(Outer) = n - 1 /\ \A k \in 1 .. n - 1 : Outer[k] = calls[k]
  BY <1>1, CallFacts
<1>3. c.feature = Top.feature /\ c.todo = Top.todo \ {d} /\ c \in Call
  BY <1>2 DEF Call
<1>4. outer \in Seq(Call) /\ Len(outer) = n /\ outer[n] = c
      /\ \A k \in 1 .. n - 1 : outer[k] = calls[k]
  <2>. HIDE DEF c
  <2>. QED  BY <1>2, <1>3, AppendFacts
<1>5. \A k \in 1 .. n :
        /\ outer[k].feature = calls[k].feature
        /\ outer[k].todo = IF k = n THEN calls[k].todo \ {d} ELSE calls[k].todo
  <2>1. \A k \in 1 .. n : k = n \/ k \in 1 .. n - 1
    BY <1>2
  <2>. HIDE DEF outer, c
  <2>. QED  BY <1>2, <1>3, <1>4, <2>1
<1>6. CASE Enter(d, outer) /\ d \notin visited
  <2>1. cycles = <<>> => NothingFound'
    <3>. HIDE DEF outer
    <3>. QED  BY <1>1, <1>4, <1>5, <1>6, EnterKeeps DEF SearchInv
  <2>. QED  BY <1>1, <1>6, <2>1, SearchGoesOn DEF Enter
<1>7. CASE Report(d) /\ cycles = <<>>
  BY <1>1, <1>7, ReportIsCycle, SearchGoesOn DEF SearchInv
<1>8. CASE Report(d) /\ cycles # <<>>
  <2>1. PICK i \in DOMAIN path : cycles' = Append(cycles, SubSeq(path, i, Len(path)))
    BY <1>8 DEF Report
  <2>2. SubSeq(path, i, Len(path)) \in Seq(Id) /\ cycles \in Seq(Seq(Id))
    BY <1>1 DEF TypeOK
  <2>3. cycles' # <<>> /\ cycles'[1] = cycles[1]
    BY <1>8, <2>1, <2>2
  <2>. QED  BY <1>1, <1>8, <2>1, <2>3, SearchGoesOn
<1>9. CASE d \in visited \ Range(path) /\ calls' = outer /\ UNCHANGED <<visited, path, cycles>>
  <2>1. cycles = <<>> => NothingFound'
    BY <1>1, <1>9, SkipKeeps DEF SearchInv, Finished
  <2>. QED  BY <1>1, <1>9, <2>1, SearchGoesOn
<1>. QED  BY <1>6, <1>7, <1>8, <1>9 DEF Look

LEMMA NextSearch == KahnInv /\ SearchInv /\ [Next]_vars => SearchInv'
<1>. SUFFICES ASSUME KahnInv, SearchInv, [Next]_vars
              PROVE  SearchInv'
  OBVIOUS
<1>0. TypeOK
  BY DEF KahnInv
<1>1. CASE UNCHANGED <<deps, visited, path, calls, cycles, pc, remaining>>
  BY <1>1, SearchUnchanged DEF SearchInv, CycleReported
<1>2. ASSUME NEW f \in Feature, TakeNext(f)
      PROVE  SearchInv'
  BY <1>1, <1>2 DEF TakeNext, input, search
<1>3. CASE FindRemaining
  <2>1. /\ UNCHANGED <<deps, visited, path, calls, cycles>> /\ cycles = <<>> /\ pc = "kahn"
        /\ pc' = IF remaining' = {} THEN "done" ELSE "cycles"
    BY <1>3 DEF FindRemaining, input, search, SearchInv
  <2>. QED  BY <2>1, SearchUnchanged DEF SearchInv, CycleReported
<1>4. ASSUME NEW f \in Feature, NextRoot(f)
      PROVE  SearchInv'
  <2>1. /\ pc = "cycles" /\ pc' = "cycles" /\ calls = <<>> /\ f \in Id \ visited
        /\ Enter(f, <<>>) /\ UNCHANGED <<deps, remaining, cycles>>
    BY <1>4, FeatureFacts DEF NextRoot, Enter, input
  <2>2. <<>> \in Seq(Call) /\ Len(calls) = 0 /\ Len(<<>>) = 0 /\ 1 .. 0 = {}
    BY <2>1
  <2>3. cycles = <<>> => NothingFound'
    BY <1>0, <2>1, <2>2, EnterKeeps DEF SearchInv
  <2>. QED  BY <2>1, <2>3, SearchGoesOn
<1>5. ASSUME NEW d \in Id, Look(d)
      PROVE  SearchInv'
  BY <1>5, LookSearch
<1>6. CASE Leave
  <2>1. /\ pc = "cycles" /\ pc' = "cycles" /\ calls # <<>> /\ Top.todo = {}
        /\ path' = SubSeq(path, 1, Len(path) - 1) /\ calls' = Outer
        /\ UNCHANGED <<deps, remaining, cycles, visited>>
    BY <1>6 DEF Leave, input
  <2>2. cycles = <<>> => NothingFound'
    BY <1>0, <2>1, LeaveKeeps DEF SearchInv
  <2>. QED  BY <2>1, <2>2, SearchGoesOn
<1>7. CASE AppendRemaining
  <2>1. /\ pc = "cycles" /\ pc' = "done" /\ calls = <<>> /\ remaining \subseteq visited
        /\ UNCHANGED <<deps, visited, path, calls, cycles, remaining>>
    BY <1>7 DEF AppendRemaining, input, search
  <2>2. cycles # <<>> /\ remaining # {}
    BY <1>0, <2>1, NothingLeftOver DEF KahnInv, SearchInv
  <2>. QED  BY <2>1, <2>2, SearchUnchanged DEF SearchInv, CycleReported
<1>. QED  BY <1>1, <1>2, <1>3, <1>4, <1>5, <1>6, <1>7 DEF Next, vars, input, search

\* Exactly the features on a cycle, and those that need one of these, are left
\* over; if there are any a cycle is reported, and the first report is one.
THEOREM LeftOverAlwaysExplained == Spec => []LeftOverExplained
<1>1. Init => OrderInv /\ OnlyCyclesRemain
  BY DEF Init, OrderInv, Unique, Urgent, MostUrgentFirst, OnlyCyclesRemain
<1>2. Init => SearchInv
  <2>. SUFFICES ASSUME Init  PROVE SearchInv
    OBVIOUS
  <2>1. /\ path = <<>> /\ calls = <<>> /\ cycles = <<>> /\ visited = {} /\ pc = "kahn"
        /\ Len(path) = 0 /\ Len(calls) = 0 /\ 1 .. 0 = {} /\ 1 .. 0 - 1 = {}
    BY DEF Init
  <2>2. Finished = {}
    BY <2>1 DEF Finished
  <2>3. CallsFitPath /\ PathFollowsDeps /\ LookedAt
    BY <2>1 DEF CallsFitPath, PathFollowsDeps, LookedAt
  <2>. QED  BY <2>1, <2>2, <2>3
            DEF SearchInv, NothingFound, FinishedClosed, FinishedFree, CycleReported
<1>3. SearchInv => CycleReported
  BY DEF SearchInv
<1>. QED  BY <1>1, <1>2, <1>3, InitKahn, NextKahn, NextOrder, NextCyclesRemain, NextSearch, PTL
          DEF Spec, LeftOverExplained
=============================================================================
