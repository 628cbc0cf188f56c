--------------------------- MODULE HandlersProofs ---------------------------
(***************************************************************************)
(* Proofs about the handlers that read and write files without the writer  *)
(* of JsonFile, BacklogApply and PipelineConfig, for any features,         *)
(* projects and edits.  And, at the end, what is proved about JsonFile for *)
(* the copies of its variables that MCJsonFile composes with them.         *)
(***************************************************************************)
EXTENDS MCJsonFile, JsonFileProofs, FiniteSetTheorems

-----------------------------------------------------------------------------
(***************************************************************************)
(* The application of a backlog plan.                                      *)
(***************************************************************************)
\* The passes come in their order.
LEMMA Passes ==
  /\ {Stages[i] : i \in DOMAIN Stages} = {"idle", "delete", "add", "update", "link", "done"}
  /\ \A s : s # "idle" /\ Before(s, "delete") => s = "delete"
  /\ \A s : s # "idle" /\ Before(s, "add") => s \in {"delete", "add"}
  /\ \A s : s # "idle" /\ Before(s, "update") => s \in {"delete", "add", "update"}
<1>. Stages = <<"idle", "delete", "add", "update", "link", "done">>
  BY DEF Stages
<1>1. DOMAIN Stages = 1 .. 6
  OBVIOUS
<1>2. {Stages[i] : i \in DOMAIN Stages} = {"idle", "delete", "add", "update", "link", "done"}
  BY <1>1
<1>3. \A s : s # "idle" /\ Before(s, "delete") => s = "delete"
  BY <1>1 DEF Before
<1>4. \A s : s # "idle" /\ Before(s, "add") => s \in {"delete", "add"}
  BY <1>1 DEF Before
<1>5. \A s : s # "idle" /\ Before(s, "update") => s \in {"delete", "add", "update"}
  BY <1>1 DEF Before
<1>. QED  BY <1>2, <1>3, <1>4, <1>5

LEMMA WrittenType == \A D \in WrittenDeps : D \in SUBSET Id
  BY DEF WrittenDeps

LEMMA ApplyInitType == ApplyInit => ApplyTypeOK
<1>. SUFFICES ASSUME ApplyInit PROVE ApplyTypeOK
  OBVIOUS
<1>1. stage \in {Stages[i] : i \in DOMAIN Stages} /\ left \in 0 .. MaxChanges
  BY Passes, ChangesAssumption DEF ApplyInit
<1>2. deps \in [Id -> SUBSET Id] /\ listed \in [Id -> SUBSET Id] /\ known \in [Id -> SUBSET Id]
  BY DEF ApplyInit, Empty, Id
<1>. QED  BY <1>1, <1>2 DEF ApplyInit, ApplyTypeOK, Id

LEMMA ChangeType ==
  ASSUME ApplyTypeOK, NEW f \in Id,
         DeleteChange(f) \/ AddChange(f) \/ UpdateChange(f) \/ LinkChange(f) \/ UserEdits(f)
  PROVE  ApplyTypeOK'
<1>. USE DEF ApplyTypeOK
<1>1. left > 0 /\ left' = left - 1 /\ UNCHANGED use
  BY DEF DeleteChange, AddChange, UpdateChange, LinkChange, UserEdits, Take
<1>2. left' \in 0 .. MaxChanges
  BY <1>1, ChangesAssumption
<1>3. stage' \in {"delete", "add", "update", "link"} \/ stage' = stage
  BY DEF DeleteChange, AddChange, UpdateChange, LinkChange, UserEdits, Take
<1>4. stage' \in {Stages[i] : i \in DOMAIN Stages}
  BY <1>3, Passes
<1>5. CASE DeleteChange(f)
  <2>1. \A S \in SUBSET Id : RemoveFrom(S, f) => deps' \in [Id -> SUBSET Id]
    BY DEF RemoveFrom
  <2>2. deps' \in [Id -> SUBSET Id]
    BY <1>5, <2>1 DEF DeleteChange, Id
  <2>. QED  BY <1>1, <1>2, <1>4, <1>5, <2>2 DEF DeleteChange
<1>6. CASE AddChange(f)
  BY <1>1, <1>2, <1>4, <1>6, WrittenType DEF AddChange
<1>7. CASE UpdateChange(f)
  BY <1>1, <1>2, <1>4, <1>7, WrittenType DEF UpdateChange
<1>8. CASE LinkChange(f)
  BY <1>1, <1>2, <1>4, <1>8, WrittenType DEF LinkChange
<1>9. CASE UserEdits(f)
  BY <1>1, <1>2, <1>4, <1>9 DEF UserEdits
<1>. QED  BY <1>5, <1>6, <1>7, <1>8, <1>9

LEMMA ApplyNextType == ApplyTypeOK /\ [ApplyNext]_ApplyVars => ApplyTypeOK'
<1>1. ApplyTypeOK /\ UNCHANGED ApplyVars => ApplyTypeOK'
  BY DEF ApplyTypeOK, ApplyVars
<1>2. ApplyTypeOK /\ (LoadFeatures \/ Finish) => ApplyTypeOK'
  BY Passes DEF ApplyTypeOK, LoadFeatures, Finish
<1>. QED  BY <1>1, <1>2, ChangeType DEF ApplyNext

\* Every reachable state is well typed.
THEOREM ApplyTypeCorrect == ApplySpec => []ApplyTypeOK
BY ApplyInitType, ApplyNextType, PTL DEF ApplySpec

-----------------------------------------------------------------------------
(***************************************************************************)
(* A plan that deletes one feature, with nobody interfering: until the     *)
(* deletion the board is what was loaded; what featureMap knows of a       *)
(* feature, beyond what exists and what the plan has named, is stale at    *)
(* most by a dependency on the deleted one; and links come last.           *)
(***************************************************************************)
LinksClean == \A f \in linked : listed[f] \cap deletions = {}
OnlyNamed == \A f \in exists : deps[f] \subseteq exists \cup named[f]
KnownNamed ==
  \A f \in mapped : known[f] \subseteq exists \cup (listed[f] \cap deletions) \cup named[f]

OneDeletion ==
  use \cap {"deletes", "edits"} = {} =>
    /\ stage = "idle" => exists = Feature /\ mapped = {} /\ deletions = {}
    /\ stage = "delete" /\ deletions = {} => exists = Feature /\ deps = listed
    /\ stage = "delete" => known = listed
    /\ stage \notin {"link", "done"} => linked = {}
    /\ KnownNamed
    /\ LinksClean => OnlyNamed

LEMMA DeletionKept ==
  ASSUME ApplyTypeOK, OneDeletion, NEW f \in Id,
         use \cap {"deletes", "edits"} = {}, DeleteChange(f)
  PROVE  OneDeletion'
<1>. USE DEF ApplyTypeOK
<1>1. /\ stage = "delete" /\ deletions = {} /\ exists = Feature
      /\ deps = listed /\ known = listed /\ KnownNamed
  BY Passes DEF DeleteChange, Take, OneDeletion
<1>2. linked = {} /\ OnlyNamed
  BY <1>1 DEF OneDeletion, LinksClean
<1>3. /\ RemoveFrom({g \in Feature : f \in listed[g]}, f)
      /\ exists' = exists \ {f} /\ mapped' = mapped \ {f}
      /\ deletions' = {f} /\ stage' = "delete"
      /\ UNCHANGED <<use, listed, known, linked, named>>
  BY <1>1 DEF DeleteChange, Take
<1>4. OnlyNamed'
  <2>. SUFFICES ASSUME NEW g \in exists'
                PROVE  deps'[g] \subseteq exists' \cup named[g]
    BY <1>3 DEF OnlyNamed
  <2>1. g \in Feature /\ g \in Id /\ deps[g] \subseteq exists \cup named[g]
    BY <1>1, <1>2, <1>3 DEF OnlyNamed, Id
  <2>2. deps'[g] = IF f \in listed[g] THEN listed[g] \ {f} ELSE deps[g]
    BY <2>1, <1>3 DEF RemoveFrom
  <2>. QED  BY <2>1, <2>2, <1>1, <1>3
<1>5. KnownNamed'
  <2>. SUFFICES ASSUME NEW g \in mapped', NEW h \in known[g], h \notin exists', h \notin named[g]
                PROVE  h \in listed[g] \cap {f}
    BY <1>3 DEF KnownNamed
  <2>1. known[g] \subseteq exists \cup named[g]
    BY <1>1, <1>3 DEF KnownNamed
  <2>2. h = f
    BY <1>3, <2>1
  <2>. QED  BY <1>1, <2>2
<1>. QED  BY <1>1, <1>2, <1>3, <1>4, <1>5 DEF OneDeletion

LEMMA ChangeKept ==
  ASSUME ApplyTypeOK, OneDeletion, NEW f \in Id, use \cap {"deletes", "edits"} = {},
         AddChange(f) \/ UpdateChange(f)
  PROVE  OneDeletion'
<1>. USE DEF ApplyTypeOK
<1>1. /\ stage \notin {"idle", "link", "done"} /\ stage' \in {"add", "update"}
      /\ linked = {} /\ OnlyNamed /\ KnownNamed
  BY Passes DEF AddChange, UpdateChange, Take, OneDeletion, LinksClean
<1>2. /\ exists' = exists \cup {f} /\ mapped' = mapped \cup {f}
      /\ UNCHANGED <<use, listed, deletions, linked>>
  BY DEF AddChange, UpdateChange, Take
<1>3. OnlyNamed' /\ KnownNamed'
  <2>1. CASE \E D \in WrittenDeps : /\ deps' = [deps EXCEPT ![f] = D]
                                    /\ known' = [known EXCEPT ![f] = D]
                                    /\ named' = [named EXCEPT ![f] = D]
    BY <1>1, <1>2, <2>1 DEF OnlyNamed, KnownNamed
  <2>2. CASE /\ f \in exists
             /\ known' = [known EXCEPT ![f] = deps[f]]
             /\ UNCHANGED <<deps, named>>
    BY <1>1, <1>2, <2>2 DEF OnlyNamed, KnownNamed
  <2>. QED  BY <2>1, <2>2 DEF AddChange, UpdateChange
<1>. QED  BY <1>1, <1>2, <1>3 DEF OneDeletion

LEMMA LinkKept ==
  ASSUME ApplyTypeOK, OneDeletion, NEW f \in Id, use \cap {"deletes", "edits"} = {},
         LinkChange(f)
  PROVE  OneDeletion'
<1>. USE DEF ApplyTypeOK
<1>1. /\ stage' = "link" /\ linked' = linked \cup {f} /\ f \in mapped \cap exists
      /\ UNCHANGED <<use, exists, listed, mapped, known, deletions>> /\ KnownNamed
  BY DEF LinkChange, Take, OneDeletion
<1>2. PICK removed, added \in WrittenDeps :
        /\ deps' = [deps EXCEPT ![f] = (known[f] \ removed) \cup (added \ known[f])]
        /\ named' = [named EXCEPT ![f] = @ \cup (added \ known[f])]
  BY DEF LinkChange
<1>3. KnownNamed'
  BY <1>1, <1>2 DEF KnownNamed
<1>4. ASSUME LinksClean'
      PROVE  OnlyNamed'
  <2>1. OnlyNamed
    BY <1>1, <1>4 DEF LinksClean, OneDeletion
  <2>2. known[f] \subseteq exists \cup named[f]
    BY <1>1, <1>4 DEF LinksClean, KnownNamed
  <2>. QED  BY <1>1, <1>2, <2>1, <2>2 DEF OnlyNamed
<1>. QED  BY <1>1, <1>3, <1>4 DEF OneDeletion

LEMMA NextOneDeletion == ApplyTypeOK /\ OneDeletion /\ [ApplyNext]_ApplyVars => OneDeletion'
<1>1. OneDeletion /\ UNCHANGED ApplyVars => OneDeletion'
  BY DEF OneDeletion, LinksClean, OnlyNamed, KnownNamed, ApplyVars
<1>2. OneDeletion /\ ApplyTypeOK /\ LoadFeatures => OneDeletion'
  BY DEF OneDeletion, ApplyTypeOK, LoadFeatures, LinksClean, OnlyNamed, KnownNamed
<1>3. OneDeletion /\ Finish => OneDeletion'
  BY DEF OneDeletion, Finish, LinksClean, OnlyNamed, KnownNamed
<1>4. ApplyNext => UNCHANGED use
  BY DEF ApplyNext, LoadFeatures, Finish, DeleteChange, AddChange, UpdateChange,
         LinkChange, UserEdits, Take
<1>5. ASSUME use \cap {"deletes", "edits"} # {}, ApplyNext
      PROVE  OneDeletion'
  BY <1>4, <1>5 DEF OneDeletion
<1>6. ASSUME use \cap {"deletes", "edits"} = {}, NEW f \in Id
      PROVE  ~UserEdits(f)
  BY <1>6 DEF UserEdits
<1>. QED  BY <1>1, <1>2, <1>3, <1>5, <1>6, DeletionKept, ChangeKept, LinkKept DEF ApplyNext

\* A plan that deletes one feature leaves no dependency on one that is not there, other
\* than those that it has itself written for the feature, unless the user edits
\* meanwhile or the plan links a feature that depended on the deleted one.
THEOREM OneDeletionStaysClean == ApplySpec => []OneDeletionClean
<1>1. ApplyInit => OneDeletion
  BY DEF ApplyInit, OneDeletion, LinksClean, OnlyNamed, KnownNamed, Empty, Id
<1>2. OneDeletion => OneDeletionClean
  BY DEF OneDeletion, OneDeletionClean, LinksClean, OnlyNamed
<1>. QED  BY <1>1, <1>2, NextOneDeletion, ApplyTypeCorrect, PTL DEF ApplySpec

-----------------------------------------------------------------------------
(***************************************************************************)
(* Lists of steps.                                                         *)
(***************************************************************************)
\* A strict total order of the positions of I.
Ordering(I, before) ==
  /\ \A i \in I : <<i, i>> \notin before
  /\ \A i, j \in I : i # j => <<i, j>> \in before \/ <<j, i>> \in before
  /\ \A i, j, k \in I : <<i, j>> \in before /\ <<j, k>> \in before => <<i, k>> \in before

Rank(I, before, i) == Cardinality({j \in I : <<j, i>> \in before})

\* The ranks of the members of a finite set are 0 .. n - 1, each once, in order.
LEMMA Ranks ==
  ASSUME NEW I, IsFiniteSet(I), NEW before, Ordering(I, before)
  PROVE  /\ Cardinality(I) \in Nat
         /\ \A i \in I : Rank(I, before, i) \in 0 .. Cardinality(I) - 1
         /\ \A i, j \in I : <<i, j>> \in before => Rank(I, before, i) < Rank(I, before, j)
         /\ \A k \in 0 .. Cardinality(I) - 1 : \E i \in I : Rank(I, before, i) = k
<1>. DEFINE n == Cardinality(I)
            below(i) == {j \in I : <<j, i>> \in before}
            rank == [i \in I |-> Rank(I, before, i)]
<1>1. n \in Nat /\ \A S \in SUBSET I : IsFiniteSet(S) /\ Cardinality(S) \in Nat
  BY FS_CardinalityType, FS_Subset
<1>2. ASSUME NEW i \in I
      PROVE  Rank(I, before, i) \in 0 .. n - 1
  <2>1. below(i) \in SUBSET I /\ i \notin below(i)
    BY DEF Ordering
  <2>2. Cardinality(below(i)) <= n /\ Cardinality(below(i)) # n /\ Cardinality(below(i)) \in Nat
    BY <1>1, <2>1, FS_Subset
  <2>3. Rank(I, before, i) = Cardinality(below(i))
    BY DEF Rank
  <2>. HIDE DEF below, n
  <2>. QED  BY <1>1, <2>2, <2>3
<1>3. ASSUME NEW i \in I, NEW j \in I, <<i, j>> \in before
      PROVE  Rank(I, before, i) < Rank(I, before, j)
  <2>1. below(i) \in SUBSET below(j)
    BY <1>3 DEF Ordering
  <2>2. i \in below(j) /\ i \notin below(i)
    BY <1>3 DEF Ordering
  <2>3. below(j) \in SUBSET I /\ below(i) \in SUBSET I
    OBVIOUS
  <2>4. below(i) # below(j)
    BY <2>2
  <2>. HIDE DEF below
  <2>5. /\ IsFiniteSet(below(j)) /\ Cardinality(below(j)) \in Nat
        /\ Cardinality(below(i)) \in Nat
    BY <1>1, <2>3
  <2>6. Cardinality(below(i)) <= Cardinality(below(j))
    BY <2>1, <2>5, FS_Subset
  <2>7. Cardinality(below(i)) # Cardinality(below(j))
    BY <2>1, <2>4, <2>5, FS_Subset
  <2>8. Cardinality(below(i)) < Cardinality(below(j))
    BY <2>5, <2>6, <2>7
  <2>. QED  BY <2>8 DEF Rank, below
<1>4. ASSUME NEW k \in 0 .. n - 1
      PROVE  \E i \in I : Rank(I, before, i) = k
  <2>1. rank \in [I -> 0 .. n - 1]
    BY <1>2
  <2>2. ASSUME NEW i \in I, NEW j \in I, i # j
        PROVE  rank[i] # rank[j]
    <3>1. Rank(I, before, i) < Rank(I, before, j) \/ Rank(I, before, j) < Rank(I, before, i)
      BY <1>3, <2>2 DEF Ordering
    <3>2. Rank(I, before, i) \in 0 .. n - 1 /\ Rank(I, before, j) \in 0 .. n - 1
      BY <1>2
    <3>. HIDE DEF n
    <3>. QED  BY <1>1, <3>1, <3>2
  <2>3. IsFiniteSet(0 .. n - 1) /\ Cardinality(0 .. n - 1) = n
    <3>. HIDE DEF n
    <3>. QED  BY <1>1, FS_Interval
  <2>4. rank \in Injection(I, 0 .. n - 1)
    <3>. HIDE DEF rank, n
    <3>1. \A i, j \in I : rank[i] = rank[j] => i = j
      BY <2>2
    <3>. QED  BY <2>1, <3>1 DEF Injection, IsInjective
  <2>5. rank \in Surjection(I, 0 .. n - 1)
    <3>. HIDE DEF rank
    <3>. QED  BY <2>3, <2>4, FS_Injection
  <2>6. PICK i \in I : rank[i] = k
    <3>. HIDE DEF rank
    <3>. QED  BY <2>5 DEF Surjection
  <2>. QED  BY <2>6
<1>. HIDE DEF n
<1>. QED  BY <1>1, <1>2, <1>3, <1>4 DEF n

\* A list shows every position of I once, in the order of before.
LEMMA Lists ==
  ASSUME NEW I, IsFiniteSet(I), NEW before, Ordering(I, before)
  PROVE  \E at \in [1 .. Cardinality(I) -> I] :
           /\ \A s : Listed(s, I, before) = [k \in 1 .. Cardinality(I) |-> s[at[k]]]
           /\ \A i \in I : \E k \in 1 .. Cardinality(I) : at[k] = i
<1>. DEFINE n == Cardinality(I)
            place(k) == CHOOSE i \in I : Cardinality({j \in I : <<j, i>> \in before}) = k - 1
            at == [k \in 1 .. n |-> place(k)]
<1>0. n \in Nat
  BY FS_CardinalityType
<1>1. ASSUME NEW k \in 1 .. n
      PROVE  place(k) \in I /\ Rank(I, before, place(k)) = k - 1
  <2>1. k - 1 \in 0 .. n - 1
    <3>. HIDE DEF n
    <3>. QED  BY <1>0
  <2>2. \E i \in I : Rank(I, before, i) = k - 1
    BY <2>1, Ranks
  <2>. QED  BY <2>2 DEF Rank
<1>2. at \in [1 .. n -> I]
  BY <1>1
<1>3. \A s : Listed(s, I, before) = [k \in 1 .. n |-> s[at[k]]]
  BY DEF Listed
<1>4. ASSUME NEW i \in I
      PROVE  \E k \in 1 .. n : at[k] = i
  <2>. DEFINE r == Rank(I, before, i)
  <2>1. r \in 0 .. n - 1
    BY Ranks
  <2>2. r + 1 \in 1 .. n /\ (r + 1) - 1 = r
    <3>. HIDE DEF n, r
    <3>. QED  BY <1>0, <2>1
  <2>3. place(r + 1) \in I /\ Rank(I, before, place(r + 1)) = r
    <3>. HIDE DEF n, r, place
    <3>. QED  BY <1>1, <2>2
  <2>4. place(r + 1) = i
    <3>. HIDE DEF place
    <3>1. place(r + 1) # i => <<i, place(r + 1)>> \in before \/ <<place(r + 1), i>> \in before
      BY <2>3 DEF Ordering
    <3>2. r \in Nat
      <4>. HIDE DEF n, r
      <4>. QED  BY <1>0, <2>1
    <3>. QED  BY <2>3, <3>1, <3>2, Ranks
  <2>. QED  BY <2>2, <2>4
<1>. HIDE DEF n, at
<1>. QED  BY <1>2, <1>3, <1>4 DEF n

LEMMA StepsAt ==
  ASSUME NEW s \in Seq(PipelineStep)
  PROVE  /\ Len(s) \in Nat /\ DOMAIN s = 1 .. Len(s)
         /\ \A i \in DOMAIN s : /\ i \in Nat \ {0} /\ s[i] \in PipelineStep
                              /\ s[i].id \in StepId /\ s[i].order \in Nat
<1>1. Len(s) \in Nat /\ DOMAIN s = 1 .. Len(s) /\ \A i \in DOMAIN s : s[i] \in PipelineStep
  OBVIOUS
<1>2. \A x \in PipelineStep : x.id \in StepId /\ x.order \in Nat
  BY DEF PipelineStep
<1>. QED  BY <1>1, <1>2

LEMMA IsArray ==
  ASSUME NEW S, NEW n \in Nat, NEW f, f = [k \in 1 .. n |-> f[k]], \A k \in 1 .. n : f[k] \in S
  PROVE  f \in Seq(S)
<1>1. f \in [1 .. n -> S]
  OBVIOUS
<1>. QED  BY <1>1

LEMMA SelectedFacts ==
  ASSUME NEW I \in SUBSET Nat, IsFiniteSet(I)
  PROVE  /\ Cardinality(I) \in Nat
         /\ \E at \in [1 .. Cardinality(I) -> I] :
              /\ \A s : Selected(s, I) = [k \in 1 .. Cardinality(I) |-> s[at[k]]]
              /\ \A i \in I : \E k \in 1 .. Cardinality(I) : at[k] = i
<1>. DEFINE before == {p \in I \X I : p[1] < p[2]}
<1>1. \A i, j \in I : i \in Nat /\ j \in Nat /\ (<<i, j>> \in before <=> i < j)
  OBVIOUS
<1>2. Ordering(I, before)
  <2>. HIDE DEF before
  <2>. QED  BY <1>1 DEF Ordering
<1>3. \A s : Selected(s, I) = Listed(s, I, before)
  BY DEF Selected
<1>. HIDE DEF before
<1>. QED  BY <1>2, <1>3, FS_CardinalityType, Lists

LEMMA SortedFacts ==
  ASSUME NEW s \in Seq(PipelineStep)
  PROVE  \E at \in [DOMAIN s -> DOMAIN s] :
           /\ Sorted(s) = [k \in DOMAIN s |-> s[at[k]]]
           /\ \A i \in DOMAIN s : \E k \in DOMAIN s : at[k] = i
<1>. DEFINE I == DOMAIN s
<1>1. I = 1 .. Len(s) /\ Len(s) \in Nat
  OBVIOUS
<1>2. IsFiniteSet(I) /\ Cardinality(I) = Len(s)
  BY <1>1, FS_Interval
<1>3. \A i \in I : s[i].order \in Nat /\ i \in Nat
  BY StepsAt
<1>4. \A i, j \in I : <<i, j>> \in Precedes(s) <=>
        s[i].order < s[j].order \/ (s[i].order = s[j].order /\ i < j)
  BY DEF Precedes
<1>5. Ordering(I, Precedes(s))
  <2>1. \A i \in I : <<i, i>> \notin Precedes(s)
    BY <1>3, <1>4
  <2>2. \A i, j \in I : i # j => <<i, j>> \in Precedes(s) \/ <<j, i>> \in Precedes(s)
    BY <1>3, <1>4
  <2>3. \A i, j, k \in I :
          <<i, j>> \in Precedes(s) /\ <<j, k>> \in Precedes(s) => <<i, k>> \in Precedes(s)
    BY <1>3, <1>4
  <2>. QED  BY <2>1, <2>2, <2>3 DEF Ordering
<1>6. Sorted(s) = Listed(s, I, Precedes(s))
  BY DEF Sorted
<1>7. 1 .. Cardinality(I) = I
  BY <1>1, <1>2
<1>8. PICK at \in [1 .. Cardinality(I) -> I] :
        /\ Listed(s, I, Precedes(s)) = [k \in 1 .. Cardinality(I) |-> s[at[k]]]
        /\ \A i \in I : \E k \in 1 .. Cardinality(I) : at[k] = i
  <2>. HIDE DEF I
  <2>. QED  BY <1>2, <1>5, Lists
<1>9. /\ at \in [I -> I] /\ Sorted(s) = [k \in I |-> s[at[k]]]
      /\ \A i \in I : \E k \in I : at[k] = i
  <2>. HIDE DEF I
  <2>. QED  BY <1>6, <1>7, <1>8
<1>. QED  BY <1>9

\* An array in which each order is the position.
Tidy(s) == \A i \in DOMAIN s : s[i].order = i - 1

\* What becomes of the ids when an array is sorted, numbered or filtered.
LEMMA SortedIds ==
  ASSUME NEW s \in Seq(PipelineStep)
  PROVE  Sorted(s) \in Seq(PipelineStep) /\ Ids(Sorted(s)) = Ids(s)
<1>1. PICK at \in [DOMAIN s -> DOMAIN s] :
        /\ Sorted(s) = [k \in DOMAIN s |-> s[at[k]]]
        /\ \A i \in DOMAIN s : \E k \in DOMAIN s : at[k] = i
  BY SortedFacts
<1>3. DOMAIN Sorted(s) = DOMAIN s /\ \A k \in DOMAIN s : Sorted(s)[k] = s[at[k]]
  BY <1>1
<1>2. Sorted(s) \in Seq(PipelineStep)
  <2>1. \A k \in 1 .. Len(s) : Sorted(s)[k] \in PipelineStep
    BY <1>1, <1>3, StepsAt
  <2>2. Sorted(s) = [k \in 1 .. Len(s) |-> Sorted(s)[k]]
    BY <1>1, <1>3, StepsAt
  <2>. QED  BY <2>1, <2>2, StepsAt, IsArray
<1>4. Ids(Sorted(s)) \subseteq Ids(s)
  BY <1>3 DEF Ids
<1>5. ASSUME NEW i \in DOMAIN s
      PROVE  s[i].id \in Ids(Sorted(s))
  <2>1. PICK k \in DOMAIN s : at[k] = i
    BY <1>1
  <2>. QED  BY <1>3, <2>1 DEF Ids
<1>. QED  BY <1>2, <1>4, <1>5 DEF Ids

LEMMA NumberedIds ==
  ASSUME NEW s \in Seq(PipelineStep)
  PROVE  /\ Numbered(s) \in Seq(PipelineStep) /\ DOMAIN Numbered(s) = DOMAIN s
         /\ \A i \in DOMAIN s : Numbered(s)[i].id = s[i].id
         /\ Ids(Numbered(s)) = Ids(s) /\ Tidy(Numbered(s))
<1>1. DOMAIN s = 1 .. Len(s) /\ Len(s) \in Nat /\ DOMAIN Numbered(s) = DOMAIN s
  BY DEF Numbered
<1>2. ASSUME NEW i \in DOMAIN s
      PROVE  /\ Numbered(s)[i] \in PipelineStep
             /\ Numbered(s)[i].id = s[i].id /\ Numbered(s)[i].order = i - 1
  <2>1. Numbered(s)[i] = [s[i] EXCEPT !.order = i - 1]
    BY DEF Numbered
  <2>2. s[i] \in PipelineStep /\ i - 1 \in Nat
    BY StepsAt
  <2>. QED  BY <2>1, <2>2 DEF PipelineStep
<1>3. Numbered(s) \in Seq(PipelineStep)
  <2>1. Numbered(s) = [i \in 1 .. Len(s) |-> Numbered(s)[i]]
    BY <1>1 DEF Numbered
  <2>. QED  BY <1>1, <1>2, <2>1, IsArray
<1>. QED  BY <1>1, <1>2, <1>3 DEF Ids, Tidy

LEMMA OthersIds ==
  ASSUME NEW s \in Seq(PipelineStep), NEW id
  PROVE  Others(s, id) \in Seq(PipelineStep) /\ Ids(Others(s, id)) = Ids(s) \ {id}
<1>. DEFINE I == {i \in DOMAIN s : s[i].id # id}
<1>1. I \in SUBSET Nat /\ I \in SUBSET DOMAIN s /\ IsFiniteSet(I)
  <2>1. DOMAIN s = 1 .. Len(s) /\ Len(s) \in Nat
    OBVIOUS
  <2>2. IsFiniteSet(1 .. Len(s)) /\ I \in SUBSET (1 .. Len(s))
    BY <2>1, FS_Interval
  <2>. QED  BY <2>2, FS_Subset
<1>2. Cardinality(I) \in Nat
  BY <1>1, FS_CardinalityType
<1>3. PICK at \in [1 .. Cardinality(I) -> I] :
        /\ Others(s, id) = [k \in 1 .. Cardinality(I) |-> s[at[k]]]
        /\ \A i \in I : \E k \in 1 .. Cardinality(I) : at[k] = i
  <2>1. Others(s, id) = Selected(s, I)
    BY DEF Others
  <2>. HIDE DEF I
  <2>. QED  BY <1>1, <2>1, SelectedFacts
<1>4. \A k \in 1 .. Cardinality(I) : at[k] \in DOMAIN s /\ s[at[k]].id # id
  BY <1>1, <1>3
<1>5. \A i \in DOMAIN s : s[i].id # id => \E k \in 1 .. Cardinality(I) : at[k] = i
  BY <1>3
<1>. HIDE DEF I
<1>. DEFINE n == Cardinality(I)
            t == [k \in 1 .. n |-> s[at[k]]]
<1>6. t \in Seq(PipelineStep) /\ DOMAIN t = 1 .. n
  BY <1>2, <1>4
<1>7. Ids(t) = Ids(s) \ {id}
  BY <1>4, <1>5, <1>6 DEF Ids
<1>. QED  BY <1>3, <1>6, <1>7

LEMMA AppendIds ==
  ASSUME NEW s \in Seq(PipelineStep), NEW step \in PipelineStep
  PROVE  /\ Append(s, step) \in Seq(PipelineStep)
         /\ Ids(Append(s, step)) = Ids(s) \cup {step.id}
         /\ Tidy(s) /\ step.order = Len(s) => Tidy(Append(s, step))
<1>1. /\ DOMAIN s = 1 .. Len(s) /\ Len(s) \in Nat
      /\ Append(s, step) \in Seq(PipelineStep)
      /\ DOMAIN Append(s, step) = 1 .. Len(s) + 1
      /\ \A i \in 1 .. Len(s) : Append(s, step)[i] = s[i]
      /\ Append(s, step)[Len(s) + 1] = step
  OBVIOUS
<1>2. Ids(Append(s, step)) = Ids(s) \cup {step.id}
  <2>1. \A i \in 1 .. Len(s) + 1 : i \in 1 .. Len(s) \/ i = Len(s) + 1
    BY <1>1
  <2>. QED  BY <1>1, <2>1 DEF Ids
<1>3. Tidy(s) /\ step.order = Len(s) => Tidy(Append(s, step))
  BY <1>1 DEF Tidy
<1>. QED  BY <1>1, <1>2, <1>3

\* Sorting a tidy array changes nothing.
LEMMA TidySorted ==
  ASSUME NEW s \in Seq(PipelineStep), Tidy(s)
  PROVE  Sorted(s) = s
<1>. DEFINE n == Len(s)
            before(i) == {j \in 1 .. n : <<j, i>> \in Precedes(s)}
<1>1. n \in Nat /\ DOMAIN s = 1 .. n
  OBVIOUS
<1>2. ASSUME NEW i \in 1 .. n
      PROVE  Cardinality(before(i)) = i - 1
  <2>1. \A j \in 1 .. n : <<j, i>> \in Precedes(s) <=> j < i
    BY <1>1 DEF Precedes, Tidy
  <2>2. before(i) = 1 .. i - 1
    BY <1>1, <2>1
  <2>3. Cardinality(1 .. i - 1) = IF 1 > i - 1 THEN 0 ELSE (i - 1) - 1 + 1
    <3>1. 1 \in Int /\ i - 1 \in Int
      BY <1>1
    <3>. QED  BY <3>1, FS_Interval, Zenon
  <2>. HIDE DEF before
  <2>4. i \in Nat /\ i >= 1
    BY <1>1
  <2>. QED  BY <2>2, <2>3, <2>4
<1>3. Cardinality(1 .. n) = n
  BY <1>1, FS_Interval
<1>4. ASSUME NEW k \in 1 .. n
      PROVE  (CHOOSE i \in 1 .. n : Cardinality(before(i)) = k - 1) = k
  <2>1. \A i \in 1 .. n : Cardinality(before(i)) = k - 1 <=> i = k
    <3>. HIDE DEF before
    <3>. QED  BY <1>1, <1>2
  <2>. HIDE DEF before
  <2>. QED  BY <2>1
<1>5. Sorted(s) = [k \in 1 .. n |->
                     s[CHOOSE i \in 1 .. n : Cardinality(before(i)) = k - 1]]
  BY <1>1, <1>3 DEF Sorted, Listed
<1>6. Sorted(s) = [k \in 1 .. n |-> s[k]]
  <2>. HIDE DEF before
  <2>. QED  BY <1>4, <1>5
<1>. QED  BY <1>1, <1>6

\* The deletion of a step from a tidy array leaves the order of the others.
LEMMA WithoutKeepsOrder ==
  ASSUME NEW s \in Seq(PipelineStep), Tidy(s), NEW id
  PROVE  LET t == Without(s, id) IN
         RunOrder(t) = Selected(RunOrder(s), {i \in DOMAIN RunOrder(s) : RunOrder(s)[i] \in Ids(t)})
<1>. DEFINE t == Without(s, id)
            I == {i \in DOMAIN s : s[i].id # id}
            n == Cardinality(I)
<1>1. Others(s, id) \in Seq(PipelineStep) /\ Ids(Others(s, id)) = Ids(s) \ {id}
  BY OthersIds
<1>2. /\ t \in Seq(PipelineStep) /\ DOMAIN t = DOMAIN Others(s, id) /\ Tidy(t)
      /\ \A i \in DOMAIN t : t[i].id = Others(s, id)[i].id
      /\ Ids(t) = Ids(s) \ {id}
  BY <1>1, NumberedIds DEF Without
<1>3. RunOrder(s) = [k \in DOMAIN s |-> s[k].id] /\ RunOrder(t) = [k \in DOMAIN t |-> t[k].id]
  <2>1. Sorted(s) = s /\ Sorted(t) = t
    <3>. HIDE DEF t
    <3>. QED  BY <1>2, TidySorted
  <2>. HIDE DEF t
  <2>. QED  BY <2>1 DEF RunOrder
<1>4. {i \in DOMAIN RunOrder(s) : RunOrder(s)[i] \in Ids(t)} = I
  <2>1. DOMAIN RunOrder(s) = DOMAIN s /\ \A i \in DOMAIN s : RunOrder(s)[i] = s[i].id
    BY <1>3
  <2>2. \A i \in DOMAIN s : s[i].id \in Ids(s)
    BY DEF Ids
  <2>. HIDE DEF t
  <2>. QED  BY <1>2, <2>1, <2>2
<1>5. I \in SUBSET Nat /\ I \in SUBSET DOMAIN s /\ IsFiniteSet(I)
  <2>1. DOMAIN s = 1 .. Len(s) /\ Len(s) \in Nat
    OBVIOUS
  <2>2. IsFiniteSet(1 .. Len(s)) /\ I \in SUBSET (1 .. Len(s))
    BY <2>1, FS_Interval
  <2>. QED  BY <2>2, FS_Subset
<1>6. PICK at \in [1 .. n -> I] : \A r : Selected(r, I) = [k \in 1 .. n |-> r[at[k]]]
  <2>. HIDE DEF I
  <2>. QED  BY <1>5, SelectedFacts
<1>7. Others(s, id) = [k \in 1 .. n |-> s[at[k]]]
  <2>1. Others(s, id) = Selected(s, I)
    BY DEF Others
  <2>. HIDE DEF I
  <2>. QED  BY <1>6, <2>1
<1>. HIDE DEF t, I, n
<1>8. DOMAIN t = 1 .. n /\ \A k \in 1 .. n : t[k].id = s[at[k]].id
  BY <1>2, <1>7
<1>9. RunOrder(t) = [k \in 1 .. n |-> s[at[k]].id]
  BY <1>3, <1>8
<1>10. Selected(RunOrder(s), I) = [k \in 1 .. n |-> RunOrder(s)[at[k]]]
  BY <1>6
<1>11. \A k \in 1 .. n : RunOrder(s)[at[k]] = s[at[k]].id
  BY <1>3, <1>5, <1>6
<1>12. RunOrder(t) = Selected(RunOrder(s), I)
  BY <1>9, <1>10, <1>11
<1>. QED  BY <1>4, <1>12 DEF t

LEMMA InOrderIds ==
  ASSUME NEW S \in SUBSET StepId, NEW s \in Orders(S), Cardinality(S) \in Nat
  PROVE  InOrder(s) \in Seq(PipelineStep) /\ Ids(InOrder(s)) = S /\ Tidy(InOrder(s))
<1>1. s \in [1 .. Cardinality(S) -> S] /\ {s[i] : i \in 1 .. Cardinality(S)} = S
  BY DEF Orders
<1>2. InOrder(s) = [i \in 1 .. Cardinality(S) |-> [id |-> s[i], order |-> i - 1]]
  BY <1>1 DEF InOrder
<1>3. \A i \in 1 .. Cardinality(S) : [id |-> s[i], order |-> i - 1] \in PipelineStep
  BY <1>1 DEF PipelineStep
<1>4. InOrder(s) \in Seq(PipelineStep)
  BY <1>2, <1>3
<1>. QED  BY <1>1, <1>2, <1>4 DEF Ids, Tidy

LEMMA FiniteIds ==
  ASSUME NEW s \in Seq(PipelineStep)
  PROVE  Ids(s) \in SUBSET StepId /\ IsFiniteSet(Ids(s))
<1>1. DOMAIN s = 1 .. Len(s) /\ Len(s) \in Nat
  OBVIOUS
<1>2. IsFiniteSet(DOMAIN s)
  BY <1>1, FS_Interval
<1>. DEFINE f == [i \in DOMAIN s |-> s[i].id]
<1>3. f \in Surjection(DOMAIN s, Ids(s))
  BY DEF Surjection, Ids
<1>4. IsFiniteSet(Ids(s))
  <2>. HIDE DEF f
  <2>. QED  BY <1>2, <1>3, FS_Surjection
<1>5. Ids(s) \in SUBSET StepId
  BY StepsAt DEF Ids
<1>. QED  BY <1>4, <1>5

\* The array of a file at first is one of the old steps.
LEMMA FirstFile ==
  LET s == CHOOSE s \in Orders(OldStep) : TRUE IN
  InOrder(s) \in Seq(PipelineStep) /\ Ids(InOrder(s)) = OldStep /\ Tidy(InOrder(s))
<1>1. Cardinality(OldStep) \in Nat
  BY OldStepAssumption, FS_CardinalityType
<1>2. PICK f : f \in Bijection(1 .. Cardinality(OldStep), OldStep)
  <2>1. PICK n \in Nat : ExistsBijection(1 .. n, OldStep)
    BY OldStepAssumption, FS_NatBijection
  <2>2. Cardinality(OldStep) = n
    BY <2>1, FS_CountingElements
  <2>. QED  BY <2>1, <2>2 DEF ExistsBijection
<1>3. f \in Orders(OldStep)
  BY <1>2 DEF Orders, Bijection, Injection, Surjection
<1>4. OldStep \in SUBSET StepId
  BY DEF StepId
<1>5. (CHOOSE s \in Orders(OldStep) : TRUE) \in Orders(OldStep)
  BY <1>3
<1>. QED  BY <1>1, <1>4, <1>5, InOrderIds

-----------------------------------------------------------------------------
(***************************************************************************)
(* The invariant.                                                          *)
(***************************************************************************)
\* Edits come one at a time, and files can be read.
Calm == custom \cap {"overlap", "unreadable"} = {}

Resting(e) == edit[e].pc \in {"new", "over"}

\* Of an edit x that works on the array s, in a project that keeps the steps K: it
\* shares the default only between its read and its answer, the array is tidy when
\* nobody sets orders, and in calm it has every step that its write must leave.
Fits(x, s, K) ==
  /\ x \in EditState
  /\ s \in Seq(PipelineStep)
  /\ x.pc \in {"new", "dialog", "writing", "over"} => ~x.shared
  /\ x.pc \in {"new", "read"} => x.adds = {} /\ x.drops = {}
  /\ "orders" \notin custom => Tidy(s)
  /\ Calm /\ x.pc \notin {"new", "over"} => (K \cup x.adds) \ x.drops \subseteq Ids(s)

\* A file has the steps that are kept, and so does no file.
FileFits(p) ==
  /\ pipelines[p] \in Seq(PipelineStep) \cup {NoFile}
  /\ kept[p] \in SUBSET StepId
  /\ pipelines[p] # NoFile /\ "orders" \notin custom => Tidy(pipelines[p])
  /\ Calm => kept[p] \subseteq (IF pipelines[p] = NoFile THEN {} ELSE Ids(pipelines[p]))

FilesFit ==
  /\ pipelines = [p \in Project |-> pipelines[p]] /\ kept = [p \in Project |-> kept[p]]
  /\ \A p \in Project : FileFits(p)
  /\ defaultSteps \in Seq(PipelineStep)
  /\ "orders" \notin custom => Tidy(defaultSteps)

EditFits(e) == Fits(edit[e], StepsOf(e), kept[edit[e].project])

EditsFit ==
  /\ edit = [e \in Edit |-> edit[e]]
  /\ \A e \in Edit : EditFits(e)
  /\ "overlap" \notin custom => \A e, f \in Edit : e = f \/ Resting(e) \/ Resting(f)

PInv == custom \in Customs /\ FilesFit /\ EditsFit

LEMMA PInvType == PInv => PipelineTypeOK
  BY DEF PInv, FilesFit, FileFits, EditsFit, EditFits, Fits, PipelineTypeOK

\* A step of one edit needs to be looked at only for that edit and the files.
LEMMA Frame ==
  ASSUME PInv, NEW e \in Edit, custom' = custom, edit' = [edit EXCEPT ![e] = edit'[e]],
         EditFits(e)', FilesFit',
         "overlap" \notin custom => \A f \in Edit \ {e} : Resting(f)
  PROVE  PInv'
<1>1. edit' = [f \in Edit |-> edit'[f]] /\ \A f \in Edit \ {e} : edit'[f] = edit[f]
  BY DEF PInv, EditsFit
<1>2. ASSUME NEW f \in Edit \ {e}
      PROVE  EditFits(f)'
  <2>1. EditFits(f) /\ edit'[f] = edit[f] /\ Calm' = Calm
    BY <1>1 DEF PInv, EditsFit, Calm
  <2>2. StepsOf(f)' \in Seq(PipelineStep)
    BY <2>1 DEF StepsOf, FilesFit, EditFits, Fits
  <2>3. "orders" \notin custom => Tidy(StepsOf(f)')
    BY <2>1 DEF StepsOf, FilesFit, EditFits, Fits
  <2>4. Calm => edit'[f].pc \in {"new", "over"}
    BY <1>1 DEF Calm, Resting
  <2>. QED  BY <2>1, <2>2, <2>3, <2>4 DEF EditFits, Fits
<1>3. ("overlap" \notin custom => \A g, f \in Edit : g = f \/ Resting(g) \/ Resting(f))'
  BY <1>1 DEF Resting
<1>4. EditsFit'
  BY <1>1, <1>2, <1>3 DEF EditsFit
<1>. QED  BY <1>4 DEF PInv

LEMMA PInvFirst == PipelineInit => PInv
<1>. SUFFICES ASSUME PipelineInit
              PROVE  PInv
  OBVIOUS
<1>. DEFINE first == InOrder(CHOOSE s \in Orders(OldStep) : TRUE)
<1>1. first \in Seq(PipelineStep) /\ Ids(first) = OldStep /\ Tidy(first)
  BY FirstFile
<1>2. pipelines \in [Project -> {NoFile, first}]
  BY DEF PipelineInit
<1>3. kept = [p \in Project |-> IF pipelines[p] = NoFile THEN {} ELSE OldStep]
  BY DEF PipelineInit
<1>. HIDE DEF first
<1>4. \A p \in Project : FileFits(p)
  <2>. TAKE p \in Project
  <2>1. pipelines[p] = NoFile \/ pipelines[p] = first
    BY <1>2
  <2>2. kept[p] = IF pipelines[p] = NoFile THEN {} ELSE OldStep
    BY <1>3
  <2>3. OldStep \subseteq StepId
    BY DEF StepId
  <2>. QED  BY <1>1, <2>1, <2>2, <2>3 DEF FileFits
<1>5. <<>> \in Seq(PipelineStep) /\ Tidy(<<>>)
  BY DEF Tidy
<1>6. FilesFit
  BY <1>2, <1>3, <1>4, <1>5 DEF FilesFit, PipelineInit
<1>7. PICK p \in [Edit -> Project] : edit = [e \in Edit |-> IdleEdit(p[e])]
  BY DEF PipelineInit
<1>8. ASSUME NEW e \in Edit
      PROVE  EditFits(e) /\ Resting(e)
  <2>1. edit[e] = IdleEdit(p[e]) /\ p[e] \in Project
    BY <1>7
  <2>2. IdleEdit(p[e]) \in EditState
    BY <1>5, <2>1 DEF IdleEdit, EditState
  <2>. QED  BY <1>5, <2>1, <2>2 DEF EditFits, Fits, StepsOf, IdleEdit, Resting
<1>9. EditsFit
  BY <1>7, <1>8 DEF EditsFit
<1>. QED  BY <1>6, <1>9 DEF PInv, PipelineInit

\* What an edit looks like before its step.
LEMMA Standing ==
  ASSUME PInv, NEW e \in Edit
  PROVE  /\ edit = [f \in Edit |-> edit[f]] /\ edit[e] \in EditState
         /\ edit[e].project \in Project /\ FileFits(edit[e].project)
         /\ edit[e].steps \in Seq(PipelineStep) /\ edit[e].adds \in SUBSET StepId
         /\ edit[e].drops \in SUBSET StepId /\ EditFits(e)
         /\ StepsOf(e) \in Seq(PipelineStep) /\ FilesFit /\ e \in StepId
         /\ ~Resting(e) /\ "overlap" \notin custom => \A f \in Edit \ {e} : Resting(f)
<1>1. EditsFit /\ FilesFit /\ EditFits(e)
  BY DEF PInv, EditsFit
<1>2. edit[e] \in EditState /\ StepsOf(e) \in Seq(PipelineStep)
  BY <1>1 DEF EditFits, Fits
<1>. QED  BY <1>1, <1>2 DEF EditState, EditsFit, FilesFit, StepId

LEMMA ReadConfigFits ==
  ASSUME PInv, NEW e \in Edit, ReadConfig(e)
  PROVE  PInv'
<1>. DEFINE p == edit[e].project
<1>1. EditFits(e) /\ FileFits(p) /\ edit[e] \in EditState /\ edit[e].pc = "new" /\ ~edit[e].shared
  BY Standing DEF ReadConfig, EditFits, Fits
<1>2. custom' = custom /\ FilesFit' /\ Calm' = Calm /\ kept'[p] = kept[p] /\ defaultSteps' = defaultSteps
  BY Standing DEF ReadConfig, FilesFit, FileFits, Calm
<1>3. "overlap" \notin custom => \A f \in Edit \ {e} : Resting(f)
  BY DEF ReadConfig, Resting
<1>4. edit[e].adds = {} /\ edit[e].drops = {}
  BY <1>1 DEF EditFits, Fits
<1>5. CASE /\ pipelines[p] = NoFile \/ "unreadable" \in custom
           /\ edit' = [edit EXCEPT ![e].pc = "read", ![e].shared = TRUE]
  <2>1. edit' = [edit EXCEPT ![e] = edit'[e]]
        /\ edit'[e] = [edit[e] EXCEPT !.pc = "read", !.shared = TRUE]
    BY <1>5, Standing
  <2>2. edit'[e] \in EditState /\ edit'[e].shared /\ edit'[e].pc = "read" /\ edit'[e].project = p
        /\ edit'[e].adds = {} /\ edit'[e].drops = {}
    BY <1>1, <1>4, <2>1 DEF EditState
  <2>3. Calm => kept[p] = {}
    BY <1>1, <1>5 DEF FileFits, Calm
  <2>4. StepsOf(e)' = defaultSteps
    BY <1>2, <2>2 DEF StepsOf
  <2>5. EditFits(e)'
    BY <1>2, <2>2, <2>3, <2>4, Standing DEF EditFits, Fits, FilesFit
  <2>. QED  BY <1>2, <1>3, <2>1, <2>5, Frame
<1>6. CASE /\ pipelines[p] # NoFile
           /\ edit' = [edit EXCEPT ![e].pc = "read", ![e].steps = pipelines[p]]
  <2>1. edit' = [edit EXCEPT ![e] = edit'[e]]
        /\ edit'[e] = [edit[e] EXCEPT !.pc = "read", !.steps = pipelines[p]]
    BY <1>6, Standing
  <2>0. pipelines[p] \in Seq(PipelineStep)
    BY <1>1, <1>6 DEF FileFits
  <2>2. edit'[e] \in EditState /\ ~edit'[e].shared /\ edit'[e].pc = "read" /\ edit'[e].project = p
        /\ edit'[e].adds = {} /\ edit'[e].drops = {} /\ edit'[e].steps = pipelines[p]
    BY <1>1, <1>4, <2>0, <2>1 DEF EditState
  <2>4. StepsOf(e)' = pipelines[p]
    BY <2>2 DEF StepsOf
  <2>5. EditFits(e)'
    BY <1>1, <1>2, <1>6, <2>0, <2>2, <2>4 DEF EditFits, Fits, FileFits
  <2>. QED  BY <1>2, <1>3, <2>1, <2>5, Frame
<1>. QED  BY <1>5, <1>6 DEF ReadConfig

\* A step that changes nothing but its edit.
LEMMA EditFrame ==
  ASSUME PInv, NEW e \in Edit, ~Resting(e), NEW x, edit' = [edit EXCEPT ![e] = x],
         x.project = edit[e].project, UNCHANGED <<custom, pipelines, defaultSteps, kept>>,
         Fits(x, IF x.shared THEN defaultSteps ELSE x.steps, kept[edit[e].project])
  PROVE  PInv'
<1>1. edit'[e] = x /\ edit' = [edit EXCEPT ![e] = edit'[e]]
  BY Standing
<1>2. FilesFit' /\ Calm' = Calm
  BY Standing DEF FilesFit, FileFits, Calm
<1>3. EditFits(e)'
  BY <1>1, <1>2 DEF EditFits, Fits, StepsOf
<1>. QED  BY <1>1, <1>2, <1>3, Standing, Frame

\* A request that changes the array it has.
LEMMA ChangeFits ==
  ASSUME PInv, NEW e \in Edit, edit[e].pc = "read", NEW s \in Seq(PipelineStep),
         NEW adds \in SUBSET StepId, NEW drops \in SUBSET StepId, Change(e, s, adds, drops),
         "orders" \notin custom => Tidy(s),
         Calm => (kept[edit[e].project] \cup adds) \ drops \subseteq Ids(s)
  PROVE  PInv'
<1>. DEFINE x == [edit[e] EXCEPT !.pc = "changed", !.adds = adds, !.drops = drops,
                                 !.steps = IF edit[e].shared THEN <<>> ELSE s]
<1>1. edit' = [edit EXCEPT ![e] = x] /\ edit'[e] = x /\ ~Resting(e)
  BY Standing DEF Change, Resting
<1>2. <<>> \in Seq(PipelineStep)
  OBVIOUS
<1>3. x \in EditState /\ x.project = edit[e].project /\ x.shared = edit[e].shared
      /\ x.pc = "changed" /\ x.adds = adds /\ x.drops = drops
      /\ (~x.shared => x.steps = s)
  BY <1>2, Standing DEF EditState
<1>. HIDE DEF x
<1>4. UNCHANGED <<custom, pipelines, kept>> /\ Calm' = Calm
      /\ defaultSteps' = IF x.shared THEN s ELSE defaultSteps
  BY <1>3 DEF Change, Calm
<1>5. FilesFit'
  BY <1>4, Standing DEF FilesFit, FileFits
<1>6. StepsOf(e)' = s
  BY <1>1, <1>3, <1>4 DEF StepsOf
<1>7. EditFits(e)'
  BY <1>1, <1>3, <1>4, <1>6 DEF EditFits, Fits
<1>. QED  BY <1>1, <1>4, <1>5, <1>7, Standing, Frame

\* What a request finds when it has read the configuration.
LEMMA AtRead ==
  ASSUME PInv, NEW e \in Edit, edit[e].pc = "read"
  PROVE  /\ ~Resting(e) /\ StepsOf(e) \in Seq(PipelineStep)
         /\ "orders" \notin custom => Tidy(StepsOf(e))
         /\ Calm => kept[edit[e].project] \subseteq Ids(StepsOf(e))
  BY Standing DEF EditFits, Fits, Resting

LEMMA AddStepFits ==
  ASSUME PInv, NEW e \in Edit, AddStep(e)
  PROVE  PInv'
<1>1. edit[e].pc = "read"
  BY DEF AddStep
<1>2. PICK o \in 0 .. MaxOrder :
        Change(e, Added(StepsOf(e), [id |-> e, order |-> o]), {e}, {})
  BY DEF AddStep
<1>. DEFINE step == [id |-> e, order |-> o]
<1>3. step \in PipelineStep /\ step.id = e /\ e \in StepId
  BY <1>2, MaxOrderAssumption, Standing DEF PipelineStep
<1>. HIDE DEF step
<1>4. /\ Append(StepsOf(e), step) \in Seq(PipelineStep)
      /\ Ids(Append(StepsOf(e), step)) = Ids(StepsOf(e)) \cup {e}
  BY <1>1, <1>3, AtRead, AppendIds
<1>. DEFINE s == Added(StepsOf(e), step)
<1>5. s \in Seq(PipelineStep) /\ Tidy(s) /\ Ids(s) = Ids(StepsOf(e)) \cup {e}
  BY <1>4, SortedIds, NumberedIds DEF Added
<1>6. Change(e, s, {e}, {})
  BY <1>2 DEF step
<1>. HIDE DEF s
<1>7. Calm => (kept[edit[e].project] \cup {e}) \ {} \subseteq Ids(s)
  BY <1>1, <1>5, AtRead
<1>8. {e} \in SUBSET StepId /\ {} \in SUBSET StepId
  BY <1>3
<1>. QED  BY <1>1, <1>5, <1>6, <1>7, <1>8, ChangeFits

LEMMA DeleteStepFits ==
  ASSUME PInv, NEW e \in Edit, DeleteStep(e)
  PROVE  PInv'
<1>1. edit[e].pc = "read"
  BY DEF DeleteStep
<1>2. PICK id \in Ids(StepsOf(e)) : Change(e, Without(StepsOf(e), id), {}, {id})
  BY DEF DeleteStep
<1>. DEFINE s == Without(StepsOf(e), id)
<1>3. s \in Seq(PipelineStep) /\ Tidy(s) /\ Ids(s) = Ids(StepsOf(e)) \ {id}
  BY <1>1, AtRead, OthersIds, NumberedIds DEF Without
<1>4. {id} \in SUBSET StepId /\ {} \in SUBSET StepId
  BY <1>1, <1>2, AtRead, FiniteIds
<1>5. Change(e, s, {}, {id})
  BY <1>2
<1>. HIDE DEF s
<1>6. Calm => (kept[edit[e].project] \cup {}) \ {id} \subseteq Ids(s)
  BY <1>1, <1>3, AtRead
<1>. QED  BY <1>1, <1>3, <1>4, <1>5, <1>6, ChangeFits

LEMMA UpdateStepFits ==
  ASSUME PInv, NEW e \in Edit, UpdateStep(e)
  PROVE  PInv'
<1>1. edit[e].pc = "read" /\ "orders" \in custom
  BY DEF UpdateStep
<1>2. PICK i \in DOMAIN StepsOf(e), o \in 0 .. MaxOrder :
        Change(e, [StepsOf(e) EXCEPT ![i].order = o], {}, {})
  BY DEF UpdateStep
<1>. DEFINE r == StepsOf(e)
            s == [r EXCEPT ![i].order = o]
<1>3. r \in Seq(PipelineStep) /\ i \in DOMAIN r /\ o \in Nat
  BY <1>1, <1>2, AtRead, MaxOrderAssumption
<1>. HIDE DEF r
<1>4. r[i] \in PipelineStep /\ [r[i] EXCEPT !.order = o] \in PipelineStep
      /\ [r[i] EXCEPT !.order = o].id = r[i].id
  BY <1>3, StepsAt DEF PipelineStep
<1>5. DOMAIN s = DOMAIN r /\ \A j \in DOMAIN r : s[j] \in PipelineStep /\ s[j].id = r[j].id
  BY <1>3, <1>4, StepsAt
<1>6. s \in Seq(PipelineStep)
  BY <1>3, <1>4
<1>7. Ids(s) = Ids(r)
  BY <1>5 DEF Ids
<1>8. Change(e, s, {}, {})
  BY <1>2 DEF r
<1>. HIDE DEF s
<1>9. Calm => (kept[edit[e].project] \cup {}) \ {} \subseteq Ids(s)
  BY <1>1, <1>7, AtRead DEF r
<1>10. {} \in SUBSET StepId
  OBVIOUS
<1>. QED  BY <1>1, <1>6, <1>8, <1>9, <1>10, ChangeFits

LEMMA ReorderStepsFits ==
  ASSUME PInv, NEW e \in Edit, ReorderSteps(e)
  PROVE  PInv'
<1>1. edit[e].pc = "read"
  BY DEF ReorderSteps
<1>2. PICK S \in SUBSET Ids(StepsOf(e)) :
        \E s \in Orders(S) :
          edit' = [edit EXCEPT ![e].pc = "changed", ![e].shared = FALSE,
                               ![e].steps = InOrder(s), ![e].drops = Ids(StepsOf(e)) \ S]
  BY DEF ReorderSteps
<1>0. PICK s \in Orders(S) :
        edit' = [edit EXCEPT ![e].pc = "changed", ![e].shared = FALSE,
                             ![e].steps = InOrder(s), ![e].drops = Ids(StepsOf(e)) \ S]
  BY <1>2
<1>3. Ids(StepsOf(e)) \in SUBSET StepId /\ IsFiniteSet(Ids(StepsOf(e)))
  BY <1>1, AtRead, FiniteIds
<1>4. S \in SUBSET StepId /\ Cardinality(S) \in Nat
  BY <1>3, FS_Subset, FS_CardinalityType
<1>5. InOrder(s) \in Seq(PipelineStep) /\ Ids(InOrder(s)) = S /\ Tidy(InOrder(s))
  BY <1>4, InOrderIds
<1>. DEFINE x == [edit[e] EXCEPT !.pc = "changed", !.shared = FALSE,
                                 !.steps = InOrder(s), !.drops = Ids(StepsOf(e)) \ S]
<1>6. edit' = [edit EXCEPT ![e] = x]
  BY <1>0, Standing
<1>7. edit[e].adds = {}
  BY <1>1, Standing DEF EditFits, Fits
<1>8. x \in EditState /\ x.project = edit[e].project /\ ~x.shared /\ x.steps = InOrder(s)
      /\ x.pc = "changed" /\ x.adds = {} /\ x.drops = Ids(StepsOf(e)) \ S
  BY <1>3, <1>5, <1>7, Standing DEF EditState
<1>. HIDE DEF x
<1>9. Fits(x, InOrder(s), kept[edit[e].project])
  <2>1. Calm => (kept[edit[e].project] \cup {}) \ (Ids(StepsOf(e)) \ S) \subseteq S
    BY <1>1, AtRead
  <2>. QED  BY <1>5, <1>8, <2>1 DEF Fits
<1>. QED  BY <1>1, <1>6, <1>8, <1>9, AtRead, EditFrame DEF ReorderSteps

\* An edit that is done with has nothing to keep to.
LEMMA OverFits ==
  ASSUME PInv, NEW e \in Edit, NEW s \in Seq(PipelineStep), NEW K,
         "orders" \notin custom => Tidy(s)
  PROVE  /\ Fits(Over(e), s, K) /\ Over(e).pc = "over" /\ ~Over(e).shared
         /\ Over(e).project = edit[e].project /\ Over(e).steps = <<>>
<1>1. Over(e) \in EditState /\ Over(e).pc = "over" /\ ~Over(e).shared
      /\ Over(e).project = edit[e].project /\ Over(e).steps = <<>>
  <2>. DEFINE x == IdleEdit(edit[e].project)
  <2>1. x \in EditState /\ x.project = edit[e].project /\ ~x.shared /\ x.steps = <<>>
    <3>1. <<>> \in Seq(PipelineStep) /\ edit[e].project \in Project
      BY Standing
    <3>. QED  BY <3>1 DEF IdleEdit, EditState
  <2>2. Over(e) = [x EXCEPT !.pc = "over"]
    BY DEF Over
  <2>. HIDE DEF x
  <2>. QED  BY <2>1, <2>2 DEF EditState
<1>. QED  BY <1>1 DEF Fits

LEMMA EmptyFits == <<>> \in Seq(PipelineStep) /\ Tidy(<<>>)
  BY DEF Tidy

LEMMA GiveUpFits ==
  ASSUME PInv, NEW e \in Edit, ~Resting(e), edit' = [edit EXCEPT ![e] = Over(e)],
         UNCHANGED <<custom, pipelines, defaultSteps, kept>>
  PROVE  PInv'
<1>1. Fits(Over(e), <<>>, kept[edit[e].project]) /\ ~Over(e).shared
      /\ Over(e).steps = <<>> /\ Over(e).project = edit[e].project
  BY OverFits, EmptyFits
<1>. QED  BY <1>1, EditFrame

\* What the dialog and a write have in their hands.
LEMMA AtWork ==
  ASSUME PInv, NEW e \in Edit, edit[e].pc \in {"dialog", "writing"}
  PROVE  /\ ~Resting(e) /\ ~edit[e].shared /\ StepsOf(e) = edit[e].steps
         /\ edit[e].steps \in Seq(PipelineStep)
         /\ "orders" \notin custom => Tidy(edit[e].steps)
         /\ Calm => (kept[edit[e].project] \cup edit[e].adds) \ edit[e].drops
                      \subseteq Ids(edit[e].steps)
<1>1. EditFits(e) /\ ~edit[e].shared
  BY Standing DEF EditFits, Fits
<1>2. StepsOf(e) = edit[e].steps
  BY <1>1 DEF StepsOf
<1>. QED  BY <1>1, <1>2 DEF EditFits, Fits, Resting

\* An edit takes the array it has for its own: the dialog opens, or JSON.stringify.
LEMMA OwnFits ==
  ASSUME PInv, NEW e \in Edit, ~Resting(e), NEW pc \in {"dialog", "writing"},
         edit' = [edit EXCEPT ![e].pc = pc, ![e].shared = FALSE, ![e].steps = StepsOf(e)],
         UNCHANGED <<custom, pipelines, defaultSteps, kept>>
  PROVE  PInv'
<1>. DEFINE x == [edit[e] EXCEPT !.pc = pc, !.shared = FALSE, !.steps = StepsOf(e)]
<1>1. edit' = [edit EXCEPT ![e] = x]
  BY Standing
<1>2. x \in EditState /\ x.project = edit[e].project /\ ~x.shared /\ x.steps = StepsOf(e)
      /\ x.pc = pc /\ x.adds = edit[e].adds /\ x.drops = edit[e].drops
  BY Standing DEF EditState
<1>. HIDE DEF x
<1>3. Fits(x, StepsOf(e), kept[edit[e].project])
  BY <1>2, Standing DEF EditFits, Fits, Resting
<1>. QED  BY <1>1, <1>2, <1>3, EditFrame

\* A change in the dialog.
LEMMA InDialogFits ==
  ASSUME PInv, NEW e \in Edit, NEW s \in Seq(PipelineStep),
         NEW adds \in SUBSET StepId, NEW drops \in SUBSET StepId, InDialog(e, s, adds, drops),
         "orders" \notin custom => Tidy(s),
         Calm => (kept[edit[e].project] \cup adds) \ drops \subseteq Ids(s)
  PROVE  PInv'
<1>. DEFINE x == [edit[e] EXCEPT !.steps = s, !.adds = adds, !.drops = drops]
<1>1. edit' = [edit EXCEPT ![e] = x] /\ edit[e].pc = "dialog"
  BY Standing DEF InDialog
<1>2. x \in EditState /\ x.project = edit[e].project /\ ~x.shared /\ x.steps = s
      /\ x.pc = "dialog" /\ x.adds = adds /\ x.drops = drops
  BY <1>1, Standing, AtWork DEF EditState
<1>. HIDE DEF x
<1>3. Fits(x, s, kept[edit[e].project])
  BY <1>2 DEF Fits
<1>. QED  BY <1>1, <1>2, <1>3, AtWork, EditFrame DEF InDialog

LEMMA MoveStepFits ==
  ASSUME PInv, NEW e \in Edit, MoveStep(e)
  PROVE  PInv'
<1>. DEFINE r == Sorted(edit[e].steps)
<1>1. PICK i \in 1 .. Len(r) - 1 :
        InDialog(e, [r EXCEPT ![i].order = r[i + 1].order, ![i + 1].order = r[i].order],
                 edit[e].adds, edit[e].drops)
  BY DEF MoveStep
<1>. DEFINE s == [r EXCEPT ![i].order = r[i + 1].order, ![i + 1].order = r[i].order]
<1>2. edit[e].pc = "dialog" /\ "orders" \in custom
  BY <1>1 DEF InDialog, MoveStep
<1>3. r \in Seq(PipelineStep) /\ Ids(r) = Ids(edit[e].steps)
  BY <1>2, AtWork, SortedIds
<1>7. InDialog(e, s, edit[e].adds, edit[e].drops)
  BY <1>1
<1>. HIDE DEF r
<1>4. i \in DOMAIN r /\ i + 1 \in DOMAIN r /\ i # i + 1
  BY <1>1, <1>3
<1>5. /\ DOMAIN s = DOMAIN r /\ DOMAIN r = 1 .. Len(r) /\ Len(r) \in Nat
      /\ s = [j \in 1 .. Len(r) |-> s[j]]
      /\ \A j \in DOMAIN r : s[j] \in PipelineStep /\ s[j].id = r[j].id
  <2>1. \A j \in DOMAIN r : r[j] \in PipelineStep /\ r[j].order \in Nat
    BY <1>3, StepsAt
  <2>2. ASSUME NEW y \in PipelineStep, NEW o \in Nat
        PROVE  [y EXCEPT !.order = o] \in PipelineStep /\ [y EXCEPT !.order = o].id = y.id
    BY DEF PipelineStep
  <2>3. /\ s[i] = [r[i] EXCEPT !.order = r[i + 1].order]
        /\ s[i + 1] = [r[i + 1] EXCEPT !.order = r[i].order]
        /\ \A j \in DOMAIN r \ {i, i + 1} : s[j] = r[j]
        /\ DOMAIN s = DOMAIN r
    BY <1>3, <1>4
  <2>4. DOMAIN r = 1 .. Len(r) /\ Len(r) \in Nat /\ s = [j \in 1 .. Len(r) |-> s[j]]
    <3>1. DOMAIN r = 1 .. Len(r) /\ Len(r) \in Nat /\ r = [j \in 1 .. Len(r) |-> r[j]]
      BY <1>3
    <3>. QED  BY <3>1
  <2>5. s[i] \in PipelineStep /\ s[i].id = r[i].id
    BY <1>4, <2>1, <2>2, <2>3
  <2>6. s[i + 1] \in PipelineStep /\ s[i + 1].id = r[i + 1].id
    <3>. DEFINE y == r[i + 1]
                o == r[i].order
    <3>1. y \in PipelineStep /\ o \in Nat
      BY <1>4, <2>1
    <3>2. s[i + 1] = [y EXCEPT !.order = o]
      BY <2>3
    <3>. HIDE DEF y, o
    <3>3. s[i + 1] \in PipelineStep /\ s[i + 1].id = y.id
      BY <2>2, <3>1, <3>2
    <3>. QED  BY <3>3 DEF y
  <2>. HIDE DEF s
  <2>. QED  BY <2>1, <2>3, <2>4, <2>5, <2>6
<1>. HIDE DEF s
<1>6. s \in Seq(PipelineStep)
  BY <1>5, IsArray
<1>8. Ids(s) = Ids(edit[e].steps)
  BY <1>3, <1>5 DEF Ids
<1>9. edit[e].adds \in SUBSET StepId /\ edit[e].drops \in SUBSET StepId
  BY Standing
<1>10. Calm => (kept[edit[e].project] \cup edit[e].adds) \ edit[e].drops \subseteq Ids(s)
  BY <1>2, <1>8, AtWork
<1>. QED  BY <1>2, <1>6, <1>7, <1>9, <1>10, InDialogFits

LEMMA RemoveStepFits ==
  ASSUME PInv, NEW e \in Edit, RemoveStep(e)
  PROVE  PInv'
<1>1. PICK id \in Ids(edit[e].steps) :
        InDialog(e, Without(edit[e].steps, id), edit[e].adds \ {id}, edit[e].drops \cup {id})
  BY DEF RemoveStep
<1>2. edit[e].pc = "dialog"
  BY <1>1 DEF InDialog
<1>. DEFINE s == Without(edit[e].steps, id)
<1>3. s \in Seq(PipelineStep) /\ Tidy(s) /\ Ids(s) = Ids(edit[e].steps) \ {id}
  BY <1>2, AtWork, OthersIds, NumberedIds DEF Without
<1>4. edit[e].adds \ {id} \in SUBSET StepId /\ edit[e].drops \cup {id} \in SUBSET StepId
  <2>1. Ids(edit[e].steps) \in SUBSET StepId
    BY <1>2, AtWork, FiniteIds
  <2>. QED  BY <1>1, <2>1, Standing
<1>5. InDialog(e, s, edit[e].adds \ {id}, edit[e].drops \cup {id})
  BY <1>1
<1>. HIDE DEF s
<1>6. Calm => (kept[edit[e].project] \cup (edit[e].adds \ {id})) \ (edit[e].drops \cup {id})
                \subseteq Ids(s)
  BY <1>2, <1>3, AtWork
<1>. QED  BY <1>3, <1>4, <1>5, <1>6, InDialogFits

LEMMA AppendStepFits ==
  ASSUME PInv, NEW e \in Edit, AppendStep(e)
  PROVE  PInv'
<1>. DEFINE step == [id |-> e, order |-> Len(edit[e].steps)]
            s == Append(edit[e].steps, step)
<1>1. InDialog(e, s, {e}, edit[e].drops) /\ edit[e].pc = "dialog"
  BY DEF AppendStep, InDialog
<1>2. step \in PipelineStep /\ step.id = e /\ step.order = Len(edit[e].steps)
  <2>1. Len(edit[e].steps) \in Nat /\ e \in StepId
    BY <1>1, AtWork, StepsAt, Standing
  <2>. QED  BY <2>1 DEF PipelineStep
<1>3. s \in Seq(PipelineStep) /\ Ids(s) = Ids(edit[e].steps) \cup {e}
      /\ (Tidy(edit[e].steps) => Tidy(s))
  <2>. HIDE DEF step
  <2>. QED  BY <1>1, <1>2, AtWork, AppendIds
<1>. HIDE DEF s
<1>4. {e} \in SUBSET StepId /\ edit[e].drops \in SUBSET StepId
  BY Standing
<1>5. Calm => (kept[edit[e].project] \cup {e}) \ edit[e].drops \subseteq Ids(s)
  BY <1>1, <1>3, AtWork
<1>6. "orders" \notin custom => Tidy(s)
  BY <1>1, <1>3, AtWork
<1>. QED  BY <1>1, <1>3, <1>4, <1>5, <1>6, InDialogFits

LEMMA SaveDialogFits ==
  ASSUME PInv, NEW e \in Edit, SaveDialog(e)
  PROVE  PInv'
<1>. DEFINE s == Numbered(Sorted(edit[e].steps))
            x == [edit[e] EXCEPT !.pc = "writing", !.steps = s]
<1>1. edit[e].pc = "dialog" /\ edit' = [edit EXCEPT ![e] = x]
  BY Standing DEF SaveDialog
<1>2. s \in Seq(PipelineStep) /\ Tidy(s) /\ Ids(s) = Ids(edit[e].steps)
  BY <1>1, AtWork, SortedIds, NumberedIds
<1>. HIDE DEF s
<1>3. x \in EditState /\ x.project = edit[e].project /\ ~x.shared /\ x.steps = s
      /\ x.pc = "writing" /\ x.adds = edit[e].adds /\ x.drops = edit[e].drops
  BY <1>1, <1>2, Standing, AtWork DEF EditState
<1>. HIDE DEF x
<1>4. Fits(x, s, kept[edit[e].project])
  BY <1>1, <1>2, <1>3, AtWork DEF Fits
<1>. QED  BY <1>1, <1>3, <1>4, AtWork, EditFrame DEF SaveDialog

LEMMA WriteConfigFits ==
  ASSUME PInv, NEW e \in Edit, WriteConfig(e)
  PROVE  PInv'
<1>0. PICK p \in Project : p = edit[e].project
  BY Standing
<1>1. edit[e].pc = "writing" /\ edit' = [edit EXCEPT ![e] = Over(e)]
      /\ UNCHANGED <<custom, defaultSteps>>
  BY DEF WriteConfig
<1>2. CASE UNCHANGED <<pipelines, kept>>
  BY <1>1, <1>2, AtWork, GiveUpFits
<1>3. CASE /\ pipelines' = [pipelines EXCEPT ![p] = edit[e].steps]
           /\ kept' = [kept EXCEPT ![p] = (@ \cup edit[e].adds) \ edit[e].drops]
  <2>1. FilesFit /\ \A q \in Project : FileFits(q)
    BY DEF PInv, FilesFit
  <2>2. /\ pipelines'[p] = edit[e].steps
        /\ kept'[p] = (kept[p] \cup edit[e].adds) \ edit[e].drops
        /\ \A q \in Project \ {p} : pipelines'[q] = pipelines[q] /\ kept'[q] = kept[q]
        /\ pipelines' = [q \in Project |-> pipelines'[q]] /\ kept' = [q \in Project |-> kept'[q]]
    BY <1>1, <1>3, <2>1 DEF FilesFit
  <2>3. Calm' = Calm
    BY <1>1 DEF Calm
  <2>4. FileFits(p)'
    <3>1. kept'[p] \in SUBSET StepId
      BY <1>0, <1>1, <2>1, <2>2, Standing DEF FileFits
    <3>2. /\ pipelines'[p] \in Seq(PipelineStep) /\ pipelines'[p] # NoFile
          /\ "orders" \notin custom => Tidy(pipelines'[p])
          /\ Calm => kept'[p] \subseteq Ids(pipelines'[p])
      <4>2. edit[e].steps \in Seq(PipelineStep) /\ edit[e].steps # NoFile
        BY <1>1, AtWork, NoFileAssumption
      <4>. QED  BY <1>0, <1>1, <2>2, <4>2, AtWork
    <3>3. custom' = custom
      BY <1>1
    <3>. QED  BY <2>3, <3>1, <3>2, <3>3 DEF FileFits
  <2>5. \A q \in Project \ {p} : FileFits(q)'
    BY <1>1, <2>1, <2>2, <2>3 DEF FileFits
  <2>6. FilesFit'
    BY <1>1, <2>1, <2>2, <2>4, <2>5 DEF FilesFit
  <2>7. edit'[e] = Over(e) /\ edit' = [edit EXCEPT ![e] = edit'[e]]
    BY <1>1, Standing
  <2>8. EditFits(e)'
    <3>1. Fits(Over(e), <<>>, kept'[p]) /\ ~Over(e).shared /\ Over(e).steps = <<>>
          /\ Over(e).project = p
      BY <1>0, OverFits, EmptyFits
    <3>. QED  BY <1>0, <1>1, <2>3, <2>7, <3>1 DEF EditFits, Fits, StepsOf
  <2>. QED  BY <1>1, <2>6, <2>7, <2>8, Standing, AtWork, Frame
<1>. QED  BY <1>0, <1>2, <1>3 DEF WriteConfig

LEMMA PInvNext == PInv /\ [PipelineNext]_PipelineVars => PInv'
<1>. SUFFICES ASSUME PInv, [PipelineNext]_PipelineVars
              PROVE  PInv'
  OBVIOUS
<1>1. CASE UNCHANGED PipelineVars
  BY <1>1 DEF PipelineVars, PInv, FilesFit, FileFits, EditsFit, EditFits, Fits, Resting, Calm, StepsOf
<1>2. ASSUME NEW e \in Edit, Refuse(e) \/ CloseDialog(e)
      PROVE  PInv'
  BY <1>2, GiveUpFits DEF Refuse, CloseDialog, Resting
<1>3. ASSUME NEW e \in Edit, Serialize(e) \/ OpenDialog(e)
      PROVE  PInv'
  <2>1. CASE Serialize(e)
    BY <2>1, OwnFits DEF Serialize, Resting
  <2>2. CASE OpenDialog(e)
    BY <2>2, OwnFits DEF OpenDialog, Resting
  <2>. QED  BY <1>3, <2>1, <2>2
<1>. QED
  BY <1>1, <1>2, <1>3, ReadConfigFits, AddStepFits, DeleteStepFits, UpdateStepFits,
     ReorderStepsFits, WriteConfigFits, MoveStepFits, RemoveStepFits, AppendStepFits,
     SaveDialogFits DEF PipelineNext

LEMMA PInvAlways == PipelineSpec => []PInv
  BY PInvFirst, PInvNext, PTL DEF PipelineSpec

\* In every behaviour every state variable has its type.
THEOREM PipelineTypeCorrect == PipelineSpec => []PipelineTypeOK
  BY PInvAlways, PInvType, PTL

\* A step whose addition was answered stays until a request gives it up, as long as
\* edits come one at a time and files can be read.
THEOREM StepsAlwaysStay == PipelineSpec => []StepsStay
<1>1. PInv => StepsStay
  BY DEF PInv, FilesFit, FileFits, StepsStay, Calm
<1>. QED  BY <1>1, PInvAlways, PTL

\* The deletion of a step, by a request or in the dialog, leaves the others in the
\* order in which they run, as long as nobody sets orders or moves steps: the array
\* is then tidy.
THEOREM DeletionOrderKept == PipelineSpec => DeletionKeepsOrder
<1>1. ASSUME PInv, [PipelineNext]_PipelineVars, NEW e \in Edit, "orders" \notin custom
      PROVE  OrderKept(e)
  <2>. SUFFICES ASSUME DeleteStep(e) \/ RemoveStep(e)
                PROVE  LET t == StepsOf(e)' IN
                       RunOrder(t) = Selected(RunOrder(StepsOf(e)),
                         {i \in DOMAIN RunOrder(StepsOf(e)) : RunOrder(StepsOf(e))[i] \in Ids(t)})
    BY DEF OrderKept
  <2>1. StepsOf(e) \in Seq(PipelineStep) /\ Tidy(StepsOf(e)) /\ edit = [f \in Edit |-> edit[f]]
    BY <1>1, Standing DEF EditFits, Fits
  <2>2. \E id : StepsOf(e)' = Without(StepsOf(e), id)
    <3>1. CASE DeleteStep(e)
      <4>1. PICK id : Change(e, Without(StepsOf(e), id), {}, {id})
        BY <3>1 DEF DeleteStep
      <4>. DEFINE t == Without(StepsOf(e), id)
      <4>2. /\ edit' = [edit EXCEPT ![e].pc = "changed", ![e].adds = {}, ![e].drops = {id},
                                    ![e].steps = IF edit[e].shared THEN <<>> ELSE t]
            /\ defaultSteps' = IF edit[e].shared THEN t ELSE defaultSteps
        BY <4>1 DEF Change
      <4>. HIDE DEF t
      <4>3. edit[e] \in EditState
        BY <1>1, Standing
      <4>4. /\ edit'[e].shared = edit[e].shared
            /\ edit'[e].steps = IF edit[e].shared THEN <<>> ELSE t
        BY <2>1, <4>2, <4>3 DEF EditState
      <4>5. StepsOf(e)' = t
        BY <4>2, <4>4 DEF StepsOf
      <4>. QED  BY <4>5 DEF t
    <3>2. CASE RemoveStep(e)
      <4>1. edit[e].pc = "dialog"
        BY <3>2 DEF RemoveStep, InDialog
      <4>2. ~edit[e].shared
        BY <4>1, <1>1, AtWork
      <4>3. PICK id : edit' = [edit EXCEPT ![e].steps = Without(edit[e].steps, id),
                                           ![e].adds = edit[e].adds \ {id},
                                           ![e].drops = edit[e].drops \cup {id}]
        BY <3>2 DEF RemoveStep, InDialog
      <4>. DEFINE t == Without(edit[e].steps, id)
      <4>4. edit[e] \in EditState
        BY <1>1, Standing
      <4>. HIDE DEF t
      <4>5. edit'[e].shared = edit[e].shared /\ edit'[e].steps = t
        BY <2>1, <4>3, <4>4 DEF EditState, t
      <4>6. StepsOf(e)' = t
        BY <4>2, <4>5 DEF StepsOf
      <4>. QED  BY <4>2, <4>6 DEF t, StepsOf
    <3>. QED  BY <3>1, <3>2
  <2>. QED  BY <2>1, <2>2, WithoutKeepsOrder
<1>2. PInv /\ [PipelineNext]_PipelineVars
        => [\A e \in Edit : "orders" \notin custom => OrderKept(e)]_PipelineVars
  BY <1>1
<1>. QED  BY <1>2, PInvAlways, PTL DEF PipelineSpec, DeletionKeepsOrder

-----------------------------------------------------------------------------
(***************************************************************************)
(* All uses together.  A step of one use leaves the variables of the       *)
(* others as they are.                                                     *)
(***************************************************************************)
UsageInv == TypeInv /\ ApplyTypeOK /\ OneDeletion /\ PInv

LEMMA UsageFirst == UsageInit => UsageInv
<1>1. ApplyInit => OneDeletion
  BY DEF ApplyInit, OneDeletion, LinksClean, OnlyNamed, KnownNamed, Empty, Id
<1>. QED  BY <1>1, InitType, ApplyInitType, PInvFirst DEF UsageInit, UsageInv

LEMMA UsageStep ==
  ASSUME UsageInv, [UsageNext]_<<usage, vars, concurrentVars, damagedVars, ApplyVars, PipelineVars>>
  PROVE  UsageInv'
<1>1. /\ [Next]_vars
      /\ [ApplyNext]_ApplyVars
      /\ [PipelineNext]_PipelineVars
  BY DEF UsageNext
<1>. QED  BY <1>1, NextType, ApplyNextType, NextOneDeletion, PInvNext DEF UsageInv

LEMMA UsageAlways == UsageSpec => []UsageInv
  BY UsageFirst, UsageStep, PTL DEF UsageSpec

\* The variables of every use have their types, whatever the usage.
THEOREM UsageTypeCorrect == UsageSpec => []UsageTypeOK
<1>1. UsageInv => UsageTypeOK
  BY PInvType DEF UsageInv, UsageTypeOK, TypeInv
<1>. QED  BY <1>1, UsageAlways, PTL

-----------------------------------------------------------------------------
(***************************************************************************)
(* The copies of JsonFile: what JsonFileProofs says holds of them as well, *)
(* as their constants meet its assumptions.                                *)
(***************************************************************************)
Pair == INSTANCE JsonFileProofs
  WITH Update <- PairUpdate, MaxBackups <- 1, MaxStamp <- 2,
       Distinct <- TRUE, Serial <- FALSE, Faults <- AllFaults,
       main <- cMain, temp <- cTemp, bak <- cBak, clock <- cClock,
       proc <- cProc, done <- cDone, recovered <- cRecovered, undone <- cUndone

LEMMA ConcurrentNext == Concurrent!Next <=> Pair!Next
  BY DEF Concurrent!Next, Pair!Next, Concurrent!Call, Pair!Call, Concurrent!ReadMain,
         Pair!ReadMain, Concurrent!Recovery, Pair!Recovery, Concurrent!AtomicWrite,
         Pair!AtomicWrite, Concurrent!Crash, Pair!Crash, Concurrent!Corrupt,
         Pair!Corrupt, Concurrent!ReadDir, Pair!ReadDir, Concurrent!ReadTemp,
         Pair!ReadTemp, Concurrent!NoTemps, Pair!NoTemps, Concurrent!RestoreTemp,
         Pair!RestoreTemp, Concurrent!ReadBackup, Pair!ReadBackup,
         Concurrent!RestoreBackup, Pair!RestoreBackup, Concurrent!NothingToRead,
         Pair!NothingToRead, Concurrent!NoRotation, Pair!NoRotation, Concurrent!Rotate,
         Pair!Rotate, Concurrent!CopyBackup, Pair!CopyBackup, Concurrent!Open,
         Pair!Open, Concurrent!Write, Pair!Write, Concurrent!Rename, Pair!Rename,
         Concurrent!WriteFails, Pair!WriteFails, Concurrent!At, Pair!At,
         Concurrent!Goto, Pair!Goto, Concurrent!Writing, Pair!Writing,
         Concurrent!Newest, Pair!Newest, Concurrent!MayFail, Pair!MayFail,
         Concurrent!NextStamp, Pair!NextStamp, Concurrent!Enters, Pair!Enters,
         Concurrent!Got, Pair!Got, Concurrent!Moved, Pair!Moved, Concurrent!FallsBackOn,
         Pair!FallsBackOn, Concurrent!Idle, Pair!Idle, Concurrent!Stamp, Pair!Stamp,
         Concurrent!Backup, Pair!Backup, Concurrent!Whole, Pair!Whole,
         Concurrent!WritePC, Pair!WritePC, Concurrent!Recoverable, Pair!Recoverable,
         Concurrent!Written, Pair!Written, Concurrent!history, Pair!history

LEMMA ConcurrentBegins == Concurrent!Init <=> Pair!Init
  BY DEF Concurrent!Init, Pair!Init, Concurrent!Stamp, Pair!Stamp, Concurrent!Backup,
         Pair!Backup, Concurrent!Idle, Pair!Idle

Single == INSTANCE JsonFileProofs
  WITH Proc <- {Writer}, Update <- LongHistory, MaxBackups <- 3,
       MaxStamp <- 5, Distinct <- TRUE, Serial <- FALSE,
       Faults <- {"corrupt", "writeFails"},
       main <- dMain, temp <- dTemp, bak <- dBak, clock <- dClock,
       proc <- dProc, done <- dDone, recovered <- dRecovered, undone <- dUndone

LEMMA DamagedNext == Damaged!Next <=> Single!Next
  BY DEF Damaged!Next, Single!Next, Damaged!Call, Single!Call, Damaged!ReadMain,
         Single!ReadMain, Damaged!Recovery, Single!Recovery, Damaged!AtomicWrite,
         Single!AtomicWrite, Damaged!Crash, Single!Crash, Damaged!Corrupt,
         Single!Corrupt, Damaged!ReadDir, Single!ReadDir, Damaged!ReadTemp,
         Single!ReadTemp, Damaged!NoTemps, Single!NoTemps, Damaged!RestoreTemp,
         Single!RestoreTemp, Damaged!ReadBackup, Single!ReadBackup,
         Damaged!RestoreBackup, Single!RestoreBackup, Damaged!NothingToRead,
         Single!NothingToRead, Damaged!NoRotation, Single!NoRotation, Damaged!Rotate,
         Single!Rotate, Damaged!CopyBackup, Single!CopyBackup, Damaged!Open,
         Single!Open, Damaged!Write, Single!Write, Damaged!Rename, Single!Rename,
         Damaged!WriteFails, Single!WriteFails, Damaged!At, Single!At, Damaged!Goto,
         Single!Goto, Damaged!Writing, Single!Writing, Damaged!Newest, Single!Newest,
         Damaged!MayFail, Single!MayFail, Damaged!NextStamp, Single!NextStamp,
         Damaged!Enters, Single!Enters, Damaged!Got, Single!Got, Damaged!Moved,
         Single!Moved, Damaged!FallsBackOn, Single!FallsBackOn, Damaged!Idle,
         Single!Idle, Damaged!Stamp, Single!Stamp, Damaged!Backup, Single!Backup,
         Damaged!Whole, Single!Whole, Damaged!WritePC, Single!WritePC,
         Damaged!Recoverable, Single!Recoverable, Damaged!Written, Single!Written,
         Damaged!history, Single!history

LEMMA DamagedBegins == Damaged!Init <=> Single!Init
  BY DEF Damaged!Init, Single!Init, Damaged!Stamp, Single!Stamp, Damaged!Backup,
         Single!Backup, Damaged!Idle, Single!Idle

LEMMA Constants ==
  /\ 1 \in Nat /\ 3 \in Nat /\ 2 \in Nat \ {0} /\ 5 \in Nat \ {0} /\ 3 >= 2
  /\ TRUE \in BOOLEAN /\ FALSE \in BOOLEAN
  /\ AllFaults \subseteq Pair!AllFaults
  /\ {"corrupt", "writeFails"} \subseteq Single!AllFaults
  /\ {"corrupt", "writeFails"} \cap {"crash", "readFails", "ignoredFails"} = {}
  BY DEF AllFaults, Pair!AllFaults, Single!AllFaults

\* With two callers that recover, rotate and write at once, and all faults, neither a
\* write nor the restoring of a temp file turns a whole file into half a one.
THEOREM ConcurrentRenamesKeepWhole == UsageSpec => ConcurrentWritesKeepWhole
<1>1. UsageSpec => Pair!Spec
  <2>1. UsageInit => Pair!Init
    BY ConcurrentBegins DEF UsageInit
  <2>2. [UsageNext]_<<usage, vars, concurrentVars, damagedVars, ApplyVars, PipelineVars>>
          => [Pair!Next]_Pair!vars
    BY ConcurrentNext DEF UsageNext, concurrentVars, Pair!vars
  <2>. QED  BY <2>1, <2>2, PTL DEF UsageSpec, Pair!Spec
<1>2. Pair!Spec => Pair!WritesKeepWhole
  BY PairAssumption, ContentAssumption, Constants, Pair!RenamesKeepWhole
<1>3. Pair!WritesKeepWhole => Concurrent!WritesKeepWhole
  BY DEF Pair!WritesKeepWhole, Concurrent!WritesKeepWhole, Pair!vars, Concurrent!vars,
         Pair!AtomicWrite, Concurrent!AtomicWrite, Pair!RestoreTemp,
         Concurrent!RestoreTemp, Pair!NoRotation, Concurrent!NoRotation, Pair!Rotate,
         Concurrent!Rotate, Pair!CopyBackup, Concurrent!CopyBackup, Pair!Open,
         Concurrent!Open, Pair!Write, Concurrent!Write, Pair!Rename, Concurrent!Rename,
         Pair!WriteFails, Concurrent!WriteFails, Pair!At, Concurrent!At, Pair!Goto,
         Concurrent!Goto, Pair!MayFail, Concurrent!MayFail, Pair!NextStamp,
         Concurrent!NextStamp, Pair!Enters, Concurrent!Enters, Pair!Got, Concurrent!Got,
         Pair!Moved, Concurrent!Moved, Pair!FallsBackOn, Concurrent!FallsBackOn,
         Pair!Idle, Concurrent!Idle, Pair!Stamp, Concurrent!Stamp, Pair!Whole,
         Concurrent!Whole, Pair!WritePC, Concurrent!WritePC, Pair!Written,
         Concurrent!Written, Pair!history, Concurrent!history
<1>. QED  BY <1>1, <1>2, <1>3 DEF ConcurrentWritesKeepWhole

\* Of a file that one caller updates and that is damaged now and then, the recovery
\* returns a document that lacks one completed update at most.
THEOREM DamagedBackupsAlwaysTrail == UsageSpec => []DamagedBackupsTrail
<1>1. UsageSpec => Single!Spec
  <2>1. UsageInit => Single!Init
    BY DamagedBegins DEF UsageInit
  <2>2. [UsageNext]_<<usage, vars, concurrentVars, damagedVars, ApplyVars, PipelineVars>>
          => [Single!Next]_Single!vars
    BY DamagedNext DEF UsageNext, damagedVars, Single!vars
  <2>. QED  BY <2>1, <2>2, PTL DEF UsageSpec, Single!Spec
<1>2. Single!Spec => []Single!BackupsTrail
  BY HistoryAssumption, ContentAssumption, Constants, Single!BackupsAlwaysTrail
<1>3. Single!BackupsTrail <=> Damaged!BackupsTrail
  <2>1. Single!Recoverable = Damaged!Recoverable
    BY DEF Single!Recoverable, Damaged!Recoverable, Single!Whole, Damaged!Whole,
           Single!Newest, Damaged!Newest, Single!Stamp, Damaged!Stamp, Single!Backup,
           Damaged!Backup
  <2>2. \A c : Single!Whole(c) <=> Damaged!Whole(c)
    BY DEF Single!Whole, Damaged!Whole
  <2>3. Single!Cardinality(dDone \ Single!Recoverable) = Damaged!Cardinality(dDone \ Single!Recoverable)
    BY DEF Single!Cardinality, Damaged!Cardinality
  <2>. QED  BY <2>1, <2>2, <2>3 DEF Single!BackupsTrail, Damaged!BackupsTrail
<1>. QED  BY <1>1, <1>2, <1>3, PTL DEF DamagedBackupsTrail
=============================================================================
