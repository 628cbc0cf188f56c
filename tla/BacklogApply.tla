---------------------------- MODULE BacklogApply ----------------------------
(***************************************************************************)
(* Applying a backlog plan: the handler of apps/server/src/routes/         *)
(* backlog-plan/routes/apply.ts, which deletes, adds and updates features  *)
(* one after another and then changes dependencies, and the user, who may  *)
(* change dependencies on the board meanwhile.                             *)
(*                                                                         *)
(* A change of the plan is chosen when its turn comes.  Of a feature there *)
(* are its dependencies.  The plan comes from a language model, and no one *)
(* looks whether the ids in it are features: a change may name any.        *)
(***************************************************************************)
EXTENDS Naturals, FiniteSets

CONSTANTS
  Feature,      \* the features there are before
  New,          \* the ids of features that the plan adds
  MaxChanges,   \* bound: how many changes the plan and the user make
  MaxWritten,   \* bound: how many dependencies a change sets, adds or removes
  Uses          \* the uses that are checked: subsets of AllUses

(***************************************************************************)
(*   deletes  the plan may delete more than one feature                    *)
(*   repeats  it may list a feature twice among its dependencyUpdates      *)
(*   edits    the user edits dependencies while the plan is applied        *)
(***************************************************************************)
AllUses == {"deletes", "repeats", "edits"}

ASSUME UseAssumption == Uses \subseteq SUBSET AllUses
ASSUME ChangesAssumption == MaxChanges \in Nat /\ MaxWritten \in Nat
ASSUME IdAssumption == Feature \cap New = {}

VARIABLES
  use,          \* rigid: the use of this behaviour
  stage,        \* the pass that the handler has come to
  left,         \* how many more changes there may be
  exists,       \* the features on disk
  deps,         \* their dependencies, on disk
  listed,       \* allFeatures: the dependencies that were loaded at the start
  mapped,       \* the features that featureMap has
  known,        \* their dependencies in featureMap
  deletions,    \* the features whose deletion has been processed
  linked,       \* the features whose dependencyUpdate has been processed
  named         \* history: the dependencies that the plan wrote for a feature

ApplyVars == <<use, stage, left, exists, deps, listed, mapped, known, deletions,
               linked, named>>

Id == Feature \cup New
Stages == <<"idle", "delete", "add", "update", "link", "done">>
Before(s, t) ==
  \E i, j \in DOMAIN Stages : i <= j /\ Stages[i] = s /\ Stages[j] = t

\* Every state variable has its type.
ApplyTypeOK ==
  /\ use \in Uses
  /\ stage \in {Stages[i] : i \in DOMAIN Stages}
  /\ left \in 0 .. MaxChanges
  /\ exists \in SUBSET Id
  /\ deps \in [Id -> SUBSET Id]
  /\ listed \in [Id -> SUBSET Id]
  /\ mapped \in SUBSET Id
  /\ known \in [Id -> SUBSET Id]
  /\ deletions \in SUBSET Id
  /\ linked \in SUBSET Id
  /\ named \in [Id -> SUBSET Id]

\* The dependencies of a change: whatever ids the plan names.
WrittenDeps == {D \in SUBSET Id : Cardinality(D) <= MaxWritten}

Empty == [f \in Id |-> {}]

\* Any board without self dependencies.
ApplyInit ==
  /\ use \in Uses
  /\ stage = "idle"
  /\ left = MaxChanges
  /\ exists = Feature
  /\ \E d \in [Feature -> SUBSET Feature] :
       /\ \A f \in Feature : f \notin d[f]
       /\ deps = [f \in Id |-> IF f \in Feature THEN d[f] ELSE {}]
  /\ listed = Empty /\ mapped = {} /\ known = Empty
  /\ deletions = {} /\ linked = {} /\ named = Empty

-----------------------------------------------------------------------------
\* getAll, from which featureMap is made.
LoadFeatures ==
  /\ stage = "idle"
  /\ stage' = "delete"
  /\ listed' = deps /\ mapped' = exists /\ known' = deps
  /\ UNCHANGED <<use, left, exists, deps, deletions, linked, named>>

\* One more change, in pass s.
Take(s) ==
  /\ stage # "idle" /\ Before(stage, s)
  /\ stage' = s
  /\ left > 0 /\ left' = left - 1
  /\ UNCHANGED use

\* The dependency on d is removed from the features in S, as they were loaded.
RemoveFrom(S, d) ==
  deps' = [f \in Id |-> IF f \in S THEN listed[f] \ {d} ELSE deps[f]]

\* Mutant of DeleteChange: the feature goes first.
DeleteOnly(d) ==
  /\ Take("delete")
  /\ d \in Feature \ deletions
  /\ deletions = {} \/ "deletes" \in use
  /\ deletions' = deletions \cup {d}
  /\ exists' = exists \ {d} /\ mapped' = mapped \ {d}
  /\ UNCHANGED <<deps, listed, known, linked, named>>

\* "Before deleting, update any features that depend on this one": if one of
\* those is gone, its update throws, and the feature is not deleted; those that
\* come before it in the list have been updated.
DeleteChange(d) ==
  LET dependents == {f \in Feature : d \in listed[f]} IN
  /\ Take("delete")
  /\ d \in Feature \ deletions
  /\ deletions = {} \/ "deletes" \in use
  /\ deletions' = deletions \cup {d}
  /\ \/ /\ dependents \subseteq exists
        /\ RemoveFrom(dependents, d)
        /\ exists' = exists \ {d} /\ mapped' = mapped \ {d}
     \/ /\ ~(dependents \subseteq exists)
        /\ \E S \in SUBSET (dependents \cap exists) : RemoveFrom(S, d)
        /\ UNCHANGED <<exists, mapped>>
  /\ UNCHANGED <<listed, known, linked, named>>

\* The dependencies are those of the change, as they are.
AddChange(n) ==
  /\ Take("add")
  /\ n \in New \ exists
  /\ \E D \in WrittenDeps :
       /\ deps' = [deps EXCEPT ![n] = D]
       /\ known' = [known EXCEPT ![n] = D]
       /\ named' = [named EXCEPT ![n] = D]
  /\ exists' = exists \cup {n} /\ mapped' = mapped \cup {n}
  /\ UNCHANGED <<listed, deletions, linked>>

\* An update sets dependencies, as they are in the change, or it does not;
\* featureMap gets what is on disk then.  (One of a feature that is gone throws
\* and changes nothing.)
UpdateChange(f) ==
  /\ Take("update")
  /\ f \in exists
  /\ \/ \E D \in WrittenDeps :
          /\ deps' = [deps EXCEPT ![f] = D]
          /\ known' = [known EXCEPT ![f] = D]
          /\ named' = [named EXCEPT ![f] = D]
     \/ /\ known' = [known EXCEPT ![f] = deps[f]]
        /\ UNCHANGED <<deps, named>>
  /\ mapped' = mapped \cup {f}
  /\ UNCHANGED <<exists, listed, deletions, linked>>

\* One of the dependencyUpdates, on top of what featureMap says.
LinkChange(f) ==
  /\ Take("link")
  /\ f \in mapped \cap exists
  /\ f \notin linked \/ "repeats" \in use
  /\ \E removed, added \in WrittenDeps :
       LET new == added \ known[f] IN
       /\ deps' = [deps EXCEPT ![f] = (known[f] \ removed) \cup new]
       /\ named' = [named EXCEPT ![f] = @ \cup new]
  /\ linked' = linked \cup {f}
  /\ UNCHANGED <<exists, listed, mapped, known, deletions>>

Finish ==
  /\ stage \notin {"idle", "done"}
  /\ stage' = "done"
  /\ UNCHANGED <<use, left, exists, deps, listed, mapped, known, deletions, linked,
                 named>>

\* PUT of a feature by the user: one of its dependencies is taken away, or a
\* feature of the board is added.
UserEdits(f) ==
  /\ "edits" \in use
  /\ f \in exists
  /\ left > 0 /\ left' = left - 1
  /\ \/ \E g \in deps[f] : deps' = [deps EXCEPT ![f] = @ \ {g}]
     \/ \E g \in exists \ {f} : deps' = [deps EXCEPT ![f] = @ \cup {g}]
  /\ UNCHANGED <<use, stage, exists, listed, mapped, known, deletions, linked, named>>

ApplyNext ==
  \/ LoadFeatures \/ Finish
  \/ \E f \in Id :
       DeleteChange(f) \/ AddChange(f) \/ UpdateChange(f) \/ LinkChange(f) \/ UserEdits(f)

ApplySpec == ApplyInit /\ [][ApplyNext]_ApplyVars

-----------------------------------------------------------------------------
(***************************************************************************)
(* Properties.                                                             *)
(***************************************************************************)
\* No feature depends on one that is not there: what the first pass is for.
\* The code does not meet it: the plan's dependencies are written unchecked (the
\* features are loaded "for dependency validation", of which there is none), and
\* a second deletion writes back a dependency on the first, as it was loaded.
NoDangling == \A f \in exists : deps[f] \subseteq exists

\* What the first pass does achieve: if the plan deletes at most one feature and
\* has no dependencyUpdates for those that depended on it, and the user waits,
\* then no feature depends on one that is not there, unless the plan itself has
\* written that dependency for it.
OneDeletionClean ==
  (/\ use \cap {"deletes", "edits"} = {}
   /\ \A f \in linked : listed[f] \cap deletions = {})
  => \A f \in exists : deps[f] \subseteq exists \cup named[f]

\* A deletion that has been processed is done.  The code does not meet it: a
\* feature whose dependent was deleted before it stays.
DeletionsDone == deletions \cap exists = {}
=============================================================================
