------------------------- MODULE DependencyResolver -------------------------
(***************************************************************************)
(* resolveDependencies of libs/dependency-resolver/src/resolver.ts: the    *)
(* order in which auto mode and the board take up pending features.        *)
(*                                                                         *)
(* First Kahn's algorithm, one turn of its while loop a step, then         *)
(* detectCycles, a depth first search whose recursion is the stack calls.  *)
(* Features are numbered as they come in the array that is passed in.      *)
(***************************************************************************)
EXTENDS Naturals, Sequences, FiniteSets, Functions

CONSTANTS
  N,              \* number of features
  Missing,        \* an id in a dependency list that no feature has
  Dependencies,   \* bound: the sets of dependencies a feature may have
  Priority        \* bound: the priorities a feature may have

Feature == 1 .. N
Id == Feature \cup {Missing}

ASSUME SizeAssumption == N \in Nat
ASSUME MissingAssumption == Missing \notin Feature
ASSUME DependenciesAssumption == Dependencies \subseteq SUBSET Id
ASSUME PriorityAssumption == Priority \subseteq Nat

VARIABLES
  deps, priority,   \* the input
  pc,
  inDegree,
  queue,      \* the set of the features in the queue
  pushed,     \* when each one was pushed: the features ordered before
  ordered,    \* orderedFeatures
  remaining,  \* the features that Kahn's algorithm could not order
  visited,
  path,       \* currentPath; recursionStack is the set of its members
  calls,      \* the calls of dfs that are under way, innermost last
  cycles      \* circularDependencies

input == <<deps, priority>>
kahn == <<inDegree, queue, pushed>>
search == <<visited, path, calls, cycles>>
vars == <<input, kahn, search, pc, ordered, remaining>>

\* The dependencies that are edges of the graph.
Known(f) == deps[f] \cap Feature
Dependents(f) == {g \in Feature : f \in deps[g]}
Taken == Range(ordered)

Call == [feature : Id, todo : SUBSET Id]

\* Every state variable has its type.
TypeOK ==
  /\ deps \in [Feature -> SUBSET Id]
  /\ priority \in [Feature -> Nat]
  /\ pc \in {"kahn", "cycles", "done"}
  /\ inDegree \in [Feature -> Nat]
  /\ queue \in SUBSET Feature
  /\ pushed \in [Feature -> Nat]
  /\ ordered \in Seq(Feature)
  /\ remaining \in SUBSET Feature
  /\ visited \in SUBSET Id
  /\ path \in Seq(Id)
  /\ calls \in Seq(Call)
  /\ cycles \in Seq(Seq(Id))

\* Mutant of Init: missing dependencies count.
InitCountsMissing ==
  /\ deps \in [Feature -> Dependencies]
  /\ priority \in [Feature -> Priority]
  /\ pc = "kahn"
  /\ inDegree = [f \in Feature |-> Cardinality(deps[f])]
  /\ queue = {f \in Feature : deps[f] = {}}
  /\ pushed = [f \in Feature |-> 0]
  /\ ordered = <<>>
  /\ remaining = {}
  /\ visited = {} /\ path = <<>> /\ calls = <<>> /\ cycles = <<>>

Init ==
  /\ deps \in [Feature -> Dependencies]
  /\ priority \in [Feature -> Priority]
  /\ pc = "kahn"
  /\ inDegree = [f \in Feature |-> Cardinality(Known(f))]
  /\ queue = {f \in Feature : Known(f) = {}}
  /\ pushed = [f \in Feature |-> 0]
  /\ ordered = <<>>
  /\ remaining = {}
  /\ visited = {} /\ path = <<>> /\ calls = <<>> /\ cycles = <<>>

-----------------------------------------------------------------------------
(***************************************************************************)
(* Kahn's algorithm.                                                       *)
(***************************************************************************)
\* Mutant of Before: the queue is not sorted again when features are pushed.
BeforeUnsorted(f, g) ==
  \/ pushed[f] < pushed[g]
  \/ pushed[f] = pushed[g] /\ priority[f] < priority[g]
  \/ pushed[f] = pushed[g] /\ priority[f] = priority[g] /\ f < g

\* The queue is sorted by priority after every push and the sort is stable, so
\* f is nearer to its front than g.
Before(f, g) ==
  \/ priority[f] < priority[g]
  \/ priority[f] = priority[g] /\ pushed[f] < pushed[g]
  \/ priority[f] = priority[g] /\ pushed[f] = pushed[g] /\ f < g

\* Mutant of TakeNext: a dependent is pushed whatever its in-degree.
TakeNextEager(f) ==
  /\ pc = "kahn"
  /\ f \in queue /\ \A g \in queue \ {f} : Before(f, g)
  /\ ordered' = Append(ordered, f)
  /\ inDegree' = [g \in Feature |->
       IF f \in deps[g] THEN inDegree[g] - 1 ELSE inDegree[g]]
  /\ queue' = (queue \ {f}) \cup Dependents(f)
  /\ pushed' = [g \in Feature |-> IF g \in Dependents(f) THEN Len(ordered') ELSE pushed[g]]
  /\ UNCHANGED <<input, search, pc, remaining>>

\* queue.shift(), and the dependents of f that have no other dependency left
\* are pushed.
TakeNext(f) ==
  LET freed == {g \in Dependents(f) : inDegree[g] = 1} IN
  /\ pc = "kahn"
  /\ f \in queue /\ \A g \in queue \ {f} : Before(f, g)
  /\ ordered' = Append(ordered, f)
  /\ inDegree' = [g \in Feature |->
       IF f \in deps[g] THEN inDegree[g] - 1 ELSE inDegree[g]]
  /\ queue' = (queue \ {f}) \cup freed
  /\ pushed' = [g \in Feature |-> IF g \in freed THEN Len(ordered') ELSE pushed[g]]
  /\ UNCHANGED <<input, search, pc, remaining>>

\* The queue is empty.
FindRemaining ==
  /\ pc = "kahn"
  /\ queue = {}
  /\ remaining' = Feature \ Taken
  /\ pc' = IF remaining' = {} THEN "done" ELSE "cycles"
  /\ UNCHANGED <<input, kahn, search, ordered>>

-----------------------------------------------------------------------------
(***************************************************************************)
(* detectCycles.                                                           *)
(***************************************************************************)
Top == calls[Len(calls)]
Outer == SubSeq(calls, 1, Len(calls) - 1)

\* The cycle found, currentPath.slice(currentPath.indexOf(d)).
Report(d) ==
  /\ \E i \in DOMAIN path :
       /\ path[i] = d /\ \A j \in 1 .. i - 1 : path[j] # d
       /\ cycles' = Append(cycles, SubSeq(path, i, Len(path)))
  /\ calls' = <<>>
  /\ UNCHANGED <<visited, path>>

\* The beginning of dfs(d).  An id that no feature has leads nowhere.
Enter(d, outer) ==
  /\ visited' = visited \cup {d}
  /\ path' = Append(path, d)
  /\ calls' = Append(outer, [feature |-> d, todo |-> IF d \in Feature THEN deps[d] ELSE {}])
  /\ UNCHANGED cycles

\* The outer loop goes to the next feature that has not been visited.
NextRoot(f) ==
  /\ pc = "cycles" /\ calls = <<>>
  /\ f \in remaining \ visited /\ \A g \in remaining \ visited : f <= g
  /\ Enter(f, <<>>)
  /\ UNCHANGED <<input, kahn, pc, ordered, remaining>>

\* Mutant of Look: the loop does not get past a dependency it need not enter.
LookStays(d) ==
  /\ pc = "cycles" /\ calls # <<>>
  /\ d \in Top.todo
  /\ \/ d \notin visited /\ Enter(d, Append(Outer, [Top EXCEPT !.todo = @ \ {d}]))
     \/ Report(d)
  /\ UNCHANGED <<input, kahn, pc, ordered, remaining>>

\* Mutant of Look: any dependency that was visited before closes a cycle.
LookVisited(d) ==
  LET outer == Append(Outer, [Top EXCEPT !.todo = @ \ {d}]) IN
  /\ pc = "cycles" /\ calls # <<>>
  /\ d \in Top.todo
  /\ \/ d \notin visited /\ Enter(d, outer)
     \/ /\ d \in visited
        /\ cycles' = Append(cycles, path)
        /\ calls' = <<>>
        /\ UNCHANGED <<visited, path>>
  /\ UNCHANGED <<input, kahn, pc, ordered, remaining>>

\* dfs looks at the dependency d of its feature.  A cycle ends all the calls
\* at once, but leaves currentPath and recursionStack as they are.
Look(d) ==
  LET outer == Append(Outer, [Top EXCEPT !.todo = @ \ {d}]) IN
  /\ pc = "cycles" /\ calls # <<>>
  /\ d \in Top.todo
  /\ \/ d \notin visited /\ Enter(d, outer)
     \/ Report(d)
     \/ /\ d \in visited \ Range(path)
        /\ calls' = outer
        /\ UNCHANGED <<visited, path, cycles>>
  /\ UNCHANGED <<input, kahn, pc, ordered, remaining>>

\* dfs returns false.
Leave ==
  /\ pc = "cycles" /\ calls # <<>>
  /\ Top.todo = {}
  /\ path' = SubSeq(path, 1, Len(path) - 1)
  /\ calls' = Outer
  /\ UNCHANGED <<input, kahn, visited, cycles, pc, ordered, remaining>>

\* Mutant of AppendRemaining: what is on a cycle is dropped.
AppendNothing ==
  /\ pc = "cycles" /\ calls = <<>>
  /\ remaining \subseteq visited
  /\ pc' = "done"
  /\ UNCHANGED <<input, kahn, search, remaining, ordered>>

\* The remaining features follow the others, in the order they came in.
AppendRemaining ==
  /\ pc = "cycles" /\ calls = <<>>
  /\ remaining \subseteq visited
  /\ \E s \in [1 .. Cardinality(remaining) -> remaining] :
       /\ \A i, j \in DOMAIN s : i < j => s[i] < s[j]
       /\ ordered' = ordered \o s
  /\ pc' = "done"
  /\ UNCHANGED <<input, kahn, search, remaining>>

-----------------------------------------------------------------------------
Next ==
  \/ \E f \in Feature : TakeNext(f) \/ NextRoot(f)
  \/ \E d \in Id : Look(d)
  \/ FindRemaining \/ Leave \/ AppendRemaining

Spec == Init /\ [][Next]_vars

\* The function runs to its end.
FairSpec == Spec /\ WF_vars(Next)

-----------------------------------------------------------------------------
(***************************************************************************)
(* Properties.                                                             *)
(***************************************************************************)
\* No feature is ordered before one that it depends on, unless a cycle keeps
\* the two from being ordered.
DependenciesFirst ==
  \A i \in DOMAIN ordered : ordered[i] \notin remaining =>
    Known(ordered[i]) \subseteq {ordered[j] : j \in 1 .. i - 1}

\* Of the features that could come next it is one of the highest priority that
\* does.
MostUrgentFirst ==
  \A i, j \in DOMAIN ordered :
    /\ i < j
    /\ ordered[j] \notin remaining
    /\ Known(ordered[j]) \subseteq {ordered[k] : k \in 1 .. i - 1}
    => priority[ordered[i]] <= priority[ordered[j]]

\* Whatever f needs, directly or through others: what is in every set that
\* holds its dependencies and the dependencies of its members.
Needs(f) ==
  {g \in Feature : \A S \in SUBSET Feature :
     Known(f) \subseteq S /\ (\A h \in S : Known(h) \subseteq S) => g \in S}

\* Only features on a cycle, and those that need one of these, are left over.
OnlyCyclesRemain ==
  pc # "kahn" =>
    remaining = {f \in Feature : \E g \in Needs(f) \cup {f} : g \in Needs(g)}

IsCycle(c) ==
  /\ \A i \in 1 .. Len(c) - 1 : c[i + 1] \in deps[c[i]]
  /\ c[1] \in deps[c[Len(c)]]

\* Cycles are reported if there are any, and the first report is one.
CycleReported ==
  pc = "done" =>
    /\ remaining = {} <=> cycles = <<>>
    /\ cycles # <<>> => IsCycle(cycles[1])

\* What is left over is explained: it hangs on cycles, and one is reported.
LeftOverExplained == OnlyCyclesRemain /\ CycleReported

\* "Groups of IDs forming cycles": all of them do.  The code does not see to it.
AllReportsAreCycles == \A i \in DOMAIN cycles : IsCycle(cycles[i])

\* The loops and the recursion end, on every graph, and the result then holds
\* every feature exactly once.
Terminates == <>(pc = "done" /\ Taken = Feature /\ Len(ordered) = N)
=============================================================================
