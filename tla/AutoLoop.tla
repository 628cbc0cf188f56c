------------------------------ MODULE AutoLoop ------------------------------
(***************************************************************************)
(* The auto mode loop of AutoModeService: startAutoLoop, runAutoLoop,      *)
(* stopAutoLoop and the tracking of failures                               *)
(* (apps/server/src/services/auto-mode-service.ts).                        *)
(*                                                                         *)
(* A loop is one activation of runAutoLoop.  They share autoLoopRunning:   *)
(* a loop that sleeps through a stop and a new start goes on beside the    *)
(* one that the start began.  Of a run of a feature only what a loop can   *)
(* see of it is kept: its entry in runningFeatures, the status it writes,  *)
(* and how it ends.  Module AutoMode has the rest, and stopFeature.        *)
(*                                                                         *)
(* Features are numbered by priority, then as the directory lists them:    *)
(* the order in which resolveDependencies puts those that are ready.       *)
(***************************************************************************)
EXTENDS Naturals, FiniteSets

CONSTANTS
  N,                  \* number of features
  Loop,               \* activations of runAutoLoop that may be live at once
  MaxConcurrency, Threshold,
  SkipVerification,   \* the setting skipVerificationInAutoMode
  Manual,             \* the features with skipTests set
  Graphs,             \* bound: the dependencies the features may have
  ByHand,             \* bound: the features that users execute themselves
  HasContext,         \* bound: the features that may have a context
  MaxResuming         \* bound: the executions of a feature being handed over

Feature == 1 .. N

ASSUME SizeAssumption == N \in Nat
ASSUME LoopAssumption == IsFiniteSet(Loop)
ASSUME LimitAssumption == MaxConcurrency \in Nat \ {0} /\ Threshold \in Nat \ {0}
ASSUME SettingAssumption == SkipVerification \in BOOLEAN
ASSUME GraphsAssumption == Graphs \subseteq [Feature -> SUBSET Feature]
ASSUME ResumingAssumption == MaxResuming \in Nat

VARIABLES
  deps, status,   \* feature.json
  entry,      \* runningFeatures: no entry, one with isAutoMode, or another one
  phase,      \* how far the execution with the entry has come
  resuming,   \* executions that gave up their entry to resume from a context
  running,    \* autoLoopRunning
  paused,     \* pausedDueToFailures
  failures,   \* the length of consecutiveFailures, Threshold if it is longer
  pc, seen,   \* each loop, and what it has read of the features
  late,       \* history: features begun by loops since the last stop
  finished    \* history: features that have been verified

loops == <<pc, seen>>
control == <<running, paused, failures>>
features == <<status, entry, phase, resuming>>
history == <<late, finished>>
vars == <<deps, loops, control, features, history>>

Status == {"backlog", "in_progress", "waiting_approval", "verified"}
Phase == {"none", "start", "resumed", "agent", "failed", "learning"}

Registered == {f \in Feature : entry[f] # "none"}
ByLoop == {f \in Feature : entry[f] = "auto"}
Loading == {l \in Loop : pc[l] = "load"}

\* Every state variable has its type; a run has an entry until it ends.
TypeOK ==
  /\ deps \in [Feature -> SUBSET Feature]
  /\ status \in [Feature -> Status]
  /\ entry \in [Feature -> {"none", "auto", "manual"}]
  /\ phase \in [Feature -> Phase]
  /\ \A f \in Feature : phase[f] = "none" <=> entry[f] = "none"
  /\ resuming \in [Feature -> Nat]
  /\ running \in BOOLEAN /\ paused \in BOOLEAN
  /\ failures \in 0 .. Threshold
  /\ pc \in [Loop -> {"idle", "wait", "load"}]
  /\ seen \in [Loop -> [Feature -> {"unread", "pending", "done", "other"}]]
  /\ late \in Nat
  /\ finished \in SUBSET Feature

Unread == [f \in Feature |-> "unread"]

Init ==
  /\ deps \in Graphs
  /\ status = [f \in Feature |-> "backlog"]
  /\ entry = [f \in Feature |-> "none"]
  /\ phase = [f \in Feature |-> "none"]
  /\ resuming = [f \in Feature |-> 0]
  /\ running = FALSE /\ paused = FALSE /\ failures = 0
  /\ pc = [l \in Loop |-> "idle"]
  /\ seen = [l \in Loop |-> Unread]
  /\ late = 0 /\ finished = {}

-----------------------------------------------------------------------------
(***************************************************************************)
(* The loop.                                                               *)
(***************************************************************************)
\* startAutoLoop, as far as its saveExecutionState; a stop may come before the
\* loop begins to run.
Start(l) ==
  /\ ~running
  /\ pc[l] = "idle"
  /\ running' = TRUE /\ paused' = FALSE /\ failures' = 0
  /\ pc' = [pc EXCEPT ![l] = "wait"]
  /\ late' = 0
  /\ UNCHANGED <<deps, seen, features, finished>>

\* stopAutoLoop.
Stop ==
  /\ running
  /\ running' = FALSE
  /\ late' = 0
  /\ UNCHANGED <<deps, loops, paused, failures, features, finished>>

\* Mutant of Turn: the loop does not look whether it has been stopped.
TurnUnstoppable(l) ==
  /\ pc[l] = "wait"
  /\ Cardinality(Registered) < MaxConcurrency
  /\ pc' = [pc EXCEPT ![l] = "load"]
  /\ seen' = [seen EXCEPT ![l] = Unread]
  /\ UNCHANGED <<deps, control, features, history>>

\* Mutant of Turn: off by one.
TurnOneMore(l) ==
  /\ pc[l] = "wait"
  /\ \/ ~running /\ pc' = [pc EXCEPT ![l] = "idle"] /\ UNCHANGED seen
     \/ /\ running /\ Cardinality(Registered) <= MaxConcurrency
        /\ pc' = [pc EXCEPT ![l] = "load"]
        /\ seen' = [seen EXCEPT ![l] = Unread]
  /\ UNCHANGED <<deps, control, features, history>>

\* Mutant of Turn: off by one in the other direction.
TurnOneLess(l) ==
  /\ pc[l] = "wait"
  /\ \/ ~running /\ pc' = [pc EXCEPT ![l] = "idle"] /\ UNCHANGED seen
     \/ /\ running /\ Cardinality(Registered) + 1 < MaxConcurrency
        /\ pc' = [pc EXCEPT ![l] = "load"]
        /\ seen' = [seen EXCEPT ![l] = Unread]
  /\ UNCHANGED <<deps, control, features, history>>

\* The head of the while loop, after a sleep, and the capacity check.  Without
\* capacity the loop sleeps again.
Turn(l) ==
  /\ pc[l] = "wait"
  /\ \/ ~running /\ pc' = [pc EXCEPT ![l] = "idle"] /\ UNCHANGED seen
     \/ /\ running /\ Cardinality(Registered) < MaxConcurrency
        /\ pc' = [pc EXCEPT ![l] = "load"]
        /\ seen' = [seen EXCEPT ![l] = Unread]
  /\ UNCHANGED <<deps, control, features, history>>

ClassOf(s) == CASE s = "backlog" -> "pending"
                [] s = "verified" -> "done"
                [] OTHER -> "other"

\* loadPendingFeatures reads one feature.json.
Read(l, f) ==
  /\ pc[l] = "load" /\ seen[l][f] = "unread"
  /\ seen' = [seen EXCEPT ![l][f] = ClassOf(status[f])]
  /\ UNCHANGED <<deps, pc, control, features, history>>

\* Mutant of Ready: the dependencies are not looked at.
ReadyAnyway(l) == {f \in Feature : seen[l][f] = "pending"}

\* The pending features whose dependencies are satisfied in what l has read.
Ready(l) ==
  {f \in Feature : /\ seen[l][f] = "pending"
                   /\ \A d \in deps[f] : SkipVerification \/ seen[l][d] = "done"}

\* The first of them that is not running is registered before executeFeature
\* awaits anything; autoLoopRunning is not looked at again.
Pick(l) ==
  LET free == Ready(l) \ Registered IN
  /\ pc[l] = "load" /\ \A f \in Feature : seen[l][f] # "unread"
  /\ pc' = [pc EXCEPT ![l] = "wait"]
  /\ seen' = [seen EXCEPT ![l] = Unread]
  /\ \/ free = {} /\ UNCHANGED <<features, late>>
     \/ \E f \in free :
          /\ \A g \in free : f <= g
          /\ entry' = [entry EXCEPT ![f] = "auto"]
          /\ phase' = [phase EXCEPT ![f] = "start"]
          /\ late' = IF running THEN late ELSE late + 1
          /\ UNCHANGED <<status, resuming>>
  /\ UNCHANGED <<deps, control, finished>>

-----------------------------------------------------------------------------
(***************************************************************************)
(* A run of a feature, as the loops see it.                                *)
(***************************************************************************)
Goto(f, p) == phase' = [phase EXCEPT ![f] = p]

Leave(f) ==
  /\ entry' = [entry EXCEPT ![f] = "none"]
  /\ phase' = [phase EXCEPT ![f] = "none"]

SetStatus(f, s) == status' = [status EXCEPT ![f] = s]

\* A user executes a feature, whatever its status.
ExecuteByHand(f) ==
  /\ f \in ByHand /\ entry[f] = "none"
  /\ entry' = [entry EXCEPT ![f] = "manual"]
  /\ Goto(f, "start")
  /\ UNCHANGED <<deps, loops, control, status, resuming, history>>

\* There is a context: the entry is removed and resumeFeature called.
HandOver(f) ==
  /\ phase[f] = "start" /\ f \in HasContext /\ resuming[f] < MaxResuming
  /\ Leave(f)
  /\ resuming' = [resuming EXCEPT ![f] = @ + 1]
  /\ UNCHANGED <<deps, loops, control, status, history>>

\* resumeFeature has read the context and calls executeFeature with it, which
\* throws if the feature has an entry by now.
Resume(f) ==
  /\ resuming[f] > 0
  /\ resuming' = [resuming EXCEPT ![f] = @ - 1]
  /\ IF entry[f] # "none"
     THEN UNCHANGED <<entry, phase>>
     ELSE entry' = [entry EXCEPT ![f] = "manual"] /\ Goto(f, "resumed")
  /\ UNCHANGED <<deps, loops, control, status, history>>

\* The feature is in progress and its agent at work.
Work(f) ==
  /\ phase[f] \in {"start", "resumed"}
  /\ Goto(f, "agent") /\ SetStatus(f, "in_progress")
  /\ UNCHANGED <<deps, loops, control, entry, resuming, history>>

\* Anything throws: the feature goes back to the backlog.
Fail(f) ==
  /\ phase[f] \in {"start", "resumed", "agent"}
  /\ Goto(f, "failed") /\ SetStatus(f, "backlog")
  /\ UNCHANGED <<deps, loops, control, entry, resuming, history>>

\* Mutant of TrackFailure: off by one.
TrackFailureLate(f) ==
  /\ phase[f] = "failed"
  /\ Leave(f)
  /\ \E recent \in 0 .. failures, quota \in BOOLEAN :
       LET count == IF recent = Threshold THEN Threshold ELSE recent + 1
           pauses == ~paused /\ (recent = Threshold \/ quota)
       IN /\ failures' = count
          /\ paused' = (paused \/ pauses)
          /\ running' = (running /\ ~pauses)
          /\ late' = IF running /\ pauses THEN 0 ELSE late
  /\ UNCHANGED <<deps, loops, status, resuming, finished>>

\* trackFailureAndCheckPause and signalShouldPause, and the end of the run.  Of
\* the failures so far, recent ones are within the window of time; at the
\* threshold, or when the error is one of quota or rate, the loop is stopped,
\* unless it is paused already.
TrackFailure(f) ==
  /\ phase[f] = "failed"
  /\ Leave(f)
  /\ \E recent \in 0 .. failures, quota \in BOOLEAN :
       LET count == IF recent = Threshold THEN Threshold ELSE recent + 1
           pauses == ~paused /\ (count = Threshold \/ quota)
       IN /\ failures' = count
          /\ paused' = (paused \/ pauses)
          /\ running' = (running /\ ~pauses)
          /\ late' = IF running /\ pauses THEN 0 ELSE late
  /\ UNCHANGED <<deps, loops, status, resuming, finished>>

\* The status is written and recordSuccess called (no step but these two cares
\* which of them comes first); what was learned is recorded next.
Succeed(f) ==
  /\ phase[f] = "agent"
  /\ Goto(f, "learning")
  /\ SetStatus(f, IF f \in Manual THEN "waiting_approval" ELSE "verified")
  /\ finished' = IF f \in Manual THEN finished ELSE finished \cup {f}
  /\ failures' = 0
  /\ UNCHANGED <<deps, loops, running, paused, entry, resuming, late>>

\* The `finally` of a run that did not fail.
End(f) ==
  /\ phase[f] = "learning"
  /\ Leave(f)
  /\ UNCHANGED <<deps, loops, control, status, resuming, history>>

\* A user verifies what waits for approval.
Verify(f) ==
  /\ status[f] = "waiting_approval"
  /\ SetStatus(f, "verified")
  /\ finished' = finished \cup {f}
  /\ UNCHANGED <<deps, loops, control, entry, phase, resuming, late>>

-----------------------------------------------------------------------------
LoopNext(l) == Start(l) \/ Turn(l) \/ Pick(l) \/ \E f \in Feature : Read(l, f)

RunNext(f) ==
  \/ ExecuteByHand(f) \/ HandOver(f) \/ Resume(f) \/ Work(f)
  \/ Fail(f) \/ TrackFailure(f)
  \/ Succeed(f) \/ End(f) \/ Verify(f)

Next == Stop \/ (\E l \in Loop : LoopNext(l)) \/ (\E f \in Feature : RunNext(f))

Spec == Init /\ [][Next]_vars

\* Timers fire and files are read; users need not act and agents not end.
FairSpec ==
  /\ Spec
  /\ \A l \in Loop : WF_vars(Turn(l) \/ Pick(l) \/ \E f \in Feature : Read(l, f))

-----------------------------------------------------------------------------
(***************************************************************************)
(* Properties.                                                             *)
(***************************************************************************)
\* A single loop keeps the limit: the runs that are registered as its own are
\* never more.  Each further loop that lives beside it adds one at most.  A run
\* that was handed over is registered anew, not as the loop's.
CapacityBound ==
  Cardinality(ByLoop) + Cardinality(Loading) <= MaxConcurrency - 1 + Cardinality(Loop)

\* "Pause after 3 consecutive failures": while as many failures are on record
\* the loop is paused, and a paused loop is stopped until a user starts it.
StopsWhenFailing ==
  /\ failures = Threshold => paused
  /\ paused => ~running

\* After a stop each loop begins one more feature at most.
FewLateStarts == ~running => late + Cardinality(Loading) <= Cardinality(Loop)

\* The loop begins a feature only when all that it depends on has been done.
DependenciesDone ==
  [][\A f \in Feature : entry[f] = "none" /\ entry'[f] = "auto" /\ ~SkipVerification
       => deps[f] \subseteq finished]_vars

\* A stopped loop ends, unless a new start revives it.
LoopsEnd == ~running ~> running \/ \A l \in Loop : pc[l] = "idle"

CanStart(f) == status[f] = "backlog" /\ \A d \in deps[f] : status[d] = "verified"

\* The loop does not stay idle while there is something to do.
WorkIsTakenUp ==
  running /\ (\E f \in Feature : CanStart(f))
    ~> ~running \/ Registered # {} \/ \A f \in Feature : ~CanStart(f)

\* "Max concurrent should not exceed 2" (when the loop is started with 2).  The
\* code does not see to it: a run that is handed over gives up its entry for a
\* while, and two loops may pass the capacity check at once.
LimitKept == Cardinality(Registered) <= MaxConcurrency

\* No feature waits for ever for its turn, if there is time and again nothing
\* that runs.  The code does not see to it: a feature that keeps failing comes
\* first again each time.
NoStarvation ==
  []<>(Registered = {}) =>
    \A f \in Feature :
      running /\ CanStart(f) ~> ~running \/ entry[f] # "none" \/ ~CanStart(f)
=============================================================================
