-------------------------- MODULE IssueValidation ---------------------------
(***************************************************************************)
(* The validation of GitHub issues (apps/server/src/routes/github/routes): *)
(* the slots of validation-common.ts, the background task and its timeout  *)
(* in validate-issue.ts, stops, the hourly cleanup, and the stored result  *)
(* with its "viewed" mark (apps/server/src/lib/validation-storage.ts).     *)
(*                                                                         *)
(* Suggestions, spec generation and backlog plans claim, stop and clear    *)
(* their slots in the same way, without a timeout.                         *)
(***************************************************************************)
EXTENDS FiniteSets

CONSTANTS
  Issue,
  Task,         \* validations, each run once
  Demands,      \* the kinds of demand that are checked, see below
  NoTask

(***************************************************************************)
(* What may happen beside requests and failures:                           *)
(*   stop   POST /validation-stop                                          *)
(*   view   POST /validation-mark-viewed and /validation-delete            *)
(*   deaf   providers that go on after an abort, perhaps for ever          *)
(***************************************************************************)
AllDemands == {"stop", "view", "deaf"}

ASSUME DemandAssumption == Demands \subseteq SUBSET AllDemands
ASSUME NoTaskAssumption == NoTask \notin Task

VARIABLES
  demand,       \* rigid: the demand of this behaviour
  slot,         \* validationStatusMap
  task,         \* where each validation is
  about,        \* its issue
  cut,          \* the validations that have been aborted
  timer,        \* the validations whose timeout is set
  old,          \* the validations that began more than an hour ago
  stored,       \* the result on disk: the validation it is from
  viewing       \* what a request to mark the result as viewed has read

ValidationVars == <<demand, slot, task, about, cut, timer, old, stored, viewing>>

Live == {"streaming", "storing", "clearing"}
TaskOrNone == Task \cup {NoTask}

\* Every state variable has its type.
ValidationTypeOK ==
  /\ demand \in Demands
  /\ slot \in [Issue -> TaskOrNone]
  /\ task \in [Task -> {"new", "over"} \cup Live]
  /\ about \in [Task -> Issue]
  /\ cut \in SUBSET Task /\ timer \in SUBSET Task /\ old \in SUBSET Task
  /\ stored \in [Issue -> TaskOrNone]
  /\ viewing \in [Issue -> TaskOrNone]

ValidationInit ==
  /\ demand \in Demands
  /\ slot = [i \in Issue |-> NoTask]
  /\ task = [t \in Task |-> "new"]
  /\ about \in [Task -> Issue]
  /\ cut = {} /\ timer = {} /\ old = {}
  /\ stored = [i \in Issue |-> NoTask]
  /\ viewing = [i \in Issue |-> NoTask]

-----------------------------------------------------------------------------
SetTask(t, p) == task' = [task EXCEPT ![t] = p]

\* Mutant of ValidateIssue: the slot is set without a look at it, as
\* setValidationRunning does.
ValidateUnchecked(t) ==
  /\ task[t] = "new"
  /\ slot' = [slot EXCEPT ![about[t]] = t]
  /\ SetTask(t, "streaming")
  /\ timer' = timer \cup {t}
  /\ UNCHANGED <<demand, about, cut, old, stored, viewing>>

\* POST /validate-issue: trySetValidationRunning, then runValidation in the
\* background, with a timeout.  A request that finds the slot taken does nothing.
ValidateIssue(t) ==
  /\ task[t] = "new"
  /\ slot[about[t]] = NoTask
  /\ slot' = [slot EXCEPT ![about[t]] = t]
  /\ SetTask(t, "streaming")
  /\ timer' = timer \cup {t}
  /\ UNCHANGED <<demand, about, cut, old, stored, viewing>>

\* The query returns, with a result or without one, or it throws.
QueryEnds(t) ==
  /\ task[t] = "streaming"
  /\ \E next \in {"storing", "clearing"} : SetTask(t, next)
  /\ timer' = timer \ {t}
  /\ UNCHANGED <<demand, slot, about, cut, old, stored, viewing>>

\* writeValidation, which may fail.
StoreResult(t) ==
  /\ task[t] = "storing"
  /\ \/ stored' = [stored EXCEPT ![about[t]] = t]
     \/ UNCHANGED stored
  /\ SetTask(t, "clearing")
  /\ UNCHANGED <<demand, slot, about, cut, timer, old, viewing>>

\* clearValidationStatus, whoever's slot it is.
ClearStatus(t) ==
  /\ task[t] = "clearing"
  /\ slot' = [slot EXCEPT ![about[t]] = NoTask]
  /\ SetTask(t, "over")
  /\ UNCHANGED <<demand, about, cut, timer, old, stored, viewing>>

TimeoutAborts(t) ==
  /\ t \in timer
  /\ cut' = cut \cup {t}
  /\ timer' = timer \ {t}
  /\ UNCHANGED <<demand, slot, task, about, old, stored, viewing>>

\* abortValidation: the task is told, and its slot is free at once.
StopValidation(i) ==
  /\ "stop" \in demand
  /\ slot[i] # NoTask
  /\ cut' = cut \cup {slot[i]}
  /\ slot' = [slot EXCEPT ![i] = NoTask]
  /\ UNCHANGED <<demand, task, about, timer, old, stored, viewing>>

\* Time passes while a provider does not notice that it has been aborted.
HourPasses(t) ==
  /\ "deaf" \in demand
  /\ task[t] = "streaming"
  /\ t \notin timer \cup old
  /\ old' = old \cup {t}
  /\ UNCHANGED <<demand, slot, task, about, cut, timer, stored, viewing>>

\* Mutant of CleanupStale: it aborts, and leaves the entry to the finally.
CleanupOnlyAborts ==
  LET stale == {i \in Issue : slot[i] \in old \ cut} IN
  /\ stale # {}
  /\ cut' = cut \cup {slot[i] : i \in stale}
  /\ UNCHANGED <<demand, slot, task, about, timer, old, stored, viewing>>

\* cleanupStaleValidations, every hour.
CleanupStale ==
  LET stale == {i \in Issue : slot[i] \in old} IN
  /\ stale # {}
  /\ cut' = cut \cup {slot[i] : i \in stale}
  /\ slot' = [i \in Issue |-> IF i \in stale THEN NoTask ELSE slot[i]]
  /\ UNCHANGED <<demand, task, about, timer, old, stored, viewing>>

\* markValidationViewed reads the result,
ReadForView(i) ==
  /\ "view" \in demand
  /\ viewing[i] = NoTask
  /\ viewing' = [viewing EXCEPT ![i] = stored[i]]
  /\ UNCHANGED <<demand, slot, task, about, cut, timer, old, stored>>

\* and writes it back with the time of viewing.
WriteViewed(i) ==
  /\ viewing[i] # NoTask
  /\ stored' = [stored EXCEPT ![i] = viewing[i]]
  /\ viewing' = [viewing EXCEPT ![i] = NoTask]
  /\ UNCHANGED <<demand, slot, task, about, cut, timer, old>>

\* deleteValidation.
DeleteValidation(i) ==
  /\ "view" \in demand
  /\ stored[i] # NoTask
  /\ stored' = [stored EXCEPT ![i] = NoTask]
  /\ UNCHANGED <<demand, slot, task, about, cut, timer, old, viewing>>

ValidationNext ==
  \/ \E t \in Task :
       \/ ValidateIssue(t) \/ QueryEnds(t) \/ StoreResult(t) \/ ClearStatus(t)
       \/ TimeoutAborts(t) \/ HourPasses(t)
  \/ \E i \in Issue :
       StopValidation(i) \/ ReadForView(i) \/ WriteViewed(i) \/ DeleteValidation(i)
  \/ CleanupStale

(***************************************************************************)
(* Timers and continuations run, time passes, and files are written.  Of   *)
(* providers it is only assumed that they end what has been aborted, and   *)
(* of deaf ones not even that.                                             *)
(***************************************************************************)
AbortNoticed(t) == "deaf" \notin demand /\ t \in cut /\ QueryEnds(t)

ValidationFairness ==
  /\ WF_ValidationVars(CleanupStale)
  /\ \A t \in Task :
       /\ WF_ValidationVars(TimeoutAborts(t)) /\ WF_ValidationVars(HourPasses(t))
       /\ WF_ValidationVars(StoreResult(t)) /\ WF_ValidationVars(ClearStatus(t))
       /\ WF_ValidationVars(AbortNoticed(t))

ValidationSpec ==
  ValidationInit /\ [][ValidationNext]_ValidationVars /\ ValidationFairness

-----------------------------------------------------------------------------
(***************************************************************************)
(* Properties.                                                             *)
(***************************************************************************)
\* "Atomically try to claim": as long as nobody stops a validation and every
\* provider notices an abort within the hour, a validation that is under way
\* has its issue's slot, so that no second one is.
SlotHeld ==
  demand \cap {"stop", "deaf"} = {} =>
    \A t \in Task : task[t] \in Live => slot[about[t]] = t

\* "Stale validation cleanup ... to prevent memory leaks from crashed
\* validations": whoever has a slot gives it up, even if its provider never
\* answers; the timeout, the finally and the cleanup see to it together.
SlotFreed ==
  \A i \in Issue, t \in Task : slot[i] = t ~> slot[i] # t

\* The slot of a validation is cleared by its own finally, a stop or the
\* cleanup.  The code does not meet it: the finally of one that was stopped
\* clears the slot of the next.
ClearsOwn ==
  [][\A t \in Task : task[t] = "clearing" /\ task'[t] = "over" =>
       slot[about[t]] \in {t, NoTask}]_ValidationVars

\* The result on disk is not replaced by an older one.  The code does not meet
\* it: to mark the old result as viewed writes it over the new one.
NewestResultStays ==
  [][\A i \in Issue : viewing[i] # NoTask /\ viewing'[i] = NoTask =>
       stored'[i] = stored[i]]_ValidationVars
=============================================================================
