---------------------------- MODULE PlanApproval ----------------------------
(***************************************************************************)
(* The approval of a generated plan: the wait of runAgent, the map         *)
(* pendingApprovals of AutoModeService, its 30-minute timers, and the      *)
(* calls of resolvePlanApproval and stopFeature that settle it.            *)
(*                                                                         *)
(* The map is keyed by feature and entries of different features never     *)
(* meet, so the module is about one feature.  Several runs of it may be    *)
(* live (a stopped run winds down beside its successor), and each run may  *)
(* register several times, once for each version of the plan: a            *)
(* registration is a pair of a run and a version.                          *)
(***************************************************************************)
EXTENDS Naturals

CONSTANTS
  Run,          \* activations of executeFeature for the feature
  Call,         \* concurrent requests to approve or reject the plan
  MaxVersion,   \* bound: how many versions of a plan a run may generate
  NoRun

ASSUME NoRunAssumption == NoRun \notin Run
ASSUME MaxVersionAssumption == MaxVersion \in Nat \ {0}

VARIABLES
  entry,      \* the run runningFeatures has for the feature, or NoRun
  pending,    \* the registration pendingApprovals has, or NoReg
  planSpec,   \* the status in the feature's planSpec, on disk
  run,        \* each run: where it is and how its promise stands
  call        \* each request: where it is and what it holds

vars == <<entry, pending, planSpec, run, call>>

Version == 1 .. MaxVersion
Reg == Run \X Version
NoReg == <<NoRun, 0>>

PlanStatus == {"pending", "generating", "generated", "approved", "rejected"}
Decision == {"approve", "revise", "cancel"}

\* "reject" stands for the errors of the timer and of cancelPlanApproval.
Promise == {"none", "pending", "reject"} \cup Decision

RunPC == {"idle", "planning", "saving", "saved", "waiting", "approved",
          "regenerate", "implementing"}
CallPC == {"idle", "updating", "updated", "loading", "approving", "starting",
           "rejecting"}

RunState == [pc : RunPC, version : Version, promise : Promise,
             timer : BOOLEAN, aborted : BOOLEAN]
IdleRun == [pc |-> "idle", version |-> 1, promise |-> "none",
            timer |-> FALSE, aborted |-> FALSE]

CallState == [pc : CallPC, reg : Reg \cup {NoReg}, decision : Decision]
IdleCall == [pc |-> "idle", reg |-> NoReg, decision |-> "approve"]

\* Every state variable has its type.
TypeOK ==
  /\ entry \in Run \cup {NoRun}
  /\ pending \in Reg \cup {NoReg}
  /\ planSpec \in PlanStatus
  /\ run \in [Run -> RunState]
  /\ call \in [Call -> CallState]

Init ==
  /\ entry = NoRun
  /\ pending = NoReg
  /\ planSpec = "pending"
  /\ run = [r \in Run |-> IdleRun]
  /\ call = [c \in Call |-> IdleCall]

-----------------------------------------------------------------------------
(***************************************************************************)
(* Building blocks.                                                        *)
(***************************************************************************)
\* Mutant of Settle: the timer of a settled promise goes on.
SettleKeepsTimer(runs, reg, outcome) ==
  IF reg # NoReg /\ runs[reg[1]].version = reg[2]
                 /\ runs[reg[1]].promise = "pending"
    THEN [runs EXCEPT ![reg[1]].promise = outcome]
    ELSE runs

\* Settling the promise of a registration clears its timer; a promise that is
\* already settled, or was forgotten by a later version, takes no notice.
Settle(runs, reg, outcome) ==
  IF reg # NoReg /\ runs[reg[1]].version = reg[2]
                 /\ runs[reg[1]].promise = "pending"
    THEN [runs EXCEPT ![reg[1]].promise = outcome, ![reg[1]].timer = FALSE]
    ELSE runs

\* The finally block of executeFeature.  A request that still holds the
\* promise of the run will settle a promise that nobody awaits any more.
End(r) ==
  /\ run' = [run EXCEPT ![r] = IdleRun]
  /\ entry' = NoRun
  /\ call' = [c \in Call |-> IF call[c].reg[1] = r
                              THEN [call[c] EXCEPT !.reg = NoReg] ELSE call[c]]

-----------------------------------------------------------------------------
(***************************************************************************)
(* Mutants.                                                                *)
(***************************************************************************)
\* The timer looks for nothing and just rejects.
TimeoutKeepsEntry(r) ==
  /\ run[r].timer
  /\ run' = [run EXCEPT ![r].timer = FALSE, ![r].promise = "reject"]
  /\ UNCHANGED <<entry, pending, planSpec, call>>

\* The answer goes to whatever is pending after the await.
AnswerCurrent(c) ==
  /\ call[c].pc = "updated"
  /\ run' = Settle(run, pending, call[c].decision)
  /\ pending' = NoReg
  /\ call' = [call EXCEPT ![c] = IdleCall]
  /\ UNCHANGED <<entry, planSpec>>

\* A wait without a timer.
WaitWithoutTimer(r) ==
  /\ run[r].pc = "saved"
  /\ pending' = <<r, run[r].version>>
  /\ run' = [run EXCEPT ![r].pc = "waiting", ![r].promise = "pending"]
  /\ UNCHANGED <<entry, planSpec, call>>

-----------------------------------------------------------------------------
(***************************************************************************)
(* The run: executeFeature as far as the plan, and runAgent.               *)
(***************************************************************************)
Start(r) ==
  /\ run[r].pc = "idle"
  /\ entry = NoRun
  /\ entry' = r
  /\ run' = [run EXCEPT ![r].pc = "planning"]
  /\ UNCHANGED <<pending, planSpec, call>>

\* The stream contained [SPEC_GENERATED]; the plan is being saved.
PlanReady(r) ==
  /\ run[r].pc = "planning"
  /\ run' = [run EXCEPT ![r].pc = "saving"]
  /\ UNCHANGED <<entry, pending, planSpec, call>>

\* updateFeaturePlanSpec has written the file, but not returned to runAgent.
Save(r) ==
  /\ run[r].pc = "saving"
  /\ planSpec' = "generated"
  /\ run' = [run EXCEPT ![r].pc = "saved"]
  /\ UNCHANGED <<entry, pending, call>>

\* waitForPlanApproval registers, over any other registration, and arms the
\* timer.  Nobody looks at the abort signal.
WaitForPlanApproval(r) ==
  /\ run[r].pc = "saved"
  /\ pending' = <<r, run[r].version>>
  /\ run' = [run EXCEPT ![r].pc = "waiting", ![r].promise = "pending",
                        ![r].timer = TRUE]
  /\ UNCHANGED <<entry, planSpec, call>>

\* requirePlanApproval is off; a run that has waited once has it on.
AutoApprove(r) ==
  /\ run[r].pc = "saved"
  /\ run[r].version = 1
  /\ run' = [run EXCEPT ![r].pc = "approved"]
  /\ UNCHANGED <<entry, pending, planSpec, call>>

\* The continuations of `await approvalPromise`.
Approved(r) ==
  /\ run[r].pc = "waiting"
  /\ run[r].promise = "approve"
  /\ run' = [run EXCEPT ![r].pc = "approved", ![r].promise = "none"]
  /\ UNCHANGED <<entry, pending, planSpec, call>>

RevisionWanted(r) ==
  /\ run[r].pc = "waiting"
  /\ run[r].promise = "revise"
  /\ run[r].version < MaxVersion
  /\ run' = [run EXCEPT ![r].pc = "regenerate", ![r].promise = "none",
                        ![r].version = run[r].version + 1]
  /\ UNCHANGED <<entry, pending, planSpec, call>>

\* 'Plan cancelled by user', the timeout or the stop: the run ends.
Cancelled(r) ==
  /\ run[r].pc = "waiting"
  /\ run[r].promise \in {"cancel", "reject"}
  /\ End(r)
  /\ UNCHANGED <<pending, planSpec>>

\* planSpec 'generating', then the stream of the revision.
Regenerate(r) ==
  /\ run[r].pc = "regenerate"
  /\ planSpec' = "generating"
  /\ run' = [run EXCEPT ![r].pc = "planning"]
  /\ UNCHANGED <<entry, pending, call>>

SaveApproved(r) ==
  /\ run[r].pc = "approved"
  /\ planSpec' = "approved"
  /\ run' = [run EXCEPT ![r].pc = "implementing"]
  /\ UNCHANGED <<entry, pending, call>>

\* A stream ended, failed or noticed the abort signal, and with it the run.
StreamEnds(r) ==
  /\ run[r].pc \in {"planning", "implementing"}
  /\ End(r)
  /\ UNCHANGED <<pending, planSpec>>

\* Thirty minutes: whatever registration the feature has is deleted, but it
\* is its own promise that the timer rejects.
Timeout(r) ==
  /\ run[r].timer
  /\ \/ /\ pending # NoReg
        /\ pending' = NoReg
        /\ run' = [run EXCEPT ![r].timer = FALSE, ![r].promise = "reject"]
     \/ /\ pending = NoReg
        /\ run' = [run EXCEPT ![r].timer = FALSE]
        /\ UNCHANGED pending
  /\ UNCHANGED <<entry, planSpec, call>>

-----------------------------------------------------------------------------
(***************************************************************************)
(* The users: stopFeature and resolvePlanApproval.                         *)
(***************************************************************************)
\* cancelPlanApproval, abort, and the removal of the entry, in one step.
Stop ==
  /\ entry # NoRun
  /\ run' = [Settle(run, pending, "reject") EXCEPT ![entry].aborted = TRUE]
  /\ pending' = NoReg
  /\ entry' = NoRun
  /\ UNCHANGED <<planSpec, call>>

\* The request finds a registration and updates the planSpec first, or finds
\* none and loads the feature to see if a plan survived a restart.
Resolve(c, d) ==
  /\ call[c].pc = "idle"
  /\ d = "revise" => pending[2] < MaxVersion
  /\ call' = [call EXCEPT ![c] =
       [pc |-> IF pending # NoReg THEN "updating" ELSE "loading",
        reg |-> pending, decision |-> d]]
  /\ UNCHANGED <<entry, pending, planSpec, run>>

UpdatePlanSpec(c) ==
  /\ call[c].pc = "updating"
  /\ planSpec' = IF call[c].decision = "approve" THEN "approved" ELSE "rejected"
  /\ call' = [call EXCEPT ![c].pc = "updated"]
  /\ UNCHANGED <<entry, pending, run>>

\* The promise held since the request came in is resolved, and whatever the
\* map has for the feature by now is deleted.
Answer(c) ==
  /\ call[c].pc = "updated"
  /\ run' = Settle(run, call[c].reg, call[c].decision)
  /\ pending' = NoReg
  /\ call' = [call EXCEPT ![c] = IdleCall]
  /\ UNCHANGED <<entry, planSpec>>

\* Recovery: only a plan whose status is 'generated' can be decided on.
Recover(c) ==
  /\ call[c].pc = "loading"
  /\ call' = [call EXCEPT ![c] =
       IF planSpec # "generated" THEN IdleCall
       ELSE [call[c] EXCEPT !.pc = IF call[c].decision = "approve"
                                     THEN "approving" ELSE "rejecting"]]
  /\ UNCHANGED <<entry, pending, planSpec, run>>

RecoverApproved(c) ==
  /\ call[c].pc = "approving"
  /\ planSpec' = "approved"
  /\ call' = [call EXCEPT ![c].pc = "starting"]
  /\ UNCHANGED <<entry, pending, run>>

\* executeFeature is called with a continuation prompt, which skips the
\* planning, and is not awaited: if it throws 'already running', nobody is told.
StartRecovered(c) ==
  /\ call[c].pc = "starting"
  /\ call' = [call EXCEPT ![c] = IdleCall]
  /\ \/ \E r \in Run :
          /\ entry = NoRun
          /\ run[r].pc = "idle"
          /\ entry' = r
          /\ run' = [run EXCEPT ![r].pc = "implementing"]
     \/ /\ entry # NoRun
        /\ UNCHANGED <<entry, run>>
  /\ UNCHANGED <<pending, planSpec>>

RecoverRejected(c) ==
  /\ call[c].pc = "rejecting"
  /\ planSpec' = "rejected"
  /\ call' = [call EXCEPT ![c] = IdleCall]
  /\ UNCHANGED <<entry, pending, run>>

\* The server crashes: maps, promises, timers and requests are gone.
Crash ==
  /\ entry' = NoRun
  /\ pending' = NoReg
  /\ run' = [r \in Run |-> IdleRun]
  /\ call' = [c \in Call |-> IdleCall]
  /\ UNCHANGED planSpec

-----------------------------------------------------------------------------
Continue(r) ==
  \/ WaitForPlanApproval(r) \/ AutoApprove(r)
  \/ Approved(r) \/ RevisionWanted(r) \/ Cancelled(r)

Write(r) == Save(r) \/ Regenerate(r) \/ SaveApproved(r)

Next ==
  \/ \E r \in Run :
       Start(r) \/ PlanReady(r) \/ Continue(r) \/ Write(r) \/ StreamEnds(r) \/ Timeout(r)
  \/ \E c \in Call, d \in Decision : Resolve(c, d)
  \/ \E c \in Call :
       \/ UpdatePlanSpec(c) \/ Answer(c)
       \/ Recover(c) \/ RecoverApproved(c) \/ StartRecovered(c) \/ RecoverRejected(c)
  \/ Stop
  \/ Crash

Spec == Init /\ [][Next]_vars

(***************************************************************************)
(* Fairness: the event loop runs pending continuations, file writes return *)
(* and timers fire.  Streams need not end and users need not answer.       *)
(***************************************************************************)
Fairness ==
  /\ \A r \in Run : WF_vars(Continue(r)) /\ WF_vars(Write(r)) /\ WF_vars(Timeout(r))
  /\ \A c \in Call : WF_vars(UpdatePlanSpec(c)) /\ WF_vars(Answer(c))

FairSpec == Spec /\ Fairness

-----------------------------------------------------------------------------
(***************************************************************************)
(* Properties.                                                             *)
(***************************************************************************)
\* What the map shows as pending can really be answered: the run waits for
\* that very version, its promise is open and its timer is running.
PendingIsWaiting ==
  pending # NoReg =>
    LET s == run[pending[1]] IN
    /\ s.pc = "waiting"
    /\ s.version = pending[2]
    /\ s.promise = "pending"
    /\ s.timer

\* A timer runs only while its own promise is open: none is left behind by an
\* answer, a stop or the end of a run, to fire into a later wait.
TimersOfOpenPromises ==
  \A r \in Run : run[r].timer => run[r].pc = "waiting" /\ run[r].promise = "pending"

\* The map, the promises and the timers tell the same story, whoever answers,
\* stops, times out or replaces a registration in between.
ApprovalsConsistent == PendingIsWaiting /\ TimersOfOpenPromises

\* A run goes ahead only on an approval given for the version it is showing:
\* an answer to an earlier version, or to another run, never counts for it.
ApprovedAsShown ==
  [][\A r \in Run :
       run[r].promise # "approve" /\ run'[r].promise = "approve" =>
         \E c \in Call : /\ call[c].pc = "updated"
                         /\ call[c].decision = "approve"
                         /\ call[c].reg = <<r, run[r].version>>]_vars

\* waitForPlanApproval "times out after 30 minutes to prevent indefinite
\* memory retention": no wait lasts forever, even if nobody ever answers.
NoEternalWait ==
  \A r \in Run : run[r].pc = "waiting" ~> run[r].pc # "waiting"

\* stopFeature cancels the pending approval of what it stops.
StoppedNeverWaits ==
  \A r \in Run :
    run[r].aborted /\ run[r].pc = "waiting" => run[r].promise # "pending"

\* A request that recovers the approval of a plan sees to it that a run goes
\* on with it.
ApprovalImplemented ==
  [][\A c \in Call :
       call[c].pc = "starting" /\ call'[c].pc = "idle" /\ run' # [r \in Run |-> IdleRun]
         => \E r \in Run : run'[r].pc = "implementing"]_vars
=============================================================================
