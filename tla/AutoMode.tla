------------------------------ MODULE AutoMode ------------------------------
(***************************************************************************)
(* The execution registry of AutoModeService                               *)
(* (apps/server/src/services/auto-mode-service.ts).                        *)
(*                                                                         *)
(* The service keeps one map, runningFeatures, from a feature id to the    *)
(* run that works on it.  A run is one activation of executeFeature,       *)
(* resumeFeature or followUpFeature: a chain of asynchronous continuations *)
(* on the Node event loop.  Continuations are atomic; what happens between *)
(* two of them, at an await, is any step of any other run or of the user.  *)
(* A value of pc names the await a run is suspended at, and an action is   *)
(* the continuation from there to the next await.                          *)
(*                                                                         *)
(* The statuses (feature.json) and contexts (agent-output.md) of the       *)
(* features and the pipeline configuration are on disk; the registry and   *)
(* the runs are lost in a crash of the server.                             *)
(***************************************************************************)
EXTENDS Naturals

CONSTANTS
  Feature,    \* feature ids
  Run,        \* activations that may be live at once
  Step,       \* pipeline step ids, numbered in execution order
  Manual,     \* the features with skipTests set
  Ops,        \* the operations users (and fate) may invoke
  NoRun, NoFeature

AllOps == {"execute", "resume", "followUp", "stop", "resumeInterrupted",
           "move", "delete", "deleteStep", "crash",
           "abortErrors",   \* errors that speak of an abort nobody asked for
           "lostWrites"}    \* writes of a status that fail or are overwritten

ASSUME StepAssumption == Step \subseteq Nat
ASSUME ManualAssumption == Manual \subseteq Feature
ASSUME OpsAssumption == Ops \subseteq AllOps
ASSUME NoRunAssumption == NoRun \notin Run
ASSUME NoFeatureAssumption == NoFeature \notin Feature

VARIABLES
  registry,   \* runningFeatures: the run whose entry a feature has, or NoRun
  run,        \* the state of each activation
  status,     \* feature.json: the persisted status of each feature
  left,       \* history: features left unfinished, see Leave
  context,    \* does agent-output.md exist?
  pipeline,   \* the steps of the project's pipeline configuration
  resumer     \* the loop of resumeInterruptedFeatures, if it is active

vars == <<registry, run, status, left, context, pipeline, resumer>>
disk == <<status, left, context, pipeline>>

-----------------------------------------------------------------------------
(***************************************************************************)
(* Statuses and the places a run can be suspended at.                      *)
(***************************************************************************)
Plain(s) == [phase |-> s, step |-> 0]
InPipeline(s) == [phase |-> "pipeline", step |-> s]
Backlog == Plain("backlog")
InProgress == Plain("in_progress")
Verified == Plain("verified")
WaitingApproval == Plain("waiting_approval")
Deleted == Plain("deleted")       \* there is no feature.json

Status == {Backlog, InProgress, Verified, WaitingApproval, Deleted}
            \cup {InPipeline(s) : s \in Step}

FinalStatus(f) == IF f \in Manual THEN WaitingApproval ELSE Verified

\* What detectPipelineStatus and resumeInterruptedFeatures take for unfinished.
Unfinished(s) == s = InProgress \/ s.phase = "pipeline"
Interrupted(f) == Unfinished(status[f])

\* Awaits of a run between its registration and its `finally`.
Registered == {"context", "load", "mark", "agent", "steps", "stepAgent",
               "fail", "cleanup"}
\* Awaits of a run that is not (or no longer, or not yet) registered.
Unregistered == {"resume", "plain", "again", "pipeline", "reset", "complete",
                 "followUp"}
PC == Registered \cup Unregistered \cup {"idle"}

Kind == {"execute", "followUp", "pipeline"}

RunState == [pc : PC, feat : Feature \cup {NoFeature}, kind : Kind,
             todo : SUBSET Step, aborted : BOOLEAN]

Idle == [pc |-> "idle", feat |-> NoFeature, kind |-> "execute",
         todo |-> {}, aborted |-> FALSE]

Live(r) == run[r].pc # "idle"
At(r, p) == run[r].pc = p

FirstOf(S) == CHOOSE s \in S : \A t \in S : s <= t

\* detectPipelineStatus: the step to resume and its successors.
StepsFrom(s) == IF s \in pipeline THEN {t \in pipeline : s <= t} ELSE {}

-----------------------------------------------------------------------------
\* A live run works on some feature.
RunsOK ==
  /\ run \in [Run -> RunState]
  /\ \A r \in Run : Live(r) => run[r].feat \in Feature

\* Every state variable has its type.
TypeOK ==
  /\ registry \in [Feature -> Run \cup {NoRun}]
  /\ RunsOK
  /\ status \in [Feature -> Status]
  /\ left \in SUBSET Feature
  /\ context \in [Feature -> BOOLEAN]
  /\ pipeline \in SUBSET Step
  /\ resumer \in [todo : SUBSET Feature, awaits : Run \cup {NoRun}]

Init ==
  /\ registry = [f \in Feature |-> NoRun]
  /\ run = [r \in Run |-> Idle]
  /\ status = [f \in Feature |-> Backlog]
  /\ left = {}
  /\ context = [f \in Feature |-> FALSE]
  /\ pipeline = Step
  /\ resumer = [todo |-> {}, awaits |-> NoRun]

-----------------------------------------------------------------------------
(***************************************************************************)
(* Building blocks.                                                        *)
(***************************************************************************)
Stored(f, s) == [status EXCEPT ![f] = IF @ = Deleted THEN Deleted ELSE s]

\* updateFeatureStatus: a missing feature.json is logged and left alone, and
\* so is every failure.  A write is lost, too, when another writer of the file
\* has read it before and writes it after.
SetStatus(f, s) ==
  \/ status' = Stored(f, s)
  \/ "lostWrites" \in Ops /\ UNCHANGED status

\* Something other than the work on them has left the features S unfinished.
\* That is forgotten when a feature's status comes to rest.
Leave(S) == left' = {f \in left \cup S : Unfinished(status'[f])}

\* The last status a run sets, which may be lost.
Settle(f, s) ==
  /\ SetStatus(f, s)
  /\ Leave({g \in {f} : status' # Stored(f, s)})

Goto(r, p) == run' = [run EXCEPT ![r].pc = p]

\* The agent is done; these steps of the pipeline are left.
GotoSteps(r, todo) ==
  run' = [run EXCEPT ![r].pc = "steps", ![r].todo = todo]

\* A call that is not registered starts, or goes on after its entry was removed.
Begin(r, f, p, todo) ==
  run' = [run EXCEPT ![r] = [pc |-> p, feat |-> f, kind |-> "execute",
                             todo |-> todo, aborted |-> FALSE]]

\* runningFeatures.set with a fresh AbortController: whatever was there is gone.
Register(r, f, kind, p, todo) ==
  /\ registry' = [registry EXCEPT ![f] = r]
  /\ run' = [run EXCEPT ![r] = [pc |-> p, feat |-> f, kind |-> kind,
                                todo |-> todo, aborted |-> FALSE]]

\* Mutant of End: nobody tells the resumer.
EndUnnoticed(r) ==
  /\ run' = [run EXCEPT ![r] = Idle]
  /\ UNCHANGED resumer

\* The promise of the activation settles; the resumer may be awaiting it.
End(r) ==
  /\ run' = [run EXCEPT ![r] = Idle]
  /\ resumer' = IF resumer.awaits = r THEN [resumer EXCEPT !.awaits = NoRun]
                                      ELSE resumer

\* The call of executeFeature at the end of a resume: it throws 'already
\* running' to its caller when the feature has an entry by now.
CallExecute(r, p) ==
  LET f == run[r].feat IN
  \/ /\ registry[f] = NoRun
     /\ Register(r, f, "execute", p, {})
     /\ UNCHANGED resumer
  \/ /\ registry[f] # NoRun
     /\ End(r)
     /\ UNCHANGED registry

-----------------------------------------------------------------------------
(***************************************************************************)
(* Mutants: plausible bugs that the properties at the end must notice.     *)
(***************************************************************************)
\* The check is missing.
ExecuteFeatureUnchecked(r, f) ==
  /\ "execute" \in Ops
  /\ At(r, "idle")
  /\ Register(r, f, "execute", "context", {})
  /\ UNCHANGED <<disk, resumer>>

\* The catch block reports the error and leaves the status alone.
FailKeepsStatus(r) ==
  /\ At(r, "fail")
  /\ Goto(r, "cleanup")
  /\ UNCHANGED <<registry, disk, resumer>>

\* The entry is removed only for a run that was stopped.
CleanupOnlyStopped(r) ==
  /\ At(r, "cleanup")
  /\ registry' = IF run[r].aborted THEN [registry EXCEPT ![run[r].feat] = NoRun]
                                   ELSE registry
  /\ End(r)
  /\ UNCHANGED disk

\* The step is read off any status.
LoadForResumeAnyStatus(r) ==
  /\ At(r, "resume")
  /\ Begin(r, run[r].feat, "pipeline", {status[run[r].feat].step})
  /\ UNCHANGED <<registry, disk, resumer>>

\* The entry is left for the finally block.
StopFeatureKeepsEntry(f) ==
  /\ "stop" \in Ops
  /\ registry[f] # NoRun
  /\ run' = [run EXCEPT ![registry[f]].aborted = TRUE]
  /\ UNCHANGED <<registry, disk, resumer>>

-----------------------------------------------------------------------------
(***************************************************************************)
(* executeFeature.                                                         *)
(***************************************************************************)
\* The synchronous prefix: check and registration are one step.
ExecuteFeature(r, f) ==
  /\ "execute" \in Ops
  /\ At(r, "idle")
  /\ registry[f] = NoRun
  /\ Register(r, f, "execute", "context", {})
  /\ UNCHANGED <<disk, resumer>>

\* contextExists returned.  With a context the entry is removed, resumeFeature
\* is entered (its own check passes, the entry has just been removed) and the
\* `finally` of executeFeature removes it again.
CheckContext(r) ==
  LET f == run[r].feat IN
  /\ At(r, "context")
  /\ \/ /\ context[f]
        /\ registry' = [registry EXCEPT ![f] = NoRun]
        /\ Begin(r, f, "resume", {})
     \/ /\ ~context[f]
        /\ Goto(r, "load")
        /\ UNCHANGED registry
  /\ UNCHANGED <<disk, resumer>>

\* loadFeature returned; a missing feature throws into the catch block.
Load(r) ==
  /\ At(r, "load")
  /\ Goto(r, IF status[run[r].feat] = Deleted THEN "fail" ELSE "mark")
  /\ UNCHANGED <<registry, disk, resumer>>

\* updateFeatureStatus(..., 'in_progress').
Mark(r) ==
  /\ At(r, "mark")
  /\ SetStatus(run[r].feat, InProgress)
  /\ Goto(r, "agent")
  /\ UNCHANGED <<registry, left, context, pipeline, resumer>>

\* Where an await of the try block may throw: paths that are not allowed, files
\* that cannot be read, the agent, and the verification in the sandbox, which
\* only executeFeature has.
MayThrow(r) ==
  \/ run[r].pc \in {"context", "load", "agent", "stepAgent"}
  \/ At(r, "steps") /\ (run[r].todo # {} \/ run[r].kind = "execute")

\* runAgent writes agent-output.md while the stream goes on.
AgentWrites(r) ==
  /\ run[r].pc \in {"agent", "stepAgent"}
  /\ ~context[run[r].feat]
  /\ context' = [context EXCEPT ![run[r].feat] = TRUE]
  /\ UNCHANGED <<registry, run, status, left, pipeline, resumer>>

\* runAgent returned (its last act is a write of agent-output.md).  A run of
\* executeFeature reads the pipeline configuration; a follow-up has no steps.
AgentDone(r) ==
  /\ At(r, "agent")
  /\ context' = [context EXCEPT ![run[r].feat] = TRUE]
  /\ GotoSteps(r, IF run[r].kind = "execute" THEN pipeline ELSE {})
  /\ UNCHANGED <<registry, status, left, pipeline, resumer>>

\* An abort error ends the run without a word on the status.  Any error whose
\* message speaks of an abort is taken for one, whether or not there was a stop.
AgentAborts(r) ==
  /\ MayThrow(r)
  /\ run[r].aborted \/ "abortErrors" \in Ops
  /\ Goto(r, "cleanup")
  /\ UNCHANGED status
  /\ Leave({run[r].feat})
  /\ UNCHANGED <<registry, context, pipeline, resumer>>

\* Any other error.
AgentFails(r) ==
  /\ MayThrow(r)
  /\ Goto(r, "fail")
  /\ UNCHANGED <<registry, disk, resumer>>

\* executePipelineSteps: the feature's status names the step being executed.
StartStep(r) ==
  /\ At(r, "steps")
  /\ run[r].todo # {}
  /\ SetStatus(run[r].feat, InPipeline(FirstOf(run[r].todo)))
  /\ Goto(r, "stepAgent")
  /\ UNCHANGED <<registry, left, context, pipeline, resumer>>

StepDone(r) ==
  /\ At(r, "stepAgent")
  /\ run[r].todo # {}
  /\ context' = [context EXCEPT ![run[r].feat] = TRUE]
  /\ GotoSteps(r, run[r].todo \ {FirstOf(run[r].todo)})
  /\ UNCHANGED <<registry, status, left, pipeline, resumer>>

Succeed(r) ==
  /\ At(r, "steps")
  /\ run[r].todo = {}
  /\ Settle(run[r].feat, FinalStatus(run[r].feat))
  /\ Goto(r, "cleanup")
  /\ UNCHANGED <<registry, context, pipeline, resumer>>

\* The catch blocks.  followUpFeature does not touch the status.
Fail(r) ==
  /\ At(r, "fail")
  /\ \/ run[r].kind = "followUp" /\ UNCHANGED status /\ Leave({run[r].feat})
     \/ run[r].kind # "followUp" /\ Settle(run[r].feat, Backlog)
  /\ Goto(r, "cleanup")
  /\ UNCHANGED <<registry, context, pipeline, resumer>>

\* The finally blocks: delete by feature id, whoever the entry belongs to.
Cleanup(r) ==
  /\ At(r, "cleanup")
  /\ registry' = [registry EXCEPT ![run[r].feat] = NoRun]
  /\ End(r)
  /\ UNCHANGED disk

-----------------------------------------------------------------------------
(***************************************************************************)
(* resumeFeature and its continuations.                                    *)
(***************************************************************************)
ResumeFeature(r, f) ==
  /\ "resume" \in Ops
  /\ At(r, "idle")
  /\ registry[f] = NoRun
  /\ Begin(r, f, "resume", {})
  /\ UNCHANGED <<registry, disk, resumer>>

\* loadFeature returned: not found throws.  For a pipeline status the step and
\* those after it are read off the configuration, none if the step is gone; a
\* step that is deleted from now on is executed all the same.
LoadForResume(r) ==
  LET f == run[r].feat IN
  /\ At(r, "resume")
  /\ \/ /\ status[f] = Deleted
        /\ End(r)
     \/ /\ status[f].phase = "pipeline"
        /\ Begin(r, f, "pipeline", StepsFrom(status[f].step))
        /\ UNCHANGED resumer
     \/ /\ status[f].phase \notin {"pipeline", "deleted"}
        /\ Begin(r, f, "plain", {})
        /\ UNCHANGED resumer
  /\ UNCHANGED <<registry, disk>>

\* Without a context executeFeature starts afresh, with one the context is
\* read into a continuation prompt.
ResumePlain(r) ==
  /\ At(r, "plain")
  /\ \/ /\ context[run[r].feat]
        /\ Goto(r, "again")
        /\ UNCHANGED <<registry, resumer>>
     \/ /\ ~context[run[r].feat]
        /\ CallExecute(r, "context")
  /\ UNCHANGED disk

\* executeFeatureWithContext loads the feature once more.
ExecuteWithContext(r) ==
  /\ At(r, "again")
  /\ \/ /\ status[run[r].feat] = Deleted
        /\ End(r)
        /\ UNCHANGED registry
     \/ /\ status[run[r].feat] # Deleted
        /\ CallExecute(r, "load")
  /\ UNCHANGED disk

\* resumePipelineFeature: no context restarts, a step that is gone completes
\* the feature, and otherwise resumeFromPipelineStep registers the run without
\* looking at the registry.
ResumePipeline(r) ==
  LET f == run[r].feat IN
  /\ At(r, "pipeline")
  /\ \/ /\ ~context[f]
        /\ Goto(r, "reset")
        /\ UNCHANGED registry
     \/ /\ context[f]
        /\ run[r].todo = {}
        /\ Goto(r, "complete")
        /\ UNCHANGED registry
     \/ /\ context[f]
        /\ run[r].todo # {}
        /\ Register(r, f, "pipeline", "steps", run[r].todo)
  /\ UNCHANGED <<disk, resumer>>

\* The feature is marked before executeFeature has been asked for it.
ResetPipeline(r) ==
  /\ At(r, "reset")
  /\ SetStatus(run[r].feat, InProgress)
  /\ Leave({run[r].feat})
  /\ CallExecute(r, "context")
  /\ UNCHANGED <<context, pipeline>>

CompletePipeline(r) ==
  /\ At(r, "complete")
  /\ Settle(run[r].feat, FinalStatus(run[r].feat))
  /\ End(r)
  /\ UNCHANGED <<registry, context, pipeline>>

-----------------------------------------------------------------------------
(***************************************************************************)
(* followUpFeature, stopFeature and the users' changes to the files.       *)
(***************************************************************************)
FollowUpFeature(r, f) ==
  /\ "followUp" \in Ops
  /\ At(r, "idle")
  /\ registry[f] = NoRun
  /\ Begin(r, f, "followUp", {})
  /\ UNCHANGED <<registry, disk, resumer>>

\* Several awaits later the entry is set, without a second look.
StartFollowUp(r) ==
  /\ At(r, "followUp")
  /\ Register(r, run[r].feat, "followUp", "mark", {})
  /\ UNCHANGED <<disk, resumer>>

\* abort() and delete; what the registry does not show cannot be stopped.
StopFeature(f) ==
  /\ "stop" \in Ops
  /\ registry[f] # NoRun
  /\ run' = [run EXCEPT ![registry[f]].aborted = TRUE]
  /\ registry' = [registry EXCEPT ![f] = NoRun]
  /\ UNCHANGED <<disk, resumer>>

\* POST /features/update with a status: the board lets cards be dropped on
\* those of any column, and marks a feature before it asks for a run.
MoveFeature(f, s) ==
  /\ "move" \in Ops
  /\ status[f] # Deleted
  /\ status' = [status EXCEPT ![f] = s]
  /\ Leave({f})
  /\ UNCHANGED <<registry, run, context, pipeline, resumer>>

\* POST /features/delete removes the feature's directory.
DeleteFeature(f) ==
  /\ "delete" \in Ops
  /\ status' = [status EXCEPT ![f] = Deleted]
  /\ Leave({})
  /\ context' = [context EXCEPT ![f] = FALSE]
  /\ UNCHANGED <<registry, run, pipeline, resumer>>

DeletePipelineStep(s) ==
  /\ "deleteStep" \in Ops
  /\ pipeline' = pipeline \ {s}
  /\ UNCHANGED <<registry, run, status, left, context, resumer>>

-----------------------------------------------------------------------------
(***************************************************************************)
(* Crash, and resumeInterruptedFeatures, which the board calls when it     *)
(* loads the project.                                                      *)
(***************************************************************************)
Crash ==
  /\ "crash" \in Ops
  /\ run' = [r \in Run |-> Idle]
  /\ registry' = [f \in Feature |-> NoRun]
  /\ resumer' = [todo |-> {}, awaits |-> NoRun]
  /\ UNCHANGED <<status, context, pipeline>>
  /\ Leave(Feature)

\* The list is made once, before the first feature is resumed.
ResumeInterrupted ==
  /\ "resumeInterrupted" \in Ops
  /\ resumer.todo = {}
  /\ resumer.awaits = NoRun
  /\ resumer' = [resumer EXCEPT !.todo =
                   {f \in Feature : Interrupted(f) /\ context[f]}]
  /\ UNCHANGED <<registry, run, disk>>

\* One turn of the loop: resumeFeature throws and the loop goes on, or the
\* loop awaits the whole run.
ResumeNext(r, f) ==
  /\ f \in resumer.todo
  /\ resumer.awaits = NoRun
  /\ \/ /\ registry[f] # NoRun
        /\ resumer' = [resumer EXCEPT !.todo = resumer.todo \ {f}]
        /\ UNCHANGED run
     \/ /\ registry[f] = NoRun
        /\ At(r, "idle")
        /\ Begin(r, f, "resume", {})
        /\ resumer' = [todo |-> resumer.todo \ {f}, awaits |-> r]
  /\ UNCHANGED <<registry, disk>>

-----------------------------------------------------------------------------
RunStep(r) ==
  \/ CheckContext(r) \/ Load(r) \/ Mark(r)
  \/ AgentDone(r) \/ AgentAborts(r) \/ AgentFails(r)
  \/ StartStep(r) \/ StepDone(r)
  \/ Succeed(r) \/ Fail(r) \/ Cleanup(r)
  \/ LoadForResume(r) \/ ResumePlain(r) \/ ExecuteWithContext(r)
  \/ ResumePipeline(r) \/ ResetPipeline(r) \/ CompletePipeline(r)
  \/ StartFollowUp(r)

Next ==
  \/ \E r \in Run : RunStep(r) \/ AgentWrites(r)
  \/ \E r \in Run, f \in Feature :
       \/ ExecuteFeature(r, f) \/ ResumeFeature(r, f)
       \/ FollowUpFeature(r, f) \/ ResumeNext(r, f)
  \/ \E f \in Feature : StopFeature(f) \/ DeleteFeature(f)
  \/ \E f \in Feature, s \in Status \ {Deleted} : MoveFeature(f, s)
  \/ \E s \in Step : DeletePipelineStep(s)
  \/ Crash
  \/ ResumeInterrupted

Spec == Init /\ [][Next]_vars

(***************************************************************************)
(* Fairness: a pending continuation is eventually run by the event loop,   *)
(* the agent's stream ends, and the loop of resumeInterruptedFeatures goes *)
(* on.  Nothing is assumed of users.                                       *)
(***************************************************************************)
ResumerStep == \E r \in Run, f \in Feature : ResumeNext(r, f)

FairSpec ==
  /\ Spec
  /\ \A r \in Run : WF_vars(RunStep(r))
  /\ SF_vars(ResumerStep)
-----------------------------------------------------------------------------
(***************************************************************************)
(* Properties.                                                             *)
(***************************************************************************)
\* No entry of runningFeatures leaks or dangles: every entry belongs to a run
\* of that feature whose cleanup is still ahead of it and that nobody has
\* stopped, however the cleanups, stops, overwrites and removals of other runs
\* of the feature interleave.  A leaked entry would answer 'already running'
\* until the server restarts; that of a stopped run would refuse a resume, and
\* a stop of the feature would do nothing.
EntryOwned ==
  \A f \in Feature : registry[f] # NoRun =>
    /\ run[registry[f]].pc \in Registered
    /\ run[registry[f]].feat = f
    /\ ~run[registry[f]].aborted

\* The entry of one run is replaced by that of another only by the two calls
\* that set it without a check, followUpFeature and resumeFromPipelineStep.
OverwriteOnlyUnchecked ==
  [][\A f \in Feature :
       registry[f] # NoRun /\ registry'[f] \notin {registry[f], NoRun}
         => run'[registry'[f]].kind \in {"followUp", "pipeline"}]_vars

\* At most one run works on a feature: what the check of executeFeature and
\* its registration "immediately to prevent race conditions" are for.
AtMostOneRun ==
  \A r1, r2 \in Run :
    /\ run[r1].pc \in Registered
    /\ run[r2].pc \in Registered
    /\ run[r1].feat = run[r2].feat
    => r1 = r2

\* The same, not counting runs that were stopped and are winding down.
NoDuplicateExecution ==
  \A r1, r2 \in Run :
    /\ run[r1].pc \in Registered /\ ~run[r1].aborted
    /\ run[r2].pc \in Registered /\ ~run[r2].aborted
    /\ run[r1].feat = run[r2].feat
    => r1 = r2

\* A feature stays in_progress, or in a pipeline step, with nobody working on
\* it only if something is known to have left it there since its status last
\* came to rest: a run that an abort, or an error that looks like one, cut
\* short, a follow-up that failed, a last status whose write was lost, a mark
\* made without a run (by the board or the restart of a pipeline), or a crash.
\* Nothing else does: not a stop by itself, an entry overwritten or removed by
\* another run's cleanup, a hand-over, a resume that is refused, or a feature
\* or step deleted meanwhile.
NoOrphan ==
  \A f \in Feature :
    Interrupted(f) /\ f \notin left => \E r \in Run : Live(r) /\ run[r].feat = f

\* A run that was stopped stays stopped until it ends.
StopSticks ==
  [][\A r \in Run : run[r].aborted /\ run'[r].pc # "idle" => run'[r].aborted]_vars

\* resumeInterruptedFeatures resumes interrupted features and no others.
ResumesOnlyInterrupted ==
  [][\A r \in Run : resumer.awaits # r /\ resumer'.awaits = r
       => Interrupted(run'[r].feat)]_vars

\* Every entry is eventually released or taken over, so a feature can be run
\* again.
EntryReleased ==
  \A f \in Feature, r \in Run : registry[f] = r ~> registry[f] # r

\* resumeInterruptedFeatures gets to every feature of its list.
ResumerDrains ==
  \A f \in Feature : f \in resumer.todo ~> f \notin resumer.todo
=============================================================================
