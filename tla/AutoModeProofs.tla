--------------------------- MODULE AutoModeProofs ---------------------------
(***************************************************************************)
(* Proofs about AutoMode, for every set of features, runs and pipeline     *)
(* steps and every choice of Ops.                                          *)
(***************************************************************************)
EXTENDS AutoMode, WellFoundedInduction, TLAPS

\* FirstOf picks a member of every non-empty set of steps, the least one.
LEMMA FirstOfMember ==
  ASSUME NEW S, S \subseteq Step, S # {}
  PROVE  FirstOf(S) \in S /\ \A t \in S : FirstOf(S) <= t
<1>. DEFINE Less == {p \in Nat \X Nat : p[1] < p[2]}
<1>1. S \subseteq Nat
  BY StepAssumption
<1>2. IsWellFoundedOn(Less, Nat)
  BY NatLessThanWellFounded DEF OpToRel
<1>3. PICK s \in S : \A t \in S : <<t, s>> \notin Less
  <2>. HIDE DEF Less
  <2>. QED  BY <1>1, <1>2, WFMin
<1>4. ASSUME NEW t \in S
      PROVE  s <= t
  <2>1. s \in Nat /\ t \in Nat
    BY <1>1
  <2>2. <<t, s>> \in Nat \X Nat => ~(t < s)
    BY <1>3
  <2>. QED  BY <2>1, <2>2
<1>. QED  BY <1>4 DEF FirstOf

-----------------------------------------------------------------------------
(***************************************************************************)
(* Types of the building blocks.                                           *)
(***************************************************************************)
\* Where the type of a status comes from.
LEMMA StatusTypes ==
  /\ Backlog \in Status /\ InProgress \in Status /\ Verified \in Status
  /\ WaitingApproval \in Status /\ Deleted \in Status
  /\ \A f \in Feature : FinalStatus(f) \in Status
  /\ \A s \in Step : InPipeline(s) \in Status
  /\ \A s \in Status : s.phase = "pipeline" => s.step \in Step
<1>1. \A s \in Status : s.phase = "pipeline" => s.step \in Step
  BY DEF Status, InPipeline, Plain, Backlog, InProgress, Verified,
         WaitingApproval, Deleted
<1>. QED  BY <1>1 DEF Status, FinalStatus

LEMMA SetStatusType ==
  ASSUME status \in [Feature -> Status], NEW f \in Feature, NEW s \in Status,
         SetStatus(f, s)
  PROVE  status' \in [Feature -> Status]
BY StatusTypes DEF SetStatus, Stored

\* What Leave and Settle make of the history.
LEMMA LeaveType ==
  ASSUME left \in SUBSET Feature, NEW S \in SUBSET Feature, Leave(S)
  PROVE  left' \in SUBSET Feature
BY DEF Leave

LEMMA SettleType ==
  ASSUME status \in [Feature -> Status], left \in SUBSET Feature,
         NEW f \in Feature, NEW s \in Status, Settle(f, s)
  PROVE  status' \in [Feature -> Status] /\ left' \in SUBSET Feature
<1>1. status' \in [Feature -> Status]
  BY SetStatusType DEF Settle
<1>2. {g \in {f} : status' # Stored(f, s)} \in SUBSET Feature
  OBVIOUS
<1>. QED  BY <1>1, <1>2, LeaveType DEF Settle

\* The awaits and kinds are what their definitions list.
LEMMA PCMembers ==
  /\ Registered \subseteq PC
  /\ {"resume", "plain", "again", "pipeline", "reset", "complete", "followUp"}
       \subseteq PC
  /\ {"context", "load", "mark", "agent", "steps", "stepAgent", "fail",
      "cleanup"} = Registered
  /\ {"execute", "followUp", "pipeline"} = Kind
  /\ "idle" \in PC
BY DEF PC, Registered, Unregistered, Kind

\* Replacing the state of one run by a well-typed one.
LEMMA RunUpdate ==
  ASSUME RunsOK, NEW r \in Run, NEW s \in RunState,
         s.pc = "idle" \/ s.feat \in Feature,
         run' = [run EXCEPT ![r] = s]
  PROVE  RunsOK'
BY DEF RunsOK, Live

LEMMA GotoType ==
  ASSUME RunsOK, NEW r \in Run, NEW p \in PC, Live(r), Goto(r, p)
  PROVE  RunsOK'
<1>. DEFINE s == [run[r] EXCEPT !.pc = p]
<1>1. run[r] \in RunState /\ run[r].feat \in Feature
  BY DEF RunsOK, Live
<1>2. s \in RunState /\ s.feat \in Feature
  BY <1>1 DEF RunState
<1>3. run' = [run EXCEPT ![r] = s]
  BY <1>1 DEF Goto, RunState, RunsOK
<1>. QED  BY <1>2, <1>3, RunUpdate

LEMMA GotoStepsType ==
  ASSUME RunsOK, NEW r \in Run, NEW todo \in SUBSET Step, Live(r),
         GotoSteps(r, todo)
  PROVE  RunsOK'
<1>. DEFINE s == [run[r] EXCEPT !.pc = "steps", !.todo = todo]
<1>1. run[r] \in RunState /\ run[r].feat \in Feature
  BY DEF RunsOK, Live
<1>2. "steps" \in PC
  BY PCMembers
<1>3. s \in RunState /\ s.feat \in Feature
  BY <1>1, <1>2 DEF RunState
<1>4. run' = [run EXCEPT ![r] = s]
  BY <1>1 DEF GotoSteps, RunState, RunsOK
<1>. QED  BY <1>3, <1>4, RunUpdate

LEMMA BeginType ==
  ASSUME RunsOK, NEW r \in Run, NEW f \in Feature, NEW p \in PC,
         NEW todo \in SUBSET Step, Begin(r, f, p, todo)
  PROVE  RunsOK'
<1>. DEFINE s == [pc |-> p, feat |-> f, kind |-> "execute",
                  todo |-> todo, aborted |-> FALSE]
<1>1. s \in RunState /\ s.feat \in Feature
  BY PCMembers DEF RunState
<1>2. run' = [run EXCEPT ![r] = s]
  BY DEF Begin
<1>. QED  BY <1>1, <1>2, RunUpdate

LEMMA RegisterType ==
  ASSUME registry \in [Feature -> Run \cup {NoRun}], RunsOK,
         NEW r \in Run, NEW f \in Feature, NEW k \in Kind, NEW p \in PC,
         NEW todo \in SUBSET Step, Register(r, f, k, p, todo)
  PROVE  RunsOK' /\ registry' \in [Feature -> Run \cup {NoRun}]
<1>. DEFINE s == [pc |-> p, feat |-> f, kind |-> k,
                  todo |-> todo, aborted |-> FALSE]
<1>1. s \in RunState /\ s.feat \in Feature
  BY DEF RunState
<1>2. run' = [run EXCEPT ![r] = s]
  BY DEF Register
<1>3. RunsOK'
  BY <1>1, <1>2, RunUpdate
<1>. QED  BY <1>3 DEF Register

LEMMA IdleType == Idle \in RunState /\ Idle.pc = "idle"
BY PCMembers DEF Idle, RunState

LEMMA EndType ==
  ASSUME RunsOK, resumer \in [todo : SUBSET Feature, awaits : Run \cup {NoRun}],
         NEW r \in Run, End(r)
  PROVE  RunsOK' /\ resumer' \in [todo : SUBSET Feature, awaits : Run \cup {NoRun}]
<1>1. RunsOK'
  BY IdleType, RunUpdate DEF End
<1>2. resumer' \in [todo : SUBSET Feature, awaits : Run \cup {NoRun}]
  BY DEF End
<1>. QED  BY <1>1, <1>2

-----------------------------------------------------------------------------
(***************************************************************************)
(* Type correctness.                                                       *)
(***************************************************************************)
LEMMA InitTypeOK == Init => TypeOK
BY StatusTypes, IdleType DEF Init, TypeOK, RunsOK, Live

\* The call of executeFeature inside a resume.
LEMMA CallExecuteType ==
  ASSUME TypeOK, NEW r \in Run, Live(r), NEW p \in PC, CallExecute(r, p)
  PROVE  RunsOK' /\ registry' \in [Feature -> Run \cup {NoRun}]
         /\ resumer' \in [todo : SUBSET Feature, awaits : Run \cup {NoRun}]
<1>1. run[r].feat \in Feature
  BY DEF TypeOK, RunsOK
<1>2. CASE registry[run[r].feat] = NoRun /\ UNCHANGED resumer
           /\ Register(r, run[r].feat, "execute", p, {})
  BY <1>1, <1>2, RegisterType, PCMembers DEF TypeOK
<1>3. CASE End(r) /\ UNCHANGED registry
  BY <1>3, EndType DEF TypeOK
<1>. QED  BY <1>2, <1>3 DEF CallExecute

\* The steps of a run.
LEMMA RunStepTypeOK ==
  ASSUME TypeOK, NEW r \in Run, RunStep(r) \/ AgentWrites(r)
  PROVE  TypeOK'
<1>. DEFINE f == run[r].feat
<1>0. Live(r) /\ f \in Feature /\ run[r].todo \in SUBSET Step
  BY PCMembers DEF TypeOK, RunsOK, RunState, Live, At, MayThrow, RunStep, CheckContext,
     Load, Mark, AgentWrites, AgentDone, AgentAborts, AgentFails, StartStep,
     StepDone, Succeed, Fail, Cleanup, LoadForResume,
     ResumePlain, ExecuteWithContext, ResumePipeline, ResetPipeline,
     CompletePipeline, StartFollowUp
<1>. USE <1>0, PCMembers DEF TypeOK, disk
<1>1. CASE CheckContext(r)
  BY <1>1, GotoType, BeginType DEF CheckContext
<1>2. CASE Load(r)
  BY <1>2, GotoType DEF Load
<1>3. CASE AgentAborts(r)
  BY <1>3, GotoType, LeaveType DEF AgentAborts
<1>4. CASE AgentFails(r)
  BY <1>4, GotoType DEF AgentFails
<1>6. CASE Mark(r)
  BY <1>6, GotoType, SetStatusType, StatusTypes DEF Mark
<1>7. CASE Succeed(r)
  BY <1>7, GotoType, SettleType, StatusTypes DEF Succeed
<1>8. CASE Fail(r)
  BY <1>8, GotoType, SettleType, LeaveType, StatusTypes DEF Fail
<1>9. CASE StartStep(r)
  BY <1>9, GotoType, SetStatusType, StatusTypes, FirstOfMember DEF StartStep
<1>10. CASE AgentWrites(r)
  BY <1>10 DEF AgentWrites, RunsOK, Live
<1>11. CASE AgentDone(r)
  BY <1>11, GotoStepsType DEF AgentDone
<1>12. CASE StepDone(r)
  BY <1>12, GotoStepsType DEF StepDone
<1>13. CASE Cleanup(r)
  BY <1>13, EndType DEF Cleanup
<1>14. CASE LoadForResume(r)
  <2>1. StepsFrom(status[f].step) \in SUBSET Step
    BY DEF StepsFrom
  <2>. QED  BY <1>14, <2>1, EndType, BeginType DEF LoadForResume
<1>15. CASE ResumePlain(r)
  BY <1>15, GotoType, CallExecuteType DEF ResumePlain
<1>16. CASE ExecuteWithContext(r)
  BY <1>16, EndType, CallExecuteType DEF ExecuteWithContext
<1>17. CASE ResumePipeline(r)
  <2>1. run[r].todo \in SUBSET Step
    BY DEF RunsOK, RunState
  <2>. QED  BY <1>17, <2>1, GotoType, RegisterType DEF ResumePipeline
<1>18. CASE ResetPipeline(r)
  BY <1>18, SetStatusType, LeaveType, StatusTypes, CallExecuteType DEF ResetPipeline
<1>19. CASE CompletePipeline(r)
  BY <1>19, SettleType, StatusTypes, EndType DEF CompletePipeline
<1>20. CASE StartFollowUp(r)
  <2>1. Register(r, f, "followUp", "mark", {}) /\ UNCHANGED <<disk, resumer>>
    BY <1>20 DEF StartFollowUp
  <2>2. "followUp" \in Kind /\ "mark" \in PC /\ {} \in SUBSET Step
    OBVIOUS
  <2>3. RunsOK' /\ registry' \in [Feature -> Run \cup {NoRun}]
    BY <2>1, <2>2, RegisterType
  <2>. QED  BY <2>1, <2>3
<1>. QED
  BY <1>1, <1>2, <1>3, <1>4, <1>6, <1>7, <1>8, <1>9, <1>10, <1>11, <1>12, <1>13, <1>14,
     <1>15, <1>16, <1>17, <1>18, <1>19, <1>20 DEF RunStep

LEMMA NextTypeOK == TypeOK /\ [Next]_vars => TypeOK'
<1>. SUFFICES ASSUME TypeOK, [Next]_vars
              PROVE  TypeOK'
  OBVIOUS
<1>. USE PCMembers DEF TypeOK, disk
<1>1. ASSUME NEW r \in Run, RunStep(r) \/ AgentWrites(r)
      PROVE  TypeOK'
  BY <1>1, RunStepTypeOK
<1>2. ASSUME NEW r \in Run, NEW f \in Feature, ExecuteFeature(r, f)
      PROVE  TypeOK'
  BY <1>2, RegisterType DEF ExecuteFeature
<1>3. ASSUME NEW r \in Run, NEW f \in Feature,
             ResumeFeature(r, f) \/ FollowUpFeature(r, f)
      PROVE  TypeOK'
  BY <1>3, BeginType DEF ResumeFeature, FollowUpFeature
<1>4. ASSUME NEW r \in Run, NEW f \in Feature, ResumeNext(r, f)
      PROVE  TypeOK'
  <2>1. RunsOK'
    BY <1>4, BeginType DEF ResumeNext, RunsOK, Live
  <2>. QED  BY <1>4, <2>1 DEF ResumeNext
<1>5. ASSUME NEW f \in Feature, StopFeature(f)
      PROVE  TypeOK'
  <2>. DEFINE r == registry[f]
              s == [run[r] EXCEPT !.aborted = TRUE]
  <2>1. r \in Run /\ run[r] \in RunState
    BY <1>5 DEF StopFeature, RunsOK
  <2>2. s \in RunState /\ s.pc = run[r].pc /\ s.feat = run[r].feat
    BY <2>1 DEF RunState
  <2>3. run' = [run EXCEPT ![r] = s]
    BY <1>5, <2>1 DEF StopFeature, RunState, RunsOK
  <2>4. s.pc = "idle" \/ s.feat \in Feature
    BY <2>1, <2>2 DEF RunsOK, Live
  <2>5. RunsOK'
    BY <2>1, <2>2, <2>3, <2>4, RunUpdate
  <2>. QED  BY <1>5, <2>5 DEF StopFeature
<1>6. ASSUME NEW f \in Feature, NEW s \in Status \ {Deleted}, MoveFeature(f, s)
      PROVE  TypeOK'
  BY <1>6, LeaveType DEF MoveFeature, RunsOK, Live
<1>7. ASSUME NEW f \in Feature, DeleteFeature(f)
      PROVE  TypeOK'
  BY <1>7, StatusTypes, LeaveType DEF DeleteFeature, RunsOK, Live
<1>8. ASSUME NEW s \in Step, DeletePipelineStep(s)
      PROVE  TypeOK'
  BY <1>8 DEF DeletePipelineStep, RunsOK, Live
<1>9. CASE Crash
  BY <1>9, IdleType, LeaveType DEF Crash, RunsOK, Live
<1>10. CASE ResumeInterrupted
  BY <1>10 DEF ResumeInterrupted, RunsOK, Live
<1>11. CASE UNCHANGED vars
  BY <1>11 DEF vars, RunsOK, Live
<1>. QED
  BY <1>1, <1>2, <1>3, <1>4, <1>5, <1>6, <1>7, <1>8, <1>9, <1>10, <1>11 DEF Next

\* Type correctness, for every number of features, runs and pipeline steps.
THEOREM TypeCorrect == Spec => []TypeOK
BY InitTypeOK, NextTypeOK, PTL DEF Spec

-----------------------------------------------------------------------------
(***************************************************************************)
(* No entry of the registry leaks, dangles or shows a stopped run.  The    *)
(* two invariants are inductive together, relative to TypeOK: a run only   *)
(* leaves the registered awaits by removing the entry of its feature, and  *)
(* an entry that names the run is the entry of that very feature.          *)
(***************************************************************************)
EntryInv == EntryOwned

\* What an entry says of the run r it names, if the run's state is s.
EntryFits(f, s) == s.pc \in Registered /\ s.feat = f /\ ~s.aborted

\* A step of the run r: other runs stay as they are, and entries are removed
\* or set to r.
LEMMA EntryUpdate ==
  ASSUME TypeOK, EntryInv, NEW r \in Run,
         \A q \in Run \ {r} : run'[q] = run[q],
         \A f \in Feature : registry'[f] \in {NoRun, registry[f], r},
         \A f \in Feature : registry'[f] = r => EntryFits(f, run'[r])
  PROVE  EntryInv'
BY DEF TypeOK, EntryInv, EntryOwned, EntryFits

\* No entry names a run that is not registered.
LEMMA UnregisteredHasNoEntry ==
  ASSUME TypeOK, EntryInv, NEW r \in Run, run[r].pc \notin Registered
  PROVE  \A f \in Feature : registry[f] # r
BY NoRunAssumption DEF TypeOK, EntryInv, EntryOwned

\* An entry that names a run is the entry of the run's feature.
LEMMA EntryOfFeature ==
  ASSUME TypeOK, EntryInv, NEW r \in Run, NEW f \in Feature, registry[f] = r
  PROVE  EntryFits(f, run[r])
BY NoRunAssumption DEF TypeOK, EntryInv, EntryOwned, EntryFits

LEMMA GotoEntry ==
  ASSUME TypeOK, EntryInv, NEW r \in Run, NEW p \in PC,
         Goto(r, p), UNCHANGED registry,
         run[r].pc \in Registered => p \in Registered
  PROVE  EntryInv'
<1>1. run'[r].pc = p /\ run'[r].feat = run[r].feat
      /\ run'[r].aborted = run[r].aborted
  BY DEF TypeOK, RunsOK, RunState, Goto
<1>2. \A q \in Run \ {r} : run'[q] = run[q]
  BY DEF TypeOK, RunsOK, Goto
<1>3. \A f \in Feature : registry'[f] = r => EntryFits(f, run'[r])
  BY <1>1, EntryOfFeature DEF EntryFits
<1>. QED  BY <1>2, <1>3, EntryUpdate

LEMMA GotoStepsEntry ==
  ASSUME TypeOK, EntryInv, NEW r \in Run, NEW todo,
         GotoSteps(r, todo), UNCHANGED registry
  PROVE  EntryInv'
<1>1. run'[r].pc = "steps" /\ run'[r].feat = run[r].feat
      /\ run'[r].aborted = run[r].aborted
  BY DEF TypeOK, RunsOK, RunState, GotoSteps
<1>2. \A q \in Run \ {r} : run'[q] = run[q]
  BY DEF TypeOK, RunsOK, GotoSteps
<1>3. \A f \in Feature : registry'[f] = r => EntryFits(f, run'[r])
  BY <1>1, EntryOfFeature, PCMembers DEF EntryFits
<1>. QED  BY <1>2, <1>3, EntryUpdate

LEMMA BeginEntry ==
  ASSUME TypeOK, EntryInv, NEW r \in Run, NEW f, NEW p, NEW todo,
         Begin(r, f, p, todo), UNCHANGED registry, run[r].pc \notin Registered
  PROVE  EntryInv'
<1>1. \A q \in Run \ {r} : run'[q] = run[q]
  BY DEF TypeOK, RunsOK, Begin
<1>. QED  BY <1>1, UnregisteredHasNoEntry, EntryUpdate

LEMMA RegisterEntry ==
  ASSUME TypeOK, EntryInv, NEW r \in Run, NEW f \in Feature, NEW k,
         NEW p \in Registered, NEW todo, Register(r, f, k, p, todo),
         run[r].pc \notin Registered
  PROVE  EntryInv'
<1>1. \A q \in Run \ {r} : run'[q] = run[q]
  BY DEF TypeOK, RunsOK, Register
<1>2. run'[r].pc = p /\ run'[r].feat = f /\ ~run'[r].aborted
  BY DEF TypeOK, RunsOK, Register
<1>3. \A g \in Feature : registry'[g] = IF g = f THEN r ELSE registry[g]
  BY DEF TypeOK, Register
<1>4. \A g \in Feature : registry'[g] = r => EntryFits(g, run'[r])
  BY <1>2, <1>3, UnregisteredHasNoEntry DEF EntryFits
<1>. QED  BY <1>1, <1>3, <1>4, EntryUpdate

LEMMA EndEntry ==
  ASSUME TypeOK, EntryInv, NEW r \in Run, End(r), UNCHANGED registry,
         run[r].pc \notin Registered
  PROVE  EntryInv'
<1>1. \A q \in Run \ {r} : run'[q] = run[q]
  BY DEF TypeOK, RunsOK, End
<1>. QED  BY <1>1, UnregisteredHasNoEntry, EntryUpdate

\* Removing the entry of the run's feature, whoever it belongs to.
LEMMA RemoveEntry ==
  ASSUME TypeOK, EntryInv, NEW r \in Run, run[r].feat \in Feature,
         registry' = [registry EXCEPT ![run[r].feat] = NoRun],
         \A q \in Run \ {r} : run'[q] = run[q]
  PROVE  EntryInv'
<1>1. \A f \in Feature : registry'[f] # r
  BY EntryOfFeature, NoRunAssumption DEF EntryFits, TypeOK
<1>. QED  BY <1>1, EntryUpdate DEF TypeOK

LEMMA CallExecuteEntry ==
  ASSUME TypeOK, EntryInv, NEW r \in Run, run[r].feat \in Feature,
         NEW p \in Registered, CallExecute(r, p), run[r].pc \notin Registered
  PROVE  EntryInv'
BY RegisterEntry, EndEntry DEF CallExecute

LEMMA InitEntryInv == Init => EntryInv
BY DEF Init, EntryInv, EntryOwned

LEMMA NextEntryInv == TypeOK /\ EntryInv /\ [Next]_vars => EntryInv'
<1>. SUFFICES ASSUME TypeOK, EntryInv, [Next]_vars
              PROVE  EntryInv'
  OBVIOUS
<1>1. ASSUME NEW r \in Run, RunStep(r) \/ AgentWrites(r)
      PROVE  EntryInv'
  <2>. USE <1>1, PCMembers DEF At
  <2>1. CASE CheckContext(r)
    <3>1. run[r].feat \in Feature
      BY <2>1 DEF CheckContext, TypeOK, RunsOK, Live
    <3>2. CASE Goto(r, "load") /\ UNCHANGED registry
      BY <3>2, GotoEntry
    <3>3. CASE /\ registry' = [registry EXCEPT ![run[r].feat] = NoRun]
               /\ Begin(r, run[r].feat, "resume", {})
      BY <3>1, <3>3, RemoveEntry DEF Begin, TypeOK, RunsOK
    <3>. QED  BY <2>1, <3>2, <3>3 DEF CheckContext
  <2>2. CASE \/ Load(r) \/ Mark(r) \/ AgentAborts(r) \/ AgentFails(r)
             \/ StartStep(r) \/ Succeed(r) \/ Fail(r)
    BY <2>2, GotoEntry DEF Load, Mark, AgentAborts, AgentFails, StartStep,
       Succeed, Fail
  <2>3. CASE AgentDone(r) \/ StepDone(r)
    BY <2>3, GotoStepsEntry DEF AgentDone, StepDone
  <2>4. CASE AgentWrites(r)
    BY <2>4 DEF AgentWrites, EntryInv, EntryOwned
  <2>5. CASE Cleanup(r)
    <3>1. run[r].feat \in Feature
      BY <2>5 DEF Cleanup, TypeOK, RunsOK, Live
    <3>. QED  BY <2>5, <3>1, RemoveEntry DEF Cleanup, End, TypeOK, RunsOK
  <2>6. CASE \/ LoadForResume(r) \/ ResumePlain(r) \/ ExecuteWithContext(r)
             \/ ResumePipeline(r) \/ ResetPipeline(r) \/ CompletePipeline(r)
             \/ StartFollowUp(r)
    <3>. DEFINE p == run[r].pc
    <3>1. run[r].feat \in Feature
      BY <2>6 DEF LoadForResume, ResumePlain, ExecuteWithContext,
         ResumePipeline, ResetPipeline, CompletePipeline, StartFollowUp,
         TypeOK, RunsOK, Live
    <3>2. p \notin Registered
      BY <2>6 DEF LoadForResume, ResumePlain, ExecuteWithContext,
         ResumePipeline, ResetPipeline, CompletePipeline, StartFollowUp,
         Registered
    <3>3. "context" \in Registered /\ "load" \in Registered
          /\ "steps" \in Registered /\ "mark" \in Registered
      BY DEF Registered
    <3>4. CASE LoadForResume(r)
      BY <3>2, <3>4, EndEntry, BeginEntry DEF LoadForResume
    <3>5. CASE ResumePlain(r)
      BY <3>1, <3>2, <3>3, <3>5, GotoEntry, CallExecuteEntry DEF ResumePlain
    <3>6. CASE ExecuteWithContext(r)
      BY <3>1, <3>2, <3>3, <3>6, EndEntry, CallExecuteEntry
         DEF ExecuteWithContext
    <3>7. CASE ResumePipeline(r)
      BY <3>1, <3>2, <3>3, <3>7, GotoEntry, RegisterEntry DEF ResumePipeline
    <3>8. CASE ResetPipeline(r)
      BY <3>1, <3>2, <3>3, <3>8, CallExecuteEntry DEF ResetPipeline
    <3>9. CASE CompletePipeline(r)
      BY <3>2, <3>9, EndEntry DEF CompletePipeline
    <3>10. CASE StartFollowUp(r)
      BY <3>1, <3>2, <3>3, <3>10, RegisterEntry DEF StartFollowUp
    <3>. QED  BY <2>6, <3>4, <3>5, <3>6, <3>7, <3>8, <3>9, <3>10
  <2>. QED  BY <1>1, <2>1, <2>2, <2>3, <2>4, <2>5, <2>6 DEF RunStep
<1>2. ASSUME NEW r \in Run, NEW f \in Feature, ExecuteFeature(r, f)
      PROVE  EntryInv'
  <2>1. "context" \in Registered /\ "idle" \notin Registered
    BY DEF Registered
  <2>. QED  BY <1>2, <2>1, RegisterEntry DEF ExecuteFeature, At
<1>3. ASSUME NEW r \in Run, NEW f \in Feature,
             ResumeFeature(r, f) \/ FollowUpFeature(r, f)
      PROVE  EntryInv'
  <2>1. "idle" \notin Registered
    BY DEF Registered
  <2>. QED  BY <1>3, <2>1, BeginEntry DEF ResumeFeature, FollowUpFeature, At
<1>4. ASSUME NEW r \in Run, NEW f \in Feature, ResumeNext(r, f)
      PROVE  EntryInv'
  <2>1. "idle" \notin Registered
    BY DEF Registered
  <2>2. CASE UNCHANGED <<registry, run>>
    BY <2>2 DEF EntryInv, EntryOwned
  <2>. QED  BY <1>4, <2>1, <2>2, BeginEntry DEF ResumeNext, At
<1>5. ASSUME NEW f \in Feature, StopFeature(f)
      PROVE  EntryInv'
  <2>. DEFINE r == registry[f]
  <2>1. r \in Run /\ run[r].feat = f
    BY <1>5, EntryOfFeature DEF StopFeature, TypeOK, EntryFits
  <2>2. \A q \in Run \ {r} : run'[q] = run[q]
    BY <1>5, <2>1 DEF StopFeature, TypeOK, RunsOK
  <2>3. registry' = [registry EXCEPT ![run[r].feat] = NoRun]
    BY <1>5, <2>1 DEF StopFeature
  <2>. QED  BY <2>1, <2>2, <2>3, RemoveEntry
<1>6. CASE UNCHANGED <<registry, run>>
  BY <1>6 DEF EntryInv, EntryOwned
<1>7. CASE Crash
  BY <1>7 DEF Crash, EntryInv, EntryOwned
<1>. QED
  BY <1>1, <1>2, <1>3, <1>4, <1>5, <1>6, <1>7
     DEF Next, MoveFeature, DeleteFeature, DeletePipelineStep,
         ResumeInterrupted, vars

\* Every entry of the registry belongs to a run of its feature that has not
\* been stopped and whose cleanup is still to come.
THEOREM EntriesOwned == Spec => []EntryOwned
<1>1. Spec => []EntryInv
  BY TypeCorrect, InitEntryInv, NextEntryInv, PTL DEF Spec
<1>2. EntryInv => EntryOwned
  BY DEF EntryInv
<1>. QED  BY <1>1, <1>2, PTL

-----------------------------------------------------------------------------
(***************************************************************************)
(* Who may overwrite an entry.                                             *)
(***************************************************************************)
LEMMA RegisterOverwrite ==
  ASSUME TypeOK, NEW r \in Run, NEW f \in Feature, NEW k, NEW p, NEW todo,
         Register(r, f, k, p, todo),
         registry[f] = NoRun \/ k \in {"followUp", "pipeline"},
         NEW g \in Feature, registry[g] # NoRun,
         registry'[g] \notin {registry[g], NoRun}
  PROVE  run'[registry'[g]].kind \in {"followUp", "pipeline"}
<1>1. g = f /\ registry'[g] = r
  BY DEF TypeOK, Register
<1>2. run'[r].kind = k
  BY DEF TypeOK, RunsOK, Register
<1>. QED  BY <1>1, <1>2

LEMMA NextOverwrite ==
  ASSUME TypeOK, [Next]_vars, NEW g \in Feature, registry[g] # NoRun,
         registry'[g] \notin {registry[g], NoRun}
  PROVE  run'[registry'[g]].kind \in {"followUp", "pipeline"}
<1>1. ASSUME NEW r \in Run, NEW f \in Feature,
             registry' = [registry EXCEPT ![f] = NoRun]
      PROVE  FALSE
  BY <1>1 DEF TypeOK
<1>2. ASSUME NEW r \in Run, NEW f \in Feature, ExecuteFeature(r, f)
      PROVE  run'[registry'[g]].kind \in {"followUp", "pipeline"}
  BY <1>2, RegisterOverwrite DEF ExecuteFeature
<1>3. ASSUME NEW r \in Run, NEW p, CallExecute(r, p), run[r].feat \in Feature
      PROVE  run'[registry'[g]].kind \in {"followUp", "pipeline"}
  BY <1>3, RegisterOverwrite DEF CallExecute
<1>4. ASSUME NEW r \in Run, RunStep(r), registry' # registry
      PROVE  \/ registry' = [registry EXCEPT ![run[r].feat] = NoRun]
             \/ \E p : CallExecute(r, p)
             \/ \E k \in {"followUp", "pipeline"} :
                  \E p, todo : Register(r, run[r].feat, k, p, todo)
  BY <1>4, Zenon DEF RunStep, CheckContext, Load, Mark, AgentDone, AgentAborts,
     AgentFails, StartStep, StepDone, Succeed, Fail,
     Cleanup, LoadForResume, ResumePlain, ExecuteWithContext, ResumePipeline,
     ResetPipeline, CompletePipeline, StartFollowUp
<1>5. ASSUME NEW r \in Run, RunStep(r)
      PROVE  run'[registry'[g]].kind \in {"followUp", "pipeline"}
  <2>1. run[r].feat \in Feature
    BY <1>5 DEF TypeOK, RunsOK, RunState, Live, At, MayThrow, RunStep, CheckContext,
       Load, Mark, AgentDone, AgentAborts, AgentFails, StartStep, StepDone,
       Succeed, Fail, Cleanup, LoadForResume, ResumePlain,
       ExecuteWithContext, ResumePipeline, ResetPipeline, CompletePipeline,
       StartFollowUp
  <2>2. registry' # registry
    OBVIOUS
  <2>3. ASSUME NEW k \in {"followUp", "pipeline"}, NEW p, NEW todo,
               Register(r, run[r].feat, k, p, todo)
        PROVE  run'[registry'[g]].kind \in {"followUp", "pipeline"}
    BY <2>1, <2>3, RegisterOverwrite
  <2>. QED  BY <1>1, <1>3, <1>4, <1>5, <2>1, <2>2, <2>3
<1>6. ASSUME NEW f \in Feature, StopFeature(f)
      PROVE  FALSE
  BY <1>6 DEF StopFeature, TypeOK
<1>7. CASE Crash
  BY <1>7 DEF Crash
<1>. QED
  BY <1>2, <1>5, <1>6, <1>7 DEF Next, AgentWrites, ResumeFeature,
     FollowUpFeature, ResumeNext, DeleteFeature, MoveFeature,
     DeletePipelineStep, ResumeInterrupted, vars

\* Only followUpFeature and resumeFromPipelineStep ever replace an entry.
THEOREM OverwritesUnchecked == Spec => OverwriteOnlyUnchecked
<1>1. TypeOK /\ [Next]_vars =>
        [\A f \in Feature :
           registry[f] # NoRun /\ registry'[f] \notin {registry[f], NoRun}
             => run'[registry'[f]].kind \in {"followUp", "pipeline"}]_vars
  BY NextOverwrite
<1>. QED  BY <1>1, TypeCorrect, PTL DEF Spec, OverwriteOnlyUnchecked

-----------------------------------------------------------------------------
(***************************************************************************)
(* Mutual exclusion, where it holds: without stops, without follow-ups and *)
(* without pipeline steps, the synchronous check and registration of       *)
(* executeFeature exclude a second run of the feature.  The invariant is   *)
(* the converse of EntryOwned: a registered run is the one its feature's   *)
(* entry names.  Each of the three excluded operations breaks it.          *)
(***************************************************************************)
Undisturbed == Ops \cap {"stop", "followUp"} = {} /\ Step = {}

RegisteredHasEntry ==
  \A r \in Run :
    /\ run[r].pc \in Registered => registry[run[r].feat] = r
    /\ run[r].pc \notin {"followUp", "pipeline"}

\* A step of the run r whose entry, if it ends up registered, is its own.
LEMMA ExclusiveUpdate ==
  ASSUME TypeOK, RegisteredHasEntry, NEW r \in Run,
         \A q \in Run \ {r} : run'[q] = run[q],
         \A f \in Feature : registry'[f] # registry[f] => registry[f] \in {NoRun, r},
         run'[r].pc \in Registered => registry'[run'[r].feat] = r,
         run'[r].pc \notin {"followUp", "pipeline"}
  PROVE  RegisteredHasEntry'
<1>1. ASSUME NEW q \in Run \ {r}, run'[q].pc \in Registered
      PROVE  registry'[run'[q].feat] = q
  <2>1. run[q].feat \in Feature
    BY <1>1 DEF TypeOK, RunsOK, Live, Registered
  <2>. QED  BY <1>1, <2>1, NoRunAssumption DEF RegisteredHasEntry
<1>. QED  BY <1>1 DEF RegisteredHasEntry

LEMMA NextExclusive ==
  ASSUME Undisturbed, TypeOK, EntryInv, RegisteredHasEntry, [Next]_vars
  PROVE  RegisteredHasEntry'
<1>1. ASSUME NEW r \in Run, RunStep(r)
      PROVE  RegisteredHasEntry'
  <2>. USE DEF At
  <2>1. run[r].feat \in Feature
    BY <1>1 DEF TypeOK, RunsOK, RunState, Live, MayThrow, RunStep, CheckContext,
       Load, Mark, AgentDone, AgentAborts, AgentFails, StartStep, StepDone,
       Succeed, Fail, Cleanup, LoadForResume, ResumePlain,
       ExecuteWithContext, ResumePipeline, ResetPipeline, CompletePipeline,
       StartFollowUp
  <2>2. ASSUME NEW p \in {"load", "fail", "mark", "agent", "cleanup"},
               run[r].pc \in Registered, Goto(r, p), UNCHANGED registry
        PROVE  RegisteredHasEntry'
    <3>1. /\ run'[r].pc = p /\ run'[r].feat = run[r].feat
          /\ \A q \in Run \ {r} : run'[q] = run[q]
      BY <2>2 DEF Goto, TypeOK, RunsOK, RunState
    <3>. QED  BY <2>2, <3>1, ExclusiveUpdate DEF RegisteredHasEntry
  <2>3. ASSUME NEW todo, GotoSteps(r, todo), UNCHANGED registry,
               run[r].pc \in Registered
        PROVE  RegisteredHasEntry'
    <3>1. /\ run'[r].pc = "steps" /\ run'[r].feat = run[r].feat
          /\ \A q \in Run \ {r} : run'[q] = run[q]
      BY <2>3 DEF GotoSteps, TypeOK, RunsOK, RunState
    <3>. QED  BY <2>3, <3>1, ExclusiveUpdate DEF RegisteredHasEntry
  <2>4. ASSUME NEW p \in {"resume", "plain"}, NEW todo,
               Begin(r, run[r].feat, p, todo),
               \/ UNCHANGED registry
               \/ /\ registry' = [registry EXCEPT ![run[r].feat] = NoRun]
                  /\ run[r].pc \in Registered
        PROVE  RegisteredHasEntry'
    <3>1. run'[r].pc = p /\ \A q \in Run \ {r} : run'[q] = run[q]
      BY <2>4 DEF Begin, TypeOK, RunsOK
    <3>2. p \notin Registered
      BY <2>4 DEF Registered
    <3>3. \A f \in Feature : registry'[f] # registry[f] => registry[f] \in {NoRun, r}
      BY <2>1, <2>4 DEF RegisteredHasEntry, TypeOK
    <3>. QED  BY <2>4, <3>1, <3>2, <3>3, ExclusiveUpdate
  <2>5. ASSUME End(r),
               \/ UNCHANGED registry
               \/ /\ registry' = [registry EXCEPT ![run[r].feat] = NoRun]
                  /\ run[r].pc \in Registered
        PROVE  RegisteredHasEntry'
    <3>1. run'[r].pc = "idle" /\ \A q \in Run \ {r} : run'[q] = run[q]
      BY <2>5 DEF End, TypeOK, RunsOK, Idle
    <3>2. "idle" \notin Registered
      BY DEF Registered
    <3>3. \A f \in Feature : registry'[f] # registry[f] => registry[f] \in {NoRun, r}
      BY <2>1, <2>5 DEF RegisteredHasEntry, TypeOK
    <3>. QED  BY <3>1, <3>2, <3>3, ExclusiveUpdate
  <2>6. ASSUME NEW p \in {"context", "load"}, CallExecute(r, p),
               run[r].pc \notin Registered
        PROVE  RegisteredHasEntry'
    <3>1. ASSUME registry[run[r].feat] = NoRun,
                 Register(r, run[r].feat, "execute", p, {})
          PROVE  RegisteredHasEntry'
      <4>1. /\ run'[r].pc = p /\ run'[r].feat = run[r].feat
            /\ \A q \in Run \ {r} : run'[q] = run[q]
            /\ \A f \in Feature : registry'[f] =
                 IF f = run[r].feat THEN r ELSE registry[f]
        BY <2>1, <3>1 DEF Register, TypeOK, RunsOK
      <4>. QED  BY <2>1, <2>6, <3>1, <4>1, ExclusiveUpdate
    <3>. QED  BY <2>5, <2>6, <3>1 DEF CallExecute
  <2>7. CASE \/ CheckContext(r) \/ Load(r) \/ Mark(r) \/ AgentAborts(r)
             \/ AgentFails(r) \/ Succeed(r) \/ Fail(r)
             \/ AgentDone(r) \/ StepDone(r) \/ Cleanup(r)
    <3>1. run[r].pc \in Registered
      BY <2>7 DEF CheckContext, Load, Mark, AgentDone, AgentAborts, AgentFails,
         MayThrow, StepDone, Succeed, Fail, Cleanup, Registered
    <3>. QED
      BY <2>2, <2>3, <2>4, <2>5, <2>7, <3>1 DEF CheckContext, Load, Mark,
         AgentDone, AgentAborts, AgentFails, StepDone,
         Succeed, Fail, Cleanup
  <2>8. CASE StartStep(r)
    BY <2>8 DEF StartStep, Undisturbed, TypeOK, RunsOK, RunState
  <2>9. CASE ResumePlain(r)
    <3>1. run[r].pc \notin Registered
      BY <2>9 DEF ResumePlain, Registered
    <3>2. ASSUME Goto(r, "again"), UNCHANGED registry
          PROVE  RegisteredHasEntry'
      <4>1. run'[r].pc = "again" /\ \A q \in Run \ {r} : run'[q] = run[q]
        BY <3>2 DEF Goto, TypeOK, RunsOK, RunState
      <4>2. "again" \notin Registered
        BY DEF Registered
      <4>. QED  BY <3>2, <4>1, <4>2, ExclusiveUpdate
    <3>. QED  BY <2>6, <2>9, <3>1, <3>2 DEF ResumePlain
  <2>10. CASE ExecuteWithContext(r) \/ ResetPipeline(r) \/ CompletePipeline(r)
    <3>1. run[r].pc \notin Registered
      BY <2>10 DEF ExecuteWithContext, ResetPipeline, CompletePipeline,
         Registered
    <3>. QED  BY <2>5, <2>6, <2>10, <3>1 DEF ExecuteWithContext,
                 ResetPipeline, CompletePipeline
  <2>11. CASE LoadForResume(r)
    <3>1. status[run[r].feat].phase # "pipeline"
      BY <2>1, StatusTypes DEF TypeOK, Undisturbed
    <3>. QED  BY <2>4, <2>5, <2>11, <3>1 DEF LoadForResume
  <2>12. CASE ResumePipeline(r) \/ StartFollowUp(r)
    BY <2>12 DEF ResumePipeline, StartFollowUp, RegisteredHasEntry
  <2>. QED  BY <1>1, <2>7, <2>8, <2>9, <2>10, <2>11, <2>12 DEF RunStep
<1>2. ASSUME NEW r \in Run, NEW f \in Feature, ExecuteFeature(r, f)
      PROVE  RegisteredHasEntry'
  <2>1. /\ run'[r].pc = "context" /\ run'[r].feat = f
        /\ \A q \in Run \ {r} : run'[q] = run[q]
        /\ \A g \in Feature : registry'[g] = IF g = f THEN r ELSE registry[g]
    BY <1>2 DEF ExecuteFeature, Register, TypeOK, RunsOK
  <2>. QED  BY <1>2, <2>1, ExclusiveUpdate DEF ExecuteFeature
<1>3. ASSUME NEW r \in Run, NEW f \in Feature,
             ResumeFeature(r, f) \/ ResumeNext(r, f)
      PROVE  RegisteredHasEntry'
  <2>1. CASE UNCHANGED <<registry, run>>
    BY <2>1 DEF RegisteredHasEntry
  <2>2. CASE Begin(r, f, "resume", {}) /\ UNCHANGED registry
    <3>1. run'[r].pc = "resume" /\ \A q \in Run \ {r} : run'[q] = run[q]
      BY <2>2 DEF Begin, TypeOK, RunsOK
    <3>2. "resume" \notin Registered
      BY DEF Registered
    <3>. QED  BY <2>2, <3>1, <3>2, ExclusiveUpdate
  <2>. QED  BY <1>3, <2>1, <2>2 DEF ResumeFeature, ResumeNext
<1>4. CASE UNCHANGED <<registry, run>>
  BY <1>4 DEF RegisteredHasEntry
<1>5. CASE Crash
  BY <1>5 DEF Crash, RegisteredHasEntry, Idle, Registered
<1>6. ASSUME NEW r \in Run, NEW f \in Feature
      PROVE  ~FollowUpFeature(r, f) /\ ~StopFeature(f)
  BY DEF FollowUpFeature, StopFeature, Undisturbed
<1>. QED
  BY <1>1, <1>2, <1>3, <1>4, <1>5, <1>6 DEF Next, AgentWrites, MoveFeature,
     DeleteFeature, DeletePipelineStep, ResumeInterrupted, StopFeature,
     Undisturbed, vars

\* Undisturbed, no two runs ever work on the same feature at once.
THEOREM MutualExclusion == Undisturbed => (Spec => []AtMostOneRun)
<1>1. Init => RegisteredHasEntry
  BY DEF Init, RegisteredHasEntry, Idle, Registered
<1>2. Undisturbed /\ TypeOK /\ EntryInv /\ RegisteredHasEntry /\ [Next]_vars
        => RegisteredHasEntry'
  BY NextExclusive
<1>3. RegisteredHasEntry => AtMostOneRun
  BY DEF RegisteredHasEntry, AtMostOneRun
<1>4. Spec => []EntryInv
  BY TypeCorrect, InitEntryInv, NextEntryInv, PTL DEF Spec
<1>5. ASSUME Undisturbed  PROVE Spec => []AtMostOneRun
  <2>1. TypeOK /\ EntryInv /\ RegisteredHasEntry /\ [Next]_vars
          => RegisteredHasEntry'
    BY <1>2, <1>5
  <2>. QED  BY <1>1, <2>1, <1>3, <1>4, TypeCorrect, PTL DEF Spec
<1>. QED  BY <1>5

-----------------------------------------------------------------------------
(***************************************************************************)
(* No orphans but those that something has left behind.  A run that leaves *)
(* the awaits of its work has set the status before, or is recorded; and   *)
(* only a run that is about to work marks a feature unrecorded.            *)
(***************************************************************************)
\* The awaits of a run whose feature is marked as being worked on.
Marked == {"agent", "steps", "stepAgent", "fail"}

Attends(r, f) == run[r].feat = f /\ run[r].pc \in Marked

Attended ==
  \A f \in Feature : Interrupted(f) /\ f \notin left => \E r \in Run : Attends(r, f)

\* What the building blocks do to the run, and leave alone.
LEMMA GotoIs ==
  ASSUME TypeOK, NEW r \in Run, NEW p, Goto(r, p)
  PROVE  /\ run'[r].pc = p /\ run'[r].feat = run[r].feat
         /\ \A q \in Run \ {r} : run'[q] = run[q]
BY DEF TypeOK, RunsOK, RunState, Goto

LEMMA GotoStepsIs ==
  ASSUME TypeOK, NEW r \in Run, NEW todo, GotoSteps(r, todo)
  PROVE  /\ run'[r].pc = "steps" /\ run'[r].feat = run[r].feat
         /\ \A q \in Run \ {r} : run'[q] = run[q]
BY DEF TypeOK, RunsOK, RunState, GotoSteps

LEMMA OthersKept ==
  ASSUME TypeOK, NEW r \in Run, NEW f, NEW p, NEW k, NEW todo,
         \/ Goto(r, p) \/ Begin(r, f, p, todo) \/ Register(r, f, k, p, todo) \/ End(r)
         \/ CallExecute(r, p)
  PROVE  \A q \in Run \ {r} : run'[q] = run[q]
BY DEF TypeOK, RunsOK, Goto, Begin, Register, End, CallExecute

\* Which statuses are at rest.
LEMMA AtRest ==
  /\ ~Unfinished(Backlog) /\ ~Unfinished(Deleted)
  /\ \A f : ~Unfinished(FinalStatus(f))
BY DEF Unfinished, InProgress, Deleted, Backlog, Verified, WaitingApproval,
       FinalStatus, Plain

\* A status write that succeeds or is lost disturbs no other feature.
LEMMA SetStatusFacts ==
  ASSUME TypeOK, NEW f \in Feature, NEW s, SetStatus(f, s)
  PROVE  \A g \in Feature \ {f} : status'[g] = status[g]
BY DEF TypeOK, SetStatus, Stored

LEMMA LeaveFacts ==
  ASSUME NEW S, Leave(S)
  PROVE  \A f \in Feature : Interrupted(f)' /\ f \notin left' => f \notin left /\ f \notin S
BY DEF Leave, Interrupted

\* A last status is stored, or what it leaves is recorded.
LEMMA SettleFacts ==
  ASSUME TypeOK, NEW f \in Feature, NEW s, ~Unfinished(s), Settle(f, s)
  PROVE  /\ \A g \in Feature \ {f} : status'[g] = status[g]
         /\ Interrupted(f)' => f \in left'
         /\ \A g \in Feature : Interrupted(g)' /\ g \notin left' => g \notin left
<1>. DEFINE S == {g \in {f} : status' # Stored(f, s)}
<1>1. SetStatus(f, s) /\ Leave(S)
  BY DEF Settle
<1>2. \A g \in Feature : Interrupted(g)' /\ g \notin left' => g \notin left /\ g \notin S
  <2>. HIDE DEF S
  <2>. QED  BY <1>1, LeaveFacts
<1>3. Interrupted(f)' => status' # Stored(f, s)
  BY AtRest DEF TypeOK, Stored, Interrupted
<1>. QED  BY <1>1, <1>2, <1>3, SetStatusFacts

\* A step of the run r.
LEMMA AttendedUpdate ==
  ASSUME TypeOK, Attended, NEW r \in Run,
         \A q \in Run \ {r} : run'[q] = run[q],
         \A f \in Feature : Interrupted(f)' /\ f \notin left'
           => (Interrupted(f) /\ f \notin left) \/ Attends(r, f)',
         \A f \in Feature : Attends(r, f)
           => Attends(r, f)' \/ ~Interrupted(f)' \/ f \in left'
  PROVE  Attended'
<1>1. ASSUME NEW f \in Feature, Interrupted(f)', f \notin left', ~Attends(r, f)'
      PROVE  \E q \in Run : Attends(q, f)'
  <2>1. PICK q \in Run : Attends(q, f)
    BY <1>1 DEF Attended
  <2>2. q # r
    BY <1>1, <2>1
  <2>. QED  BY <2>1, <2>2 DEF Attends
<1>. QED  BY <1>1 DEF Attended

\* A step of the run r that leaves the statuses and the history alone.
LEMMA AttendedMove ==
  ASSUME TypeOK, Attended, NEW r \in Run, UNCHANGED <<status, left>>,
         \A q \in Run \ {r} : run'[q] = run[q],
         run[r].pc \in Marked => run'[r].pc \in Marked /\ run'[r].feat = run[r].feat
  PROVE  Attended'
BY AttendedUpdate DEF Interrupted, Attends

\* A step that leaves the runs alone.
LEMMA AttendedDisk ==
  ASSUME Attended, UNCHANGED run,
         \A f \in Feature : Interrupted(f)' /\ f \notin left'
           => Interrupted(f) /\ f \notin left
  PROVE  Attended'
BY DEF Attended, Attends

LEMMA RunStepAttended ==
  ASSUME TypeOK, Attended, NEW r \in Run, RunStep(r)
  PROVE  Attended'
<1>0. PICK f \in Feature : f = run[r].feat
  BY DEF TypeOK, RunsOK, RunState, Live, At, MayThrow, RunStep, CheckContext, Load,
         Mark, AgentDone, AgentAborts, AgentFails, StartStep, StepDone, Succeed, Fail,
         Cleanup, LoadForResume, ResumePlain, ExecuteWithContext, ResumePipeline,
         ResetPipeline, CompletePipeline, StartFollowUp
<1>. USE DEF At, disk
<1>1. CASE CheckContext(r) \/ Load(r) \/ Cleanup(r) \/ LoadForResume(r) \/ ResumePlain(r)
           \/ ExecuteWithContext(r) \/ ResumePipeline(r) \/ StartFollowUp(r)
  <2>1. run[r].pc \notin Marked /\ UNCHANGED <<status, left>>
    BY <1>1 DEF CheckContext, Load, Cleanup, LoadForResume, ResumePlain,
                ExecuteWithContext, ResumePipeline, StartFollowUp, Marked
  <2>2. \A q \in Run \ {r} : run'[q] = run[q]
    BY <1>1, OthersKept DEF CheckContext, Load, Cleanup, LoadForResume, ResumePlain,
                ExecuteWithContext, ResumePipeline, StartFollowUp
  <2>. QED  BY <2>1, <2>2, AttendedMove
<1>2. CASE AgentFails(r)
  <2>1. run'[r].pc = "fail" /\ run'[r].feat = f
        /\ \A q \in Run \ {r} : run'[q] = run[q]
    BY <1>0, <1>2, GotoIs DEF AgentFails
  <2>. QED  BY <1>0, <1>2, <2>1, AttendedMove DEF AgentFails, Marked
<1>3. CASE AgentDone(r) \/ StepDone(r)
  <2>1. run'[r].pc = "steps" /\ run'[r].feat = f /\ UNCHANGED <<status, left>>
        /\ \A q \in Run \ {r} : run'[q] = run[q]
    BY <1>0, <1>3, GotoStepsIs DEF AgentDone, StepDone
  <2>. QED  BY <1>0, <2>1, AttendedMove DEF Marked
<1>4. CASE AgentAborts(r)
  <2>1. UNCHANGED status /\ Leave({f}) /\ \A q \in Run \ {r} : run'[q] = run[q]
    BY <1>0, <1>4, GotoIs DEF AgentAborts
  <2>2. \A g \in Feature : Interrupted(g)' /\ g \notin left' => g \notin left /\ g # f
    BY <2>1, LeaveFacts
  <2>. QED  BY <1>0, <2>1, <2>2, AttendedUpdate DEF Interrupted, Attends
<1>5. CASE Mark(r) \/ StartStep(r)
  <2>1. run'[r].pc \in Marked /\ run'[r].feat = f /\ UNCHANGED left
        /\ \A q \in Run \ {r} : run'[q] = run[q]
    BY <1>0, <1>5, GotoIs DEF Mark, StartStep, Marked
  <2>2. \A g \in Feature \ {f} : status'[g] = status[g]
    BY <1>0, <1>5, SetStatusFacts DEF Mark, StartStep
  <2>. QED  BY <1>0, <2>1, <2>2, AttendedUpdate DEF Interrupted, Attends
<1>6. ASSUME NEW s, ~Unfinished(s), Settle(f, s), \A q \in Run \ {r} : run'[q] = run[q]
      PROVE  Attended'
  <2>1. /\ \A g \in Feature \ {f} : status'[g] = status[g]
        /\ Interrupted(f)' => f \in left'
        /\ \A g \in Feature : Interrupted(g)' /\ g \notin left' => g \notin left
    BY <1>6, SettleFacts
  <2>. QED  BY <1>0, <1>6, <2>1, AttendedUpdate DEF Interrupted, Attends
<1>7. CASE Succeed(r) \/ CompletePipeline(r)
  <2>1. Settle(f, FinalStatus(f)) /\ \A q \in Run \ {r} : run'[q] = run[q]
    BY <1>0, <1>7, OthersKept DEF Succeed, CompletePipeline
  <2>. QED  BY <1>6, <2>1, AtRest
<1>8. CASE Fail(r)
  <2>1. \A q \in Run \ {r} : run'[q] = run[q]
    BY <1>8, GotoIs DEF Fail
  <2>2. CASE Settle(f, Backlog)
    BY <1>6, <2>1, <2>2, AtRest
  <2>3. CASE UNCHANGED status /\ Leave({f})
    <3>1. \A g \in Feature : Interrupted(g)' /\ g \notin left' => g \notin left /\ g # f
      BY <2>3, LeaveFacts
    <3>. QED  BY <1>0, <2>1, <2>3, <3>1, AttendedUpdate DEF Interrupted, Attends
  <2>. QED  BY <1>0, <1>8, <2>2, <2>3 DEF Fail
<1>9. CASE ResetPipeline(r)
  <2>1. SetStatus(f, InProgress) /\ Leave({f}) /\ \A q \in Run \ {r} : run'[q] = run[q]
    BY <1>0, <1>9, OthersKept DEF ResetPipeline
  <2>2. \A g \in Feature \ {f} : status'[g] = status[g]
    BY <2>1, SetStatusFacts
  <2>3. \A g \in Feature : Interrupted(g)' /\ g \notin left' => g \notin left /\ g # f
    BY <2>1, LeaveFacts
  <2>. QED  BY <1>0, <2>1, <2>2, <2>3, AttendedUpdate DEF Interrupted, Attends
<1>. QED  BY <1>1, <1>2, <1>3, <1>4, <1>5, <1>7, <1>8, <1>9 DEF RunStep

LEMMA NextAttended == TypeOK /\ Attended /\ [Next]_vars => Attended'
<1>. SUFFICES ASSUME TypeOK, Attended, [Next]_vars
              PROVE  Attended'
  OBVIOUS
<1>. USE DEF At, disk
<1>1. ASSUME NEW r \in Run, RunStep(r)
      PROVE  Attended'
  BY <1>1, RunStepAttended
<1>2. ASSUME NEW r \in Run, NEW f \in Feature,
             \/ ExecuteFeature(r, f) \/ ResumeFeature(r, f) \/ FollowUpFeature(r, f)
             \/ ResumeNext(r, f) /\ run' # run
      PROVE  Attended'
  <2>1. run[r].pc \notin Marked /\ UNCHANGED <<status, left>>
    BY <1>2 DEF ExecuteFeature, ResumeFeature, FollowUpFeature, ResumeNext, Marked
  <2>2. \A q \in Run \ {r} : run'[q] = run[q]
    BY <1>2, OthersKept DEF ExecuteFeature, ResumeFeature, FollowUpFeature, ResumeNext
  <2>. QED  BY <2>1, <2>2, AttendedMove
<1>3. ASSUME NEW f \in Feature, StopFeature(f)
      PROVE  Attended'
  <2>1. registry[f] \in Run /\ UNCHANGED <<status, left>>
    BY <1>3 DEF StopFeature, TypeOK
  <2>2. \A q \in Run : run'[q].pc = run[q].pc /\ run'[q].feat = run[q].feat
    BY <1>3, <2>1 DEF StopFeature, TypeOK, RunsOK, RunState
  <2>. QED  BY <2>1, <2>2 DEF Attended, Attends, Interrupted
<1>4. CASE UNCHANGED <<run, status, left>>
  BY <1>4, AttendedDisk DEF Interrupted
<1>5. ASSUME NEW f \in Feature, NEW s, MoveFeature(f, s)
      PROVE  Attended'
  <2>1. \A g \in Feature \ {f} : status'[g] = status[g]
    BY <1>5 DEF MoveFeature, TypeOK
  <2>2. \A g \in Feature : Interrupted(g)' /\ g \notin left' => g \notin left /\ g # f
    BY <1>5, LeaveFacts DEF MoveFeature
  <2>. QED  BY <1>5, <2>1, <2>2, AttendedDisk DEF MoveFeature, Interrupted
<1>6. ASSUME NEW f \in Feature, DeleteFeature(f)
      PROVE  Attended'
  <2>1. \A g \in Feature : status'[g] = IF g = f THEN Deleted ELSE status[g]
    BY <1>6 DEF DeleteFeature, TypeOK
  <2>2. \A g \in Feature : Interrupted(g)' /\ g \notin left' => g \notin left
    BY <1>6, LeaveFacts DEF DeleteFeature
  <2>. QED  BY <1>6, <2>1, <2>2, AtRest, AttendedDisk DEF DeleteFeature, Interrupted
<1>7. CASE Crash
  <2>1. Leave(Feature)
    BY <1>7 DEF Crash
  <2>. QED  BY <2>1, LeaveFacts DEF Attended
<1>. QED  BY <1>1, <1>2, <1>3, <1>4, <1>5, <1>6, <1>7
          DEF Next, ResumeNext, AgentWrites, DeletePipelineStep, ResumeInterrupted, vars

\* A feature stays in_progress or in a pipeline step with nobody working on it
\* only if an abort, a failed follow-up, a lost write, a mark without a run or a
\* crash has left it there, whatever is stopped, resumed twice, overwritten,
\* moved or deleted meanwhile; for any number of features, runs and steps.
THEOREM NeverOrphaned == Spec => []NoOrphan
<1>1. Init => Attended
  BY AtRest DEF Init, Attended, Interrupted
<1>2. Attended => NoOrphan
  BY DEF Attended, Attends, NoOrphan, Marked, Live
<1>. QED  BY <1>1, <1>2, NextAttended, TypeCorrect, PTL DEF Spec
=============================================================================
