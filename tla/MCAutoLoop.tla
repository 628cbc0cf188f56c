----------------------------- MODULE MCAutoLoop -----------------------------
(***************************************************************************)
(* The loop of auto mode, and runs that wait for approvals, checked in one *)
(* run: Init chooses whether the loops or the approvals go on, the other   *)
(* stay as they are.                                                       *)
(***************************************************************************)
EXTENDS AutoLoop

CONSTANTS Run, Call, NoRun      \* of PlanApproval

VARIABLES
  part,                                     \* rigid: which of the two goes on
  entry_, pending_, planSpec_, run_, call_

Approval == INSTANCE PlanApproval
  WITH MaxVersion <- 2, entry <- entry_, pending <- pending_,
       planSpec <- planSpec_, run <- run_, call <- call_

approvalVars == <<entry_, pending_, planSpec_, run_, call_>>

\* The second feature depends on the first, or not.
Chains == {<<{}, {1}>>, <<{}, {}>>}

\* When the comment about the timeout is right: nobody stops the feature, and
\* the write of an answer never outlasts the stream of the next plan.
TimelyNext ==
  /\ Approval!Next /\ ~Approval!Stop
  /\ \A r \in Run : run_[r].pc = "planning" /\ run_'[r].pc = "saving" =>
       \A c \in Call : call_[c].pc \notin {"updating", "updated"}

PartNext ==
  /\ UNCHANGED part
  /\ \/ part = "loop" /\ Next /\ UNCHANGED approvalVars
     \/ part = "approval" /\ TimelyNext /\ UNCHANGED vars

PartInit == Init /\ Approval!Init /\ part \in {"loop", "approval"}

\* What is at rest asks for nothing.
PartSpec ==
  /\ PartInit /\ [][PartNext]_<<part, vars, approvalVars>>
  /\ \A l \in Loop : WF_vars(Turn(l) \/ Pick(l) \/ \E f \in Feature : Read(l, f))
  /\ Approval!Fairness

\* waitForPlanApproval "times out after 30 minutes": nobody waits for an approval
\* for ever, even if nobody answers.
TimelyWaitsEnd == Approval!NoEternalWait
=============================================================================
