--------------------------- MODULE MCAutoModeQuiet ---------------------------
(***************************************************************************)
(* TLC instances of AutoMode in which nobody stops a run or asks for a     *)
(* follow-up.  Init chooses between two copies of the variables:           *)
(*                                                                         *)
(*   exclusive  no pipeline, several runs of a feature, resumes, deletions *)
(*              and crashes: the module as extended                        *)
(*   progress   two features and a pipeline step that may be deleted; they *)
(*              are not moved or deleted, the server does not crash, and   *)
(*              their statuses are written                                 *)
(***************************************************************************)
EXTENDS AutoMode

CONSTANTS
  PairFeature, PairRun      \* the features and the runs of the second copy

ASSUME PairAssumption ==
  Manual \subseteq PairFeature /\ NoRun \notin PairRun /\ NoFeature \notin PairFeature

VARIABLES
  quiet,                                                 \* rigid: which copy
  pRegistry, pRun, pStatus, pLeft, pContext, pPipeline, pResumer

Progress == INSTANCE AutoMode
  WITH Feature <- PairFeature, Run <- PairRun, Step <- {1}, Manual <- Manual,
       Ops <- {"execute", "resume", "resumeInterrupted", "deleteStep"},
       registry <- pRegistry, run <- pRun, status <- pStatus, left <- pLeft,
       context <- pContext, pipeline <- pPipeline, resumer <- pResumer

progressVars ==
  <<pRegistry, pRun, pStatus, pLeft, pContext, pPipeline, pResumer>>

QuietInit ==
  /\ quiet \in {"exclusive", "progress"}
  /\ Init /\ Progress!Init

QuietNext ==
  \/ quiet = "exclusive" /\ Next /\ UNCHANGED <<quiet, progressVars>>
  \/ quiet = "progress" /\ Progress!Next /\ UNCHANGED <<quiet, vars>>

\* Fairness is that of the second copy; at rest it asks for nothing.
QuietSpec ==
  /\ QuietInit /\ [][QuietNext]_<<quiet, vars, progressVars>>
  /\ \A r \in PairRun : WF_progressVars(Progress!RunStep(r))
  /\ SF_progressVars(Progress!ResumerStep)

\* Every registered run releases its entry, and resumeInterruptedFeatures gets
\* to every feature of its list, with agents that fail.  (A status that is not
\* written changes neither: the runs of this copy end all the same.)
ProgressNothingStuck == Progress!EntryReleased /\ Progress!ResumerDrains
=============================================================================
