----------------------------- MODULE MCJsonFile -----------------------------
(***************************************************************************)
(* The files of a project, checked in one run: three ways in which one     *)
(* feature.json is used, each with its own copy of JsonFile's variables,   *)
(* and two handlers that read and write files without it.  Init chooses    *)
(* one for the whole behaviour, and the others stay as they are.           *)
(*                                                                         *)
(*   serial      one update at a time beside a reader, crashes, failing    *)
(*               reads and writes, stamps that may be equal: the module as *)
(*               extended                                                  *)
(*   concurrent  two callers at once and everything that may go wrong,     *)
(*               stamps all different                                      *)
(*   damaged     one caller, a longer history of updates and of backups,   *)
(*               and outsiders that damage the file between its writes     *)
(*   backlog     a plan applied to a board of two dependencies at most, of *)
(*               one if the user edits it meanwhile                        *)
(*   pipeline    two edits of the pipelines of two projects                *)
(***************************************************************************)
EXTENDS JsonFile, BacklogApply, PipelineConfig, TLC

CONSTANTS
  PairUpdate,                    \* the updates of the two concurrent callers
  Writer, LongHistory            \* the single caller and its updates

ASSUME PairAssumption ==
  NoUpdate \notin PairUpdate /\ \A d \in SUBSET PairUpdate : d \notin {None, Torn}
ASSUME HistoryAssumption ==
  NoUpdate \notin LongHistory /\ \A d \in SUBSET LongHistory : d \notin {None, Torn}

VARIABLES
  usage,                                      \* rigid: which copy is in use
  cMain, cTemp, cBak, cClock, cProc, cDone,   \* of the concurrent use
  cRecovered, cUndone,
  dMain, dTemp, dBak, dClock, dProc, dDone,   \* of the damaged file
  dRecovered, dUndone

Concurrent == INSTANCE JsonFile
  WITH Update <- PairUpdate, MaxBackups <- 1, MaxStamp <- 2,
       Distinct <- TRUE, Serial <- FALSE, Faults <- AllFaults,
       main <- cMain, temp <- cTemp, bak <- cBak, clock <- cClock,
       proc <- cProc, done <- cDone, recovered <- cRecovered, undone <- cUndone

Damaged == INSTANCE JsonFile
  WITH Proc <- {Writer}, Update <- LongHistory, MaxBackups <- 3,
       MaxStamp <- 5, Distinct <- TRUE, Serial <- FALSE,
       Faults <- {"corrupt", "writeFails"},
       main <- dMain, temp <- dTemp, bak <- dBak, clock <- dClock,
       proc <- dProc, done <- dDone, recovered <- dRecovered, undone <- dUndone

concurrentVars ==
  <<cMain, cTemp, cBak, cClock, cProc, cDone, cRecovered, cUndone>>
damagedVars ==
  <<dMain, dTemp, dBak, dClock, dProc, dDone, dRecovered, dUndone>>

\* A backlog or pipeline that is not in use has one initial state.
UsageInit ==
  /\ usage \in {"serial", "concurrent", "damaged", "backlog", "pipeline"}
  /\ Init /\ Concurrent!Init /\ Damaged!Init /\ ApplyInit /\ PipelineInit
  /\ usage # "backlog" => use = {"repeats"} /\ deps = Empty
  /\ Cardinality(UNION {{<<f, d>> : d \in deps[f]} : f \in Feature})
       <= IF "edits" \in use THEN 1 ELSE 2
  /\ usage # "pipeline" =>
       /\ custom = {} /\ \A p \in Project : pipelines[p] = NoFile
       /\ \A e \in Edit : edit[e].project = CHOOSE p \in Project : TRUE

UsageNext ==
  /\ UNCHANGED usage
  /\ \/ /\ usage = "serial" /\ Next
        /\ UNCHANGED <<concurrentVars, damagedVars, ApplyVars, PipelineVars>>
     \/ /\ usage = "concurrent" /\ Concurrent!Next
        /\ UNCHANGED <<vars, damagedVars, ApplyVars, PipelineVars>>
     \/ /\ usage = "damaged" /\ Damaged!Next
        /\ UNCHANGED <<vars, concurrentVars, ApplyVars, PipelineVars>>
     \/ /\ usage = "backlog" /\ ApplyNext
        /\ UNCHANGED <<vars, concurrentVars, damagedVars, PipelineVars>>
     \/ /\ usage = "pipeline" /\ PipelineNext
        /\ UNCHANGED <<vars, concurrentVars, damagedVars, ApplyVars>>

UsageSpec ==
  /\ UsageInit
  /\ [][UsageNext]_<<usage, vars, concurrentVars, damagedVars, ApplyVars, PipelineVars>>

\* The callers of a file are interchangeable, and so are the updates that they
\* make in the serial and in the concurrent use.
UsageSymmetry == Permutations(Proc) \cup Permutations(Update)

\* The variables of every use have their types.
UsageTypeOK == TypeOK /\ ApplyTypeOK /\ PipelineTypeOK

\* Neither a write nor the restoring of a temp file ever turns a whole file
\* into half a one, with two concurrent callers and all faults.
ConcurrentWritesKeepWhole == Concurrent!WritesKeepWhole

\* Should the file become unreadable, the recovery returns a document that
\* lacks one completed update at most, also halfway through a rotation.
DamagedBackupsTrail == Damaged!BackupsTrail
=============================================================================
