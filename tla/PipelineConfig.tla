--------------------------- MODULE PipelineConfig ---------------------------
(***************************************************************************)
(* The pipeline steps of projects: PipelineService (apps/server/src/       *)
(* services/pipeline-service.ts), which reads, changes and writes          *)
(* pipeline.json without a lock, and the dialog of the board that saves a  *)
(* whole configuration (apps/ui/src/components/views/board-view/dialogs/   *)
(* pipeline-settings-dialog.tsx).                                          *)
(*                                                                         *)
(* Of a step there are its id and its order.  An edit is one request or    *)
(* one session of the dialog; a step it adds has the edit for its id.      *)
(***************************************************************************)
EXTENDS Sequences, FiniteSets, Naturals

CONSTANTS
  Project,
  Edit,
  OldStep,      \* the steps that files have at first
  MaxOrder,     \* bound: the orders that requests give to steps
  Customs,      \* the customs that are checked, see below
  NoFile

(***************************************************************************)
(*   overlap     several edits at a time, also of one project              *)
(*   unreadable  files that cannot be read, which count as missing         *)
(*   orders      updates of a step's order, and moves in the dialog        *)
(***************************************************************************)
AllCustoms == {"overlap", "unreadable", "orders"}

ASSUME CustomAssumption == Customs \subseteq SUBSET AllCustoms
ASSUME MaxOrderAssumption == MaxOrder \in Nat
ASSUME OldStepAssumption == IsFiniteSet(OldStep) /\ OldStep \cap Edit = {}

VARIABLES
  custom,         \* rigid: the customs of this behaviour
  pipelines,      \* pipeline.json of each project
  defaultSteps,   \* DEFAULT_PIPELINE_CONFIG.steps, one array for all projects
  edit,           \* where each edit is and what it holds
  kept            \* history: the steps that were added and never given up

PipelineVars == <<custom, pipelines, defaultSteps, edit, kept>>

StepId == Edit \cup OldStep
PipelineStep == [id : StepId, order : Nat]

ASSUME NoFileAssumption == NoFile \notin Seq(PipelineStep)

Ids(s) == {s[i].id : i \in DOMAIN s}

\* Of an edit: where it is, the array it works on, and the steps that it adds and
\* gives up.
EditState ==
  [pc : {"new", "read", "dialog", "changed", "writing", "over"}, project : Project,
   shared : BOOLEAN, steps : Seq(PipelineStep),
   adds : SUBSET StepId, drops : SUBSET StepId]

IdleEdit(p) ==
  [pc |-> "new", project |-> p, shared |-> FALSE, steps |-> <<>>, adds |-> {}, drops |-> {}]

\* Every state variable has its type.
PipelineTypeOK ==
  /\ custom \in Customs
  /\ pipelines \in [Project -> Seq(PipelineStep) \cup {NoFile}]
  /\ defaultSteps \in Seq(PipelineStep)
  /\ edit \in [Edit -> EditState]
  /\ kept \in [Project -> SUBSET StepId]

\* The sequences of the elements of S, each once.
Orders(S) == {s \in [1 .. Cardinality(S) -> S] : {s[i] : i \in DOMAIN s} = S}

\* The steps with these ids, in this order.
InOrder(s) == [i \in DOMAIN s |-> [id |-> s[i], order |-> i - 1]]

\* A project has no file yet, or one with the old steps in an arbitrary order.
PipelineInit ==
  /\ custom \in Customs
  /\ pipelines \in [Project -> {NoFile, InOrder(CHOOSE s \in Orders(OldStep) : TRUE)}]
  /\ defaultSteps = <<>>
  /\ \E p \in [Edit -> Project] : edit = [e \in Edit |-> IdleEdit(p[e])]
  /\ kept = [p \in Project |-> IF pipelines[p] = NoFile THEN {} ELSE OldStep]

-----------------------------------------------------------------------------
(***************************************************************************)
(* Arrays of steps.                                                        *)
(***************************************************************************)
\* The elements of s at the positions of I, in the order of the relation before:
\* the k-th is the one with k - 1 others before it.
Listed(s, I, before) ==
  [k \in 1 .. Cardinality(I) |->
    s[CHOOSE i \in I : Cardinality({j \in I : <<j, i>> \in before}) = k - 1]]

\* Step i of the array comes before step j: sort by order, which is stable.
Precedes(s) ==
  {p \in (DOMAIN s) \X (DOMAIN s) :
     LET a == s[p[1]].order
         b == s[p[2]].order IN a < b \/ (a = b /\ p[1] < p[2])}

Sorted(s) == Listed(s, DOMAIN s, Precedes(s))

\* filter.
Selected(s, I) == Listed(s, I, {p \in I \X I : p[1] < p[2]})

Numbered(s) == [i \in DOMAIN s |-> [s[i] EXCEPT !.order = i - 1]]

\* Mutant of Added: the new step is just pushed.
AddedAsIs(s, step) == Append(s, step)

\* addStep: pushed, sorted, numbered.
Added(s, step) == Numbered(Sorted(Append(s, step)))

Others(s, id) == Selected(s, {i \in DOMAIN s : s[i].id # id})

\* deleteStep, and handleDeleteStep in the dialog: numbered as the array stands.
Without(s, id) == Numbered(Others(s, id))

\* The order in which auto mode runs the steps.
RunOrder(s) == [k \in DOMAIN s |-> Sorted(s)[k].id]

-----------------------------------------------------------------------------
(***************************************************************************)
(* Requests.                                                               *)
(***************************************************************************)
\* The steps that an edit works on.  One that found no file has the array of the
\* default configuration in its hands, which it shares with everybody else.
StepsOf(e) == IF edit[e].shared THEN defaultSteps ELSE edit[e].steps

\* The edit is done with.
Over(e) == [IdleEdit(edit[e].project) EXCEPT !.pc = "over"]

\* readJsonFile.
ReadConfig(e) ==
  LET p == edit[e].project IN
  /\ edit[e].pc = "new"
  /\ "overlap" \in custom \/ \A f \in Edit : edit[f].pc \in {"new", "over"}
  /\ \/ /\ pipelines[p] = NoFile \/ "unreadable" \in custom
        /\ edit' = [edit EXCEPT ![e].pc = "read", ![e].shared = TRUE]
     \/ /\ pipelines[p] # NoFile
        /\ edit' = [edit EXCEPT ![e].pc = "read", ![e].steps = pipelines[p]]
  /\ UNCHANGED <<custom, pipelines, defaultSteps, kept>>

\* The edit changes the array it has, in place.
Change(e, s, adds, drops) ==
  /\ edit' = [edit EXCEPT ![e].pc = "changed", ![e].adds = adds, ![e].drops = drops,
                          ![e].steps = IF edit[e].shared THEN <<>> ELSE s]
  /\ defaultSteps' = IF edit[e].shared THEN s ELSE defaultSteps
  /\ UNCHANGED <<custom, pipelines, kept>>

AddStep(e) ==
  /\ edit[e].pc = "read"
  /\ \E o \in 0 .. MaxOrder : Change(e, Added(StepsOf(e), [id |-> e, order |-> o]), {e}, {})

DeleteStep(e) ==
  /\ edit[e].pc = "read"
  /\ \E id \in Ids(StepsOf(e)) : Change(e, Without(StepsOf(e), id), {}, {id})

\* An update that sets the order.
UpdateStep(e) ==
  /\ edit[e].pc = "read" /\ "orders" \in custom
  /\ \E i \in DOMAIN StepsOf(e), o \in 0 .. MaxOrder :
       Change(e, [StepsOf(e) EXCEPT ![i].order = o], {}, {})

\* The steps that are named, in the order in which they are named; this makes a
\* new array.
ReorderSteps(e) ==
  /\ edit[e].pc = "read"
  /\ \E S \in SUBSET Ids(StepsOf(e)) : \E s \in Orders(S) :
       edit' = [edit EXCEPT ![e].pc = "changed", ![e].shared = FALSE,
                            ![e].steps = InOrder(s), ![e].drops = Ids(StepsOf(e)) \ S]
  /\ UNCHANGED <<custom, pipelines, defaultSteps, kept>>

\* A step that the request names is not there, or the directory cannot be made.
Refuse(e) ==
  /\ edit[e].pc \in {"read", "changed"}
  /\ edit' = [edit EXCEPT ![e] = Over(e)]
  /\ UNCHANGED <<custom, pipelines, defaultSteps, kept>>

\* JSON.stringify, once the directory is there.
Serialize(e) ==
  /\ edit[e].pc = "changed"
  /\ edit' = [edit EXCEPT ![e].pc = "writing", ![e].shared = FALSE, ![e].steps = StepsOf(e)]
  /\ UNCHANGED <<custom, pipelines, defaultSteps, kept>>

\* Mutant of WriteConfig: a write that fails is answered like one that does not.
WriteAnswersAnyway(e) ==
  LET p == edit[e].project IN
  /\ edit[e].pc = "writing"
  /\ \/ pipelines' = [pipelines EXCEPT ![p] = edit[e].steps]
     \/ UNCHANGED pipelines
  /\ kept' = [kept EXCEPT ![p] = (@ \cup edit[e].adds) \ edit[e].drops]
  /\ edit' = [edit EXCEPT ![e] = Over(e)]
  /\ UNCHANGED <<custom, defaultSteps>>

\* The temp file is written and renamed, and the request answered; or it fails.
WriteConfig(e) ==
  LET p == edit[e].project IN
  /\ edit[e].pc = "writing"
  /\ \/ /\ pipelines' = [pipelines EXCEPT ![p] = edit[e].steps]
        /\ kept' = [kept EXCEPT ![p] = (@ \cup edit[e].adds) \ edit[e].drops]
     \/ UNCHANGED <<pipelines, kept>>
  /\ edit' = [edit EXCEPT ![e] = Over(e)]
  /\ UNCHANGED <<custom, defaultSteps>>

-----------------------------------------------------------------------------
(***************************************************************************)
(* The dialog, which works on the answer to GET of the configuration until *)
(* it is saved or closed.                                                  *)
(***************************************************************************)
OpenDialog(e) ==
  /\ edit[e].pc = "read"
  /\ edit' = [edit EXCEPT ![e].pc = "dialog", ![e].shared = FALSE, ![e].steps = StepsOf(e)]
  /\ UNCHANGED <<custom, pipelines, defaultSteps, kept>>

InDialog(e, s, adds, drops) ==
  /\ edit[e].pc = "dialog"
  /\ edit' = [edit EXCEPT ![e].steps = s, ![e].adds = adds, ![e].drops = drops]
  /\ UNCHANGED <<custom, pipelines, defaultSteps, kept>>

\* handleMoveStep: of two neighbours in the sorted array the orders are swapped.
MoveStep(e) ==
  LET s == Sorted(edit[e].steps) IN
  /\ "orders" \in custom
  /\ \E i \in 1 .. Len(s) - 1 :
       InDialog(e, [s EXCEPT ![i].order = s[i + 1].order, ![i + 1].order = s[i].order],
                edit[e].adds, edit[e].drops)

RemoveStep(e) ==
  \E id \in Ids(edit[e].steps) :
    InDialog(e, Without(edit[e].steps, id), edit[e].adds \ {id}, edit[e].drops \cup {id})

\* handleSaveStep with a new step.
AppendStep(e) ==
  LET s == edit[e].steps IN
  /\ e \notin edit[e].adds \cup edit[e].drops
  /\ InDialog(e, Append(s, [id |-> e, order |-> Len(s)]), {e}, edit[e].drops)

SaveDialog(e) ==
  /\ edit[e].pc = "dialog"
  /\ edit' = [edit EXCEPT ![e].pc = "writing", ![e].steps = Numbered(Sorted(@))]
  /\ UNCHANGED <<custom, pipelines, defaultSteps, kept>>

CloseDialog(e) ==
  /\ edit[e].pc = "dialog"
  /\ edit' = [edit EXCEPT ![e] = Over(e)]
  /\ UNCHANGED <<custom, pipelines, defaultSteps, kept>>

PipelineNext ==
  \E e \in Edit :
    \/ ReadConfig(e) \/ AddStep(e) \/ DeleteStep(e) \/ UpdateStep(e) \/ ReorderSteps(e)
    \/ Refuse(e) \/ Serialize(e) \/ WriteConfig(e)
    \/ OpenDialog(e) \/ MoveStep(e) \/ RemoveStep(e) \/ AppendStep(e)
    \/ SaveDialog(e) \/ CloseDialog(e)

PipelineSpec == PipelineInit /\ [][PipelineNext]_PipelineVars

-----------------------------------------------------------------------------
(***************************************************************************)
(* Properties.                                                             *)
(***************************************************************************)
\* As long as edits come one at a time and files can be read, a step whose
\* addition was answered stays until a request gives it up, whatever fails and
\* whatever the default configuration has become.
StepsStay ==
  custom \cap {"overlap", "unreadable"} = {} =>
    \A p \in Project : pipelines[p] # NoFile => kept[p] \subseteq Ids(pipelines[p])

\* As long as nobody sets orders or moves steps, the deletion of a step leaves
\* the others in the order in which they run.
OrderKept(e) ==
  LET before == RunOrder(StepsOf(e))
      after == RunOrder(StepsOf(e)') IN
  DeleteStep(e) \/ RemoveStep(e) =>
    after = Selected(before, {i \in DOMAIN before : before[i] \in Ids(StepsOf(e)')})

DeletionKeepsOrder ==
  [][\A e \in Edit : "orders" \notin custom => OrderKept(e)]_PipelineVars

\* The same with orders and moves.  The code does not meet it: deleteStep and the
\* dialog number the rest as the array stands, which may not be as it is sorted.
DeletionAlwaysKeepsOrder == [][\A e \in Edit : OrderKept(e)]_PipelineVars

\* getPipelineConfig of a project that has no file, and that nobody else edits,
\* returns an "empty steps array if no config exists".  The code does not meet
\* it: a step added for want of a file is added to the default of all projects.
EmptyWithoutFile ==
  \A e \in Edit :
    LET p == edit[e].project IN
    /\ edit[e].pc = "read" /\ pipelines[p] = NoFile
    /\ \A f \in Edit \ {e} : edit[f].project # p
    => StepsOf(e) = <<>>
=============================================================================
