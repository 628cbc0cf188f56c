--------------------------- MODULE BoardAutoMode ----------------------------
(***************************************************************************)
(* Auto mode as the board runs it (apps/ui/src/components/views/           *)
(* board-view.tsx): every three seconds a check starts features from the   *)
(* backlog over HTTP, while the server tells of its runs over a WebSocket  *)
(* and the board reloads its features, and asks for interrupted ones to be *)
(* resumed, whenever a run ends.                                           *)
(*                                                                         *)
(* The server is AutoMode as the board sees it: a feature has at most one  *)
(* run, and nobody stops one.  A feature is its priority, so that a list   *)
(* of features sorted by priority is a set; every feature has a branch and *)
(* no dependencies.                                                        *)
(***************************************************************************)
EXTENDS Naturals, FiniteSets, Sequences

CONSTANTS
  N,            \* how many features the board has
  Limits,       \* values of maxConcurrency
  Load,         \* bound: the reloads that are under way at once
  Check,        \* bound: the checks that are under way at once
  MaxFailures,  \* bound: how many runs and requests fail
  Conditions    \* the conditions that are checked, see below

(***************************************************************************)
(*   late    responses may come after events that were sent later, and a   *)
(*           run may end while resumeInterruptedFeatures reads the files   *)
(*   steps   runs have pipeline steps, or plans to be approved             *)
(*   fail    runs and requests may fail                                    *)
(*   toggle  auto mode is switched off and on, or the effect is run again  *)
(***************************************************************************)
AllConditions == {"late", "steps", "fail", "toggle"}

ASSUME ConditionAssumption == Conditions \subseteq SUBSET AllConditions
ASSUME LimitAssumption == Limits \subseteq Nat /\ N \in Nat /\ MaxFailures \in Nat

VARIABLES
  condition,    \* rigid: the condition of this behaviour
  limit,        \* rigid: maxConcurrency
  failures,     \* how many more failures there may be
  on,           \* the effect is active: auto mode is running
  shown,        \* the statuses that the board has in its store
  tasks,        \* runningTasks of the store
  pending,      \* pendingFeaturesRef
  check,        \* the calls of checkAndStartFeatures
  load,         \* the calls of loadFeatures
  loaded,       \* the statuses that the answer to getAll has
  disk,         \* the statuses in the feature files
  run,          \* the server's run of each feature
  context,      \* the features that have agent output
  resuming,     \* the features that resumeInterruptedFeatures has still to resume
  events,       \* the events that the server has sent
  overlooked    \* history: the runs that the board cannot count, see Enlist

boardVars == <<on, shown, tasks, pending, check, load, loaded>>
serverVars == <<disk, run, context, resuming, overlooked>>
rigid == <<condition, limit>>
vars == <<rigid, failures, boardVars, serverVars, events>>

Feature == 1 .. N
Status == {"backlog", "in_progress", "done"}
Event == {"start", "step", "end"} \X Feature

\* A check that is starting the first feature of its list: the status is being
\* persisted (or has been, or could not be), then the run is asked for.
Starting ==
  [step : {"persist", "persisted", "unsaved", "ask", "started", "refused"},
   list : SUBSET Feature, active : BOOLEAN]
NoCheck == [step |-> "none", list |-> {}, active |-> FALSE]

\* Every state variable has its type.
TypeOK ==
  /\ condition \in Conditions /\ limit \in Limits /\ failures \in 0 .. MaxFailures
  /\ on \in BOOLEAN
  /\ shown \in [Feature -> Status] /\ disk \in [Feature -> Status]
  /\ tasks \subseteq Feature /\ pending \subseteq Feature
  /\ check \in [Check -> Starting \cup {NoCheck}]
  /\ load \in [Load -> {"none", "asked", "answered", "resume"}]
  /\ loaded \in [Load -> [Feature -> Status]]
  /\ run \in [Feature -> {"none", "entered", "begun", "working", "ended"}]
  /\ context \subseteq Feature /\ resuming \subseteq Feature /\ overlooked \subseteq Feature
  /\ events \in Seq(Event)

AllBacklog == [f \in Feature |-> "backlog"]

\* The board has been loaded and auto mode has just been switched on.
Init ==
  /\ condition \in Conditions /\ limit \in Limits
  /\ failures = IF "fail" \in condition THEN MaxFailures ELSE 0
  /\ on = TRUE
  /\ shown = AllBacklog /\ disk = AllBacklog
  /\ tasks = {} /\ pending = {}
  /\ check = [c \in Check |-> NoCheck]
  /\ load = [l \in Load |-> "none"]
  /\ loaded = [l \in Load |-> AllBacklog]
  /\ run = [f \in Feature |-> "none"]
  /\ context = {} /\ resuming = {} /\ overlooked = {}
  /\ events = <<>>

-----------------------------------------------------------------------------
(***************************************************************************)
(* The checks of the board.                                                *)
(***************************************************************************)
FirstOf(list) == CHOOSE f \in list : \A g \in list : f <= g

\* The loop of a check goes on with a list of features, the board showing what
\* is in statuses: handleStartImplementation moves the first to in_progress and
\* persists that, unless the effect has been cleaned up.  (Its own check of the
\* limit is the one of the render that the check began with.)
StartNext(c, list, active, statuses) ==
  IF list = {} \/ ~active
    THEN /\ check' = [check EXCEPT ![c] = NoCheck]
         /\ shown' = statuses
    ELSE /\ check' = [check EXCEPT ![c] =
                        [step |-> "persist", list |-> list, active |-> TRUE]]
         /\ shown' = [statuses EXCEPT ![FirstOf(list)] = "in_progress"]

GotoStep(c, step) == check' = [check EXCEPT ![c].step = step]

First(c) == FirstOf(check[c].list)

\* The first n features of a set by priority, or all of them.
MostUrgent(S, n) == {f \in S : Cardinality({g \in S : g < f}) < n}

\* isChecking and isActive of the effect.
MayCheck(c) ==
  /\ on
  /\ check[c] = NoCheck
  /\ \A d \in Check : ~check[d].active

\* Mutant of CheckFeatures: only the running tasks are counted.
CheckIgnoresPending(c) ==
  LET backlog == {f \in Feature : shown[f] = "backlog"}
      slots == limit - Cardinality(tasks) IN
  /\ MayCheck(c)
  /\ slots > 0 /\ backlog # {}
  /\ StartNext(c, MostUrgent(backlog, slots), TRUE, shown)
  /\ UNCHANGED <<rigid, failures, on, tasks, pending, load, loaded, serverVars, events>>

\* checkAndStartFeatures up to its first await.
CheckFeatures(c) ==
  LET backlog == {f \in Feature : shown[f] = "backlog"}
      slots == limit - (Cardinality(tasks) + Cardinality(pending)) IN
  /\ MayCheck(c)
  /\ slots > 0 /\ backlog # {}
  /\ StartNext(c, MostUrgent(backlog, slots), TRUE, shown)
  /\ UNCHANGED <<rigid, failures, on, tasks, pending, load, loaded, serverVars, events>>

Fail == failures > 0 /\ failures' = failures - 1

\* The server stores the status.
PersistStatus(c) ==
  /\ check[c].step = "persist"
  /\ \/ /\ disk' = [disk EXCEPT ![First(c)] = "in_progress"]
        /\ GotoStep(c, "persisted")
        /\ UNCHANGED failures
     \/ /\ Fail
        /\ GotoStep(c, "unsaved")
        /\ UNCHANGED disk
  /\ UNCHANGED <<rigid, on, shown, tasks, pending, load, loaded,
                 run, context, resuming, overlooked, events>>

\* persistFeatureUpdate shows what the server stored, and swallows errors.
StatusPersisted(c) ==
  /\ check[c].step \in {"persisted", "unsaved"}
  /\ shown' = IF check[c].step = "persisted"
                THEN [shown EXCEPT ![First(c)] = "in_progress"] ELSE shown
  /\ GotoStep(c, "ask")
  /\ UNCHANGED <<rigid, failures, on, tasks, pending, load, loaded, serverVars, events>>

\* executeFeature, which throws if the feature is running already.  The board is
\* going to overlook a run if the end of an earlier one is still to arrive, which
\* it takes for the end of this one, and if the server resumes the feature.
Enlist(f, unseen) ==
  IF run[f] = "none"
    THEN /\ run' = [run EXCEPT ![f] = "entered"]
         /\ overlooked' = IF unseen THEN overlooked \cup {f} ELSE overlooked
    ELSE UNCHANGED <<run, overlooked>>

EndArrives(f) == \E i \in DOMAIN events : events[i] = <<"end", f>>

\* POST /run-feature answers with success while executeFeature is under way.
RunFeature(c) ==
  /\ check[c].step = "ask"
  /\ \/ /\ Enlist(First(c), EndArrives(First(c)))
        /\ GotoStep(c, "started")
        /\ UNCHANGED failures
     \/ /\ Fail
        /\ GotoStep(c, "refused")
        /\ UNCHANGED <<run, overlooked>>
  /\ UNCHANGED <<rigid, on, shown, tasks, pending, load, loaded, disk, context, resuming, events>>

\* The feature is pending, or shown in the backlog again, and the next one
\* has its turn.
RunAnswered(c) ==
  LET goOn(statuses) ==
        StartNext(c, check[c].list \ {First(c)}, check[c].active, statuses)
  IN
  /\ \/ /\ check[c].step = "started"
        /\ pending' = pending \cup {First(c)}
        /\ goOn(shown)
     \/ /\ check[c].step = "refused"
        /\ goOn([shown EXCEPT ![First(c)] = "backlog"])
        /\ UNCHANGED pending
  /\ UNCHANGED <<rigid, failures, on, tasks, load, loaded, serverVars, events>>

\* Mutant of Toggle: the cleanup gives up the check that is under way.
ToggleDropsCheck ==
  /\ "toggle" \in condition
  /\ on' = ~on
  /\ pending' = IF on THEN {} ELSE pending
  /\ check' = [c \in Check |-> [check[c] EXCEPT !.active = FALSE, !.step = "none"]]
  /\ UNCHANGED <<rigid, failures, shown, tasks, load, loaded, serverVars, events>>

\* The effect is cleaned up when auto mode is switched off or a setting or the
\* worktree in view changes.
Toggle ==
  /\ "toggle" \in condition
  /\ on' = ~on
  /\ IF on
       THEN /\ pending' = {}
            /\ check' = [c \in Check |-> [check[c] EXCEPT !.active = FALSE]]
       ELSE UNCHANGED <<pending, check>>
  /\ UNCHANGED <<rigid, failures, shown, tasks, load, loaded, serverVars, events>>

-----------------------------------------------------------------------------
(***************************************************************************)
(* Events and reloads.                                                     *)
(***************************************************************************)
\* Nothing that was sent before the first event is still to arrive.
InOrder ==
  \/ "late" \in condition
  \/ /\ \A c \in Check : check[c].step \notin {"persisted", "unsaved", "started", "refused"}
     /\ \A l \in Load : load[l] # "answered"

Arrives(kind, f) ==
  /\ InOrder
  /\ events # <<>> /\ Head(events) = <<kind, f>>
  /\ events' = Tail(events)
  /\ UNCHANGED <<rigid, failures, on, shown, check, loaded, serverVars>>

\* loadFeatures asks for all features.
BeginLoad ==
  \E l \in Load : load[l] = "none" /\ load' = [load EXCEPT ![l] = "asked"]

FeatureStart(f) ==
  /\ Arrives("start", f)
  /\ pending' = pending \ {f}
  /\ tasks' = tasks \cup {f}
  /\ UNCHANGED load

\* A pipeline step began, or a plan waits for approval.
StepStarted(f) ==
  /\ Arrives("step", f)
  /\ BeginLoad
  /\ UNCHANGED <<pending, tasks>>

\* Mutant of FeatureEnd: it is left to the start event to clear pending.
FeatureEndKeepsPending(f) ==
  /\ Arrives("end", f)
  /\ tasks' = tasks \ {f}
  /\ BeginLoad
  /\ UNCHANGED pending

\* Mutant of FeatureEnd: the task is not removed.
FeatureEndKeepsTask(f) ==
  /\ Arrives("end", f)
  /\ pending' = pending \ {f}
  /\ BeginLoad
  /\ UNCHANGED tasks

\* auto_mode_feature_complete and auto_mode_error.
FeatureEnd(f) ==
  /\ Arrives("end", f)
  /\ pending' = pending \ {f}
  /\ tasks' = tasks \ {f}
  /\ BeginLoad

GetAll(l) ==
  /\ load[l] = "asked"
  /\ load' = [load EXCEPT ![l] = "answered"]
  /\ loaded' = [loaded EXCEPT ![l] = disk]
  /\ UNCHANGED <<rigid, failures, on, shown, tasks, pending, check, serverVars, events>>

\* setFeatures; what has been shown meanwhile is overwritten.
SetFeatures(l) ==
  /\ load[l] = "answered"
  /\ load' = [load EXCEPT ![l] = "resume"]
  /\ shown' = loaded[l]
  /\ loaded' = [loaded EXCEPT ![l] = AllBacklog]
  /\ UNCHANGED <<rigid, failures, on, tasks, pending, check, serverVars, events>>

\* Every reload asks the server to resume what was interrupted: features that
\* are in progress with agent output.  Those that are running it passes over,
\* once it comes to them.
ResumeInterrupted(l) ==
  LET interrupted == {f \in context : disk[f] = "in_progress"} IN
  /\ load[l] = "resume"
  /\ load' = [load EXCEPT ![l] = "none"]
  /\ resuming' = resuming \cup
       {f \in interrupted : run[f] = "none" \/ "late" \in condition}
  /\ UNCHANGED <<rigid, failures, on, shown, tasks, pending, check, loaded,
                 disk, run, context, overlooked, events>>

-----------------------------------------------------------------------------
(***************************************************************************)
(* The server.                                                             *)
(***************************************************************************)
ResumeNext(f) ==
  /\ f \in resuming
  /\ resuming' = resuming \ {f}
  /\ Enlist(f, TRUE)
  /\ UNCHANGED <<rigid, failures, boardVars, disk, context, events>>

Send(kind, f) == events' = Append(events, <<kind, f>>)

BeginRun(f) ==
  /\ run[f] = "entered"
  /\ run' = [run EXCEPT ![f] = "begun"]
  /\ Send("start", f)
  /\ UNCHANGED <<rigid, failures, boardVars, disk, context, resuming, overlooked>>

MarkInProgress(f) ==
  /\ run[f] = "begun"
  /\ run' = [run EXCEPT ![f] = "working"]
  /\ disk' = [disk EXCEPT ![f] = "in_progress"]
  /\ context' = context \cup {f}
  /\ UNCHANGED <<rigid, failures, boardVars, resuming, overlooked, events>>

\* One event at a time.
BeginStep(f) ==
  /\ "steps" \in condition
  /\ run[f] = "working"
  /\ ~\E i \in DOMAIN events : events[i] = <<"step", f>>
  /\ Send("step", f)
  /\ UNCHANGED <<rigid, failures, boardVars, serverVars>>

\* The final status is stored.
AgentEnds(f) ==
  /\ run[f] = "working"
  /\ run' = [run EXCEPT ![f] = "ended"]
  /\ \/ disk' = [disk EXCEPT ![f] = "done"] /\ UNCHANGED failures
     \/ disk' = [disk EXCEPT ![f] = "backlog"] /\ Fail
  /\ UNCHANGED <<rigid, boardVars, context, resuming, overlooked, events>>

EndRun(f) ==
  /\ run[f] = "ended"
  /\ run' = [run EXCEPT ![f] = "none"]
  /\ overlooked' = overlooked \ {f}
  /\ Send("end", f)
  /\ UNCHANGED <<rigid, failures, boardVars, disk, context, resuming>>

-----------------------------------------------------------------------------
ContinueCheck(c) ==
  PersistStatus(c) \/ StatusPersisted(c) \/ RunFeature(c) \/ RunAnswered(c)
ContinueLoad(l) == GetAll(l) \/ SetFeatures(l) \/ ResumeInterrupted(l)
ContinueRun(f) == BeginRun(f) \/ MarkInProgress(f) \/ AgentEnds(f) \/ EndRun(f)
HandleEvent == \E f \in Feature : FeatureStart(f) \/ StepStarted(f) \/ FeatureEnd(f)

Next ==
  \/ \E c \in Check : CheckFeatures(c) \/ ContinueCheck(c)
  \/ \E l \in Load : ContinueLoad(l)
  \/ \E f \in Feature : ContinueRun(f) \/ BeginStep(f) \/ ResumeNext(f)
  \/ HandleEvent \/ Toggle

\* The interval fires, requests are answered, events arrive and agents end.
Fairness ==
  /\ WF_vars(\E c \in Check : CheckFeatures(c)) /\ WF_vars(HandleEvent)
  /\ \A c \in Check : WF_vars(ContinueCheck(c))
  /\ \A l \in Load : WF_vars(ContinueLoad(l))
  /\ \A f \in Feature : WF_vars(ContinueRun(f)) /\ WF_vars(ResumeNext(f))

Spec == Init /\ [][Next]_vars /\ Fairness

-----------------------------------------------------------------------------
(***************************************************************************)
(* Properties.                                                             *)
(***************************************************************************)
Working == {f \in Feature : run[f] # "none"}

\* The server runs no more features than maxConcurrency allows, which nobody but
\* the board sees to, apart from the runs that the board overlooks: what it counts
\* covers every other run that is under way, whatever fails, although responses
\* and events cross and reloads show features in the backlog that were started.
\* It is so unless the effect is run again, for pending is then forgotten.
WithinLimit ==
  "toggle" \notin condition => Cardinality(Working \ overlooked) <= limit

\* maxConcurrency is the "Maximum number of concurrent agent tasks".  The code
\* does not meet it, even if nothing fails, nothing is late and nobody touches
\* auto mode: it overlooks a run that begins before the end of the last arrives.
LimitKept == Cardinality(Working) <= limit

\* A pending feature does not take up a slot for ever, also when the server has
\* refused to run it a second time or could not be asked: the start or the end of
\* some run clears it, as long as responses are not late.
PendingCleared ==
  "late" \notin condition => \A f \in Feature : f \in pending ~> f \notin pending

\* Whatever is in the backlog is done in the end, through all reloads.
EverythingDone ==
  condition \subseteq {"steps"} => \A f \in Feature : <>(disk[f] = "done")

\* A feature that is done is not run again.  The code does not meet it: a reload
\* that was under way when the feature was started shows it in the backlog, and
\* the next check after its end starts it anew.
NothingRunsAgain ==
  [][\A f \in Feature : disk[f] = "done" /\ run[f] = "none" => run'[f] = "none"]_vars
=============================================================================
