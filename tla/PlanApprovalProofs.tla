------------------------- MODULE PlanApprovalProofs -------------------------
(***************************************************************************)
(* Proofs about PlanApproval, for any number of runs, requests and         *)
(* versions of the plan.                                                   *)
(***************************************************************************)
EXTENDS PlanApproval, TLAPS

\* The places of runs and requests, and what a promise can be, as sets.
LEMMA Members ==
  /\ {"idle", "planning", "saving", "saved", "waiting", "approved",
      "regenerate", "implementing"} = RunPC
  /\ {"idle", "updating", "updated", "loading", "approving", "starting",
      "rejecting"} = CallPC
  /\ Decision \subseteq Promise
  /\ {"none", "pending", "reject"} \subseteq Promise
BY DEF RunPC, CallPC, Decision, Promise

\* What a version and a registration are.
LEMMA Versions ==
  /\ 1 \in Version
  /\ \A v \in Version : v \in Nat /\ (v < MaxVersion => v + 1 \in Version)
BY MaxVersionAssumption DEF Version

LEMMA IdleTypes == IdleRun \in RunState /\ IdleCall \in CallState
BY Members, Versions DEF IdleRun, IdleCall, RunState, CallState, Decision

\* One run, or one request, moves on.
LEMMA RunStep ==
  ASSUME run \in [Run -> RunState], NEW r \in Run, NEW s \in RunState,
         run' = [run EXCEPT ![r] = s]
  PROVE  run' \in [Run -> RunState]
OBVIOUS

LEMMA CallStep ==
  ASSUME call \in [Call -> CallState], NEW c \in Call, NEW s \in CallState,
         call' = [call EXCEPT ![c] = s]
  PROVE  call' \in [Call -> CallState]
OBVIOUS

LEMMA CallGoto ==
  ASSUME call \in [Call -> CallState], NEW c \in Call, NEW p \in CallPC,
         call' = [call EXCEPT ![c].pc = p]
  PROVE  call' \in [Call -> CallState]
<1>. DEFINE s == [call[c] EXCEPT !.pc = p]
<1>1. call[c] \in CallState
  OBVIOUS
<1>2. s \in CallState
  BY <1>1 DEF CallState
<1>. QED  BY <1>2, CallStep

\* Settle changes the promise and the timer of the run of the registration,
\* and of no other.
LEMMA SettleType ==
  ASSUME NEW runs \in [Run -> RunState], NEW reg \in Reg \cup {NoReg},
         NEW outcome \in Promise
  PROVE  Settle(runs, reg, outcome) \in [Run -> RunState]
<1>1. CASE reg = NoReg
  BY <1>1 DEF Settle
<1>2. CASE reg \in Reg
  <2>. DEFINE s == [runs[reg[1]] EXCEPT !.promise = outcome, !.timer = FALSE]
  <2>1. reg[1] \in Run /\ runs[reg[1]] \in RunState
    BY <1>2 DEF Reg
  <2>2. s \in RunState
    BY <2>1 DEF RunState
  <2>3. Settle(runs, reg, outcome) \in {runs, [runs EXCEPT ![reg[1]] = s]}
    BY <2>1 DEF Settle, RunState
  <2>. QED  BY <2>1, <2>2, <2>3
<1>. QED  BY <1>1, <1>2

\* Ending a run keeps the types of the entry, the runs and the requests.
LEMMA EndType ==
  ASSUME TypeOK, NEW r \in Run, End(r)
  PROVE  /\ entry' \in Run \cup {NoRun}
         /\ run' \in [Run -> RunState]
         /\ call' \in [Call -> CallState]
<1>1. run' \in [Run -> RunState]
  BY IdleTypes, RunStep DEF End, TypeOK
<1>2. \A c \in Call : [call[c] EXCEPT !.reg = NoReg] \in CallState
  <2>. SUFFICES ASSUME NEW c \in Call
                PROVE  [call[c] EXCEPT !.reg = NoReg] \in CallState
    OBVIOUS
  <2>1. call[c] \in CallState
    BY DEF TypeOK
  <2>. QED  BY <2>1 DEF CallState
<1>. QED  BY <1>1, <1>2 DEF End, TypeOK

-----------------------------------------------------------------------------
(***************************************************************************)
(* Type correctness.                                                       *)
(***************************************************************************)
\* The fields of a run.
LEMMA RunFields ==
  ASSUME TypeOK, NEW r \in Run
  PROVE  /\ run[r].pc \in RunPC /\ run[r].promise \in Promise
         /\ run[r].version \in Version /\ run[r].timer \in BOOLEAN
         /\ run[r].aborted \in BOOLEAN
<1>1. run[r] \in RunState
  BY DEF TypeOK
<1>. QED  BY <1>1 DEF RunState

\* What the actions of a run do to the typing of run.
LEMMA RunTypes ==
  ASSUME TypeOK, NEW r \in Run,
         \/ Start(r) \/ PlanReady(r) \/ Write(r) \/ WaitForPlanApproval(r)
         \/ AutoApprove(r) \/ Approved(r) \/ RevisionWanted(r) \/ Timeout(r)
  PROVE  run' \in [Run -> RunState]
<1>. USE RunFields, Members
<1>0. run \in [Run -> RunState] /\ run[r] \in RunState
  BY DEF TypeOK
<1>1. CASE Start(r)
  <2>. DEFINE s == [run[r] EXCEPT !.pc = "planning"]
  <2>2. s \in RunState
    BY <1>0 DEF RunState
  <2>3. run' = [run EXCEPT ![r] = s]
    BY <1>0, <1>1 DEF Start, RunState
  <2>. QED  BY <1>0, <2>2, <2>3, RunStep
<1>2. CASE PlanReady(r)
  <2>. DEFINE s == [run[r] EXCEPT !.pc = "saving"]
  <2>2. s \in RunState
    BY <1>0 DEF RunState
  <2>3. run' = [run EXCEPT ![r] = s]
    BY <1>0, <1>2 DEF PlanReady, RunState
  <2>. QED  BY <1>0, <2>2, <2>3, RunStep
<1>3. CASE Save(r)
  <2>. DEFINE s == [run[r] EXCEPT !.pc = "saved"]
  <2>2. s \in RunState
    BY <1>0 DEF RunState
  <2>3. run' = [run EXCEPT ![r] = s]
    BY <1>0, <1>3 DEF Save, RunState
  <2>. QED  BY <1>0, <2>2, <2>3, RunStep
<1>4. CASE Regenerate(r)
  <2>. DEFINE s == [run[r] EXCEPT !.pc = "planning"]
  <2>2. s \in RunState
    BY <1>0 DEF RunState
  <2>3. run' = [run EXCEPT ![r] = s]
    BY <1>0, <1>4 DEF Regenerate, RunState
  <2>. QED  BY <1>0, <2>2, <2>3, RunStep
<1>5. CASE SaveApproved(r)
  <2>. DEFINE s == [run[r] EXCEPT !.pc = "implementing"]
  <2>2. s \in RunState
    BY <1>0 DEF RunState
  <2>3. run' = [run EXCEPT ![r] = s]
    BY <1>0, <1>5 DEF SaveApproved, RunState
  <2>. QED  BY <1>0, <2>2, <2>3, RunStep
<1>6. CASE WaitForPlanApproval(r)
  <2>. DEFINE s == [run[r] EXCEPT !.pc = "waiting", !.promise = "pending", !.timer = TRUE]
  <2>2. s \in RunState
    BY <1>0 DEF RunState
  <2>3. run' = [run EXCEPT ![r] = s]
    BY <1>0, <1>6 DEF WaitForPlanApproval, RunState
  <2>. QED  BY <1>0, <2>2, <2>3, RunStep
<1>7. CASE AutoApprove(r)
  <2>. DEFINE s == [run[r] EXCEPT !.pc = "approved"]
  <2>2. s \in RunState
    BY <1>0 DEF RunState
  <2>3. run' = [run EXCEPT ![r] = s]
    BY <1>0, <1>7 DEF AutoApprove, RunState
  <2>. QED  BY <1>0, <2>2, <2>3, RunStep
<1>8. CASE Approved(r)
  <2>. DEFINE s == [run[r] EXCEPT !.pc = "approved", !.promise = "none"]
  <2>2. s \in RunState
    BY <1>0 DEF RunState
  <2>3. run' = [run EXCEPT ![r] = s]
    BY <1>0, <1>8 DEF Approved, RunState
  <2>. QED  BY <1>0, <2>2, <2>3, RunStep
<1>9. CASE RevisionWanted(r)
  <2>. DEFINE s == [run[r] EXCEPT !.pc = "regenerate", !.promise = "none",
                            !.version = run[r].version + 1]
  <2>1. run[r].version + 1 \in Version
    BY <1>9, Versions DEF RevisionWanted
  <2>2. s \in RunState
    BY <1>0, <2>1 DEF RunState
  <2>3. run' = [run EXCEPT ![r] = s]
    BY <1>0, <1>9 DEF RevisionWanted, RunState
  <2>. QED  BY <1>0, <2>2, <2>3, RunStep
<1>10. CASE Timeout(r)
  <2>. DEFINE s(o) == [run[r] EXCEPT !.timer = FALSE, !.promise = o]
  <2>1. \A o \in Promise : s(o) \in RunState
    BY <1>0 DEF RunState
  <2>2. \/ run' = [run EXCEPT ![r] = s("reject")]
        \/ run' = [run EXCEPT ![r] = s(run[r].promise)]
    BY <1>0, <1>10 DEF Timeout, RunState
  <2>. QED  BY <1>0, <2>1, <2>2, RunStep
<1>. QED  BY <1>1, <1>2, <1>3, <1>4, <1>5, <1>6, <1>7, <1>8, <1>9, <1>10 DEF Write

\* What a request does to the typing of call.
LEMMA CallTypes ==
  ASSUME TypeOK, NEW c \in Call,
         \/ UpdatePlanSpec(c) \/ Answer(c) \/ Recover(c) \/ RecoverApproved(c)
         \/ StartRecovered(c) \/ RecoverRejected(c)
         \/ \E d \in Decision : Resolve(c, d)
  PROVE  call' \in [Call -> CallState]
<1>. USE Members, IdleTypes
<1>0. call \in [Call -> CallState] /\ call[c] \in CallState
  BY DEF TypeOK
<1>1. CASE UpdatePlanSpec(c) \/ RecoverApproved(c)
  BY <1>0, <1>1, CallGoto DEF UpdatePlanSpec, RecoverApproved
<1>2. CASE Answer(c) \/ StartRecovered(c) \/ RecoverRejected(c)
  BY <1>0, <1>2, CallStep DEF Answer, StartRecovered, RecoverRejected
<1>3. CASE Recover(c)
  <2>. DEFINE s(p) == [call[c] EXCEPT !.pc = p]
  <2>1. s("approving") \in CallState /\ s("rejecting") \in CallState
    BY <1>0 DEF CallState
  <2>2. PICK t \in {IdleCall, s("approving"), s("rejecting")} :
          call' = [call EXCEPT ![c] = t]
    BY <1>3 DEF Recover
  <2>. QED  BY <1>0, <2>1, <2>2, CallStep
<1>4. ASSUME NEW d \in Decision, Resolve(c, d)
      PROVE  call' \in [Call -> CallState]
  <2>. DEFINE s(p) == [pc |-> p, reg |-> pending, decision |-> d]
  <2>1. s("updating") \in CallState /\ s("loading") \in CallState
    BY DEF TypeOK, CallState
  <2>2. PICK t \in {s("updating"), s("loading")} : call' = [call EXCEPT ![c] = t]
    BY <1>4 DEF Resolve
  <2>. QED  BY <1>0, <2>1, <2>2, CallStep
<1>. QED  BY <1>1, <1>2, <1>3, <1>4

LEMMA InitType == Init => TypeOK
BY IdleTypes DEF Init, TypeOK, PlanStatus

\* Every step keeps the types.
LEMMA NextType == TypeOK /\ [Next]_vars => TypeOK'
<1>. SUFFICES ASSUME TypeOK, [Next]_vars
              PROVE  TypeOK'
  OBVIOUS
<1>1. ASSUME NEW r \in Run,
             \/ Start(r) \/ PlanReady(r) \/ Write(r) \/ WaitForPlanApproval(r)
             \/ AutoApprove(r) \/ Approved(r) \/ RevisionWanted(r) \/ Timeout(r)
      PROVE  TypeOK'
  <2>1. run' \in [Run -> RunState]
    BY <1>1, RunTypes
  <2>2. /\ entry' \in Run \cup {NoRun}
        /\ planSpec' \in PlanStatus
        /\ call' \in [Call -> CallState]
    BY <1>1 DEF TypeOK, PlanStatus, Start, PlanReady, Write, Save, Regenerate,
       SaveApproved, WaitForPlanApproval, AutoApprove, Approved, RevisionWanted,
       Timeout
  <2>3. run[r].version \in Version
    BY RunFields
  <2>4. pending' \in Reg \cup {NoReg}
    BY <1>1, <2>3 DEF TypeOK, Reg, Start, PlanReady, Write, Save, Regenerate,
       SaveApproved, WaitForPlanApproval, AutoApprove, Approved, RevisionWanted,
       Timeout
  <2>. QED  BY <2>1, <2>2, <2>4 DEF TypeOK
<1>2. ASSUME NEW r \in Run, Cancelled(r) \/ StreamEnds(r)
      PROVE  TypeOK'
  <2>1. End(r) /\ UNCHANGED <<pending, planSpec>>
    BY <1>2 DEF Cancelled, StreamEnds
  <2>. QED  BY <2>1, EndType DEF TypeOK
<1>3. ASSUME NEW c \in Call,
             \/ UpdatePlanSpec(c) \/ Answer(c) \/ Recover(c) \/ RecoverApproved(c)
             \/ StartRecovered(c) \/ RecoverRejected(c)
             \/ \E d \in Decision : Resolve(c, d)
      PROVE  TypeOK'
  <2>1. call' \in [Call -> CallState]
    BY <1>3, CallTypes
  <2>2. /\ entry' \in Run \cup {NoRun}
        /\ pending' \in Reg \cup {NoReg}
        /\ planSpec' \in PlanStatus
    BY <1>3 DEF TypeOK, PlanStatus, UpdatePlanSpec, Answer, Recover,
       RecoverApproved, StartRecovered, RecoverRejected, Resolve
  <2>3. run' \in [Run -> RunState]
    <3>1. CASE Answer(c)
      <4>1. call[c] \in CallState
        BY DEF TypeOK
      <4>2. call[c].reg \in Reg \cup {NoReg} /\ call[c].decision \in Promise
        BY <4>1, Members DEF CallState
      <4>. QED  BY <3>1, <4>2, SettleType DEF Answer, TypeOK
    <3>2. CASE StartRecovered(c)
      <4>1. CASE UNCHANGED run
        BY <4>1 DEF TypeOK
      <4>2. ASSUME NEW r \in Run, run' = [run EXCEPT ![r].pc = "implementing"]
            PROVE  run' \in [Run -> RunState]
        <5>. DEFINE s == [run[r] EXCEPT !.pc = "implementing"]
        <5>1. run[r] \in RunState
          BY DEF TypeOK
        <5>2. s \in RunState
          BY <5>1, Members DEF RunState
        <5>. QED  BY <4>2, <5>2, RunStep DEF TypeOK
      <4>. QED  BY <3>2, <4>1, <4>2 DEF StartRecovered
    <3>3. CASE UNCHANGED run
      BY <3>3 DEF TypeOK
    <3>. QED  BY <1>3, <3>1, <3>2, <3>3 DEF UpdatePlanSpec, Recover,
              RecoverApproved, RecoverRejected, Resolve
  <2>. QED  BY <2>1, <2>2, <2>3 DEF TypeOK
<1>4. CASE Stop
  <2>. DEFINE runs == Settle(run, pending, "reject")
              s == [runs[entry] EXCEPT !.aborted = TRUE]
  <2>1. runs \in [Run -> RunState]
    BY SettleType, Members DEF TypeOK
  <2>2. entry \in Run /\ runs[entry] \in RunState
    BY <1>4, <2>1 DEF Stop, TypeOK
  <2>3. s \in RunState
    BY <2>2 DEF RunState
  <2>4. run' = [runs EXCEPT ![entry] = s]
    BY <1>4 DEF Stop
  <2>5. run' \in [Run -> RunState]
    BY <2>1, <2>2, <2>3, <2>4
  <2>. QED  BY <1>4, <2>5 DEF Stop, TypeOK
<1>5. CASE Crash
  BY <1>5, IdleTypes DEF Crash, TypeOK
<1>6. CASE UNCHANGED vars
  BY <1>6 DEF vars, TypeOK
<1>. QED  BY <1>1, <1>2, <1>3, <1>4, <1>5, <1>6 DEF Next, Continue

\* The entry, the map, the planSpec, the runs and the requests of
\* AutoModeService always have their types.
THEOREM TypeCorrect == Spec => []TypeOK
<1>. QED  BY InitType, NextType, PTL DEF Spec

-----------------------------------------------------------------------------
(***************************************************************************)
(* The map shows only waits that are on, and timers belong to such waits.  *)
(* The two hold together with the types: a timer that outlived its wait    *)
(* could remove the registration of another.                               *)
(***************************************************************************)
WaitInv == TypeOK /\ PendingIsWaiting /\ TimersOfOpenPromises

\* What Settle does to the run of the registration, and to every other run.
LEMMA SettleEffect ==
  ASSUME NEW runs \in [Run -> RunState], NEW reg \in Reg \cup {NoReg},
         NEW outcome \in Promise, NEW q \in Run
  PROVE  LET after == Settle(runs, reg, outcome)[q] IN
         /\ after.pc = runs[q].pc
         /\ after.version = runs[q].version
         /\ \/ after = runs[q]
            \/ /\ reg = <<q, runs[q].version>>
               /\ runs[q].promise = "pending"
               /\ after.promise = outcome
               /\ ~after.timer
<1>1. runs[q] \in RunState
  OBVIOUS
<1>2. CASE reg = NoReg
  BY <1>2 DEF Settle
<1>3. CASE reg \in Reg
  <2>1. reg = <<reg[1], reg[2]>> /\ reg[1] \in Run
    BY <1>3 DEF Reg
  <2>2. CASE reg[1] # q
    BY <2>1, <2>2 DEF Settle
  <2>3. CASE reg[1] = q
    BY <1>1, <2>1, <2>3 DEF Settle, RunState
  <2>. QED  BY <2>2, <2>3
<1>. QED  BY <1>2, <1>3

LEMMA InitWait == Init => WaitInv
BY InitType DEF Init, WaitInv, PendingIsWaiting, TimersOfOpenPromises, IdleRun

\* A step of one run whose registration, if it has one, is not the pending one.
LEMMA OtherRunKeeps ==
  ASSUME WaitInv, NEW r \in Run, pending' \in {pending, NoReg},
         pending' = NoReg \/ pending[1] # r,
         \A q \in Run \ {r} : run'[q] = run[q],
         run'[r].timer => run'[r].pc = "waiting" /\ run'[r].promise = "pending"
  PROVE  PendingIsWaiting' /\ TimersOfOpenPromises'
<1>1. pending # NoReg => pending[1] \in Run
  BY DEF WaitInv, TypeOK, Reg
<1>2. PendingIsWaiting'
  BY <1>1 DEF WaitInv, PendingIsWaiting
<1>3. TimersOfOpenPromises'
  BY DEF WaitInv, TimersOfOpenPromises
<1>. QED  BY <1>2, <1>3

\* Every step keeps them.
LEMMA NextWait == WaitInv /\ [Next]_vars => WaitInv'
<1>. SUFFICES ASSUME WaitInv, [Next]_vars
              PROVE  PendingIsWaiting' /\ TimersOfOpenPromises'
  BY NextType DEF WaitInv
<1>0. /\ TypeOK /\ PendingIsWaiting /\ TimersOfOpenPromises
      /\ run \in [Run -> RunState]
  BY DEF WaitInv, TypeOK
<1>1. ASSUME NEW r \in Run,
             \/ Start(r) \/ PlanReady(r) \/ Write(r) \/ AutoApprove(r)
             \/ Approved(r) \/ RevisionWanted(r)
      PROVE  PendingIsWaiting' /\ TimersOfOpenPromises'
  <2>1. pending' = pending /\ \A q \in Run \ {r} : run'[q] = run[q]
    BY <1>0, <1>1 DEF Start, PlanReady, Write, Save, Regenerate, SaveApproved,
       AutoApprove, Approved, RevisionWanted
  <2>2. run[r].pc # "waiting" \/ run[r].promise # "pending"
    BY <1>1 DEF Start, PlanReady, Write, Save, Regenerate, SaveApproved,
       AutoApprove, Approved, RevisionWanted
  <2>3. pending' = NoReg \/ pending[1] # r
    BY <1>0, <2>1, <2>2 DEF PendingIsWaiting
  <2>4. ~run[r].timer
    BY <1>0, <2>2 DEF TimersOfOpenPromises
  <2>5. run[r] \in RunState
    BY <1>0
  <2>6. ~run'[r].timer
    BY <1>0, <1>1, <2>4, <2>5 DEF RunState, Start, PlanReady, Write, Save,
       Regenerate, SaveApproved, AutoApprove, Approved, RevisionWanted
  <2>. QED  BY <2>1, <2>3, <2>6, OtherRunKeeps
<1>2. ASSUME NEW r \in Run, WaitForPlanApproval(r)
      PROVE  PendingIsWaiting' /\ TimersOfOpenPromises'
  <2>1. run[r] \in RunState
    BY <1>0
  <2>2. /\ run'[r].pc = "waiting" /\ run'[r].promise = "pending"
        /\ run'[r].timer /\ run'[r].version = run[r].version
        /\ pending' = <<r, run[r].version>>
        /\ \A q \in Run \ {r} : run'[q] = run[q]
    BY <1>0, <1>2, <2>1 DEF WaitForPlanApproval, RunState
  <2>. QED  BY <1>0, <2>2 DEF PendingIsWaiting, TimersOfOpenPromises
<1>3. ASSUME NEW r \in Run, Cancelled(r) \/ StreamEnds(r)
      PROVE  PendingIsWaiting' /\ TimersOfOpenPromises'
  <2>1. run[r].pc # "waiting" \/ run[r].promise # "pending"
    BY <1>3 DEF Cancelled, StreamEnds
  <2>2. (pending' = pending /\ pending[1] # r) \/ pending' = NoReg
    BY <1>0, <1>3, <2>1 DEF PendingIsWaiting, Cancelled, StreamEnds
  <2>3. ~run'[r].timer /\ \A q \in Run \ {r} : run'[q] = run[q]
    BY <1>0, <1>3 DEF Cancelled, StreamEnds, End, IdleRun
  <2>. QED  BY <2>2, <2>3, OtherRunKeeps
<1>4. ASSUME NEW r \in Run, Timeout(r)
      PROVE  PendingIsWaiting' /\ TimersOfOpenPromises'
  <2>1. run[r] \in RunState
    BY <1>0
  <2>2. pending' = NoReg /\ \A q \in Run \ {r} : run'[q] = run[q]
    BY <1>0, <1>4 DEF Timeout
  <2>3. ~run'[r].timer
    BY <1>0, <1>4, <2>1 DEF Timeout, RunState
  <2>. QED  BY <2>2, <2>3, OtherRunKeeps
<1>5. ASSUME NEW c \in Call, Answer(c)
      PROVE  PendingIsWaiting' /\ TimersOfOpenPromises'
  <2>1. call[c] \in CallState
    BY <1>0 DEF TypeOK
  <2>2. call[c].reg \in Reg \cup {NoReg} /\ call[c].decision \in Promise
    BY <2>1, Members DEF CallState
  <2>3. \A q \in Run : run'[q] = run[q] \/ ~run'[q].timer
    BY <1>0, <1>5, <2>2, SettleEffect DEF Answer
  <2>4. pending' = NoReg
    BY <1>5 DEF Answer
  <2>. QED  BY <1>0, <2>3, <2>4 DEF PendingIsWaiting, TimersOfOpenPromises
<1>6. ASSUME NEW c \in Call, StartRecovered(c)
      PROVE  PendingIsWaiting' /\ TimersOfOpenPromises'
  <2>1. CASE UNCHANGED run
    BY <1>0, <1>6, <2>1 DEF StartRecovered, PendingIsWaiting, TimersOfOpenPromises
  <2>2. ASSUME NEW r \in Run, run[r].pc = "idle",
               run' = [run EXCEPT ![r].pc = "implementing"]
        PROVE  PendingIsWaiting' /\ TimersOfOpenPromises'
    <3>1. run[r] \in RunState
      BY <1>0
    <3>2. /\ pending' = pending
          /\ pending = NoReg \/ pending[1] # r
          /\ \A q \in Run \ {r} : run'[q] = run[q]
      BY <1>0, <1>6, <2>2 DEF StartRecovered, PendingIsWaiting
    <3>3. ~run[r].timer
      BY <1>0, <2>2 DEF TimersOfOpenPromises
    <3>4. ~run'[r].timer
      BY <1>0, <2>2, <3>1, <3>3 DEF RunState
    <3>. QED  BY <3>2, <3>4, OtherRunKeeps
  <2>. QED  BY <1>6, <2>1, <2>2 DEF StartRecovered
<1>7. CASE Stop
  <2>. DEFINE runs == Settle(run, pending, "reject")
  <2>1. runs \in [Run -> RunState]
    BY <1>0, SettleType, Members DEF TypeOK
  <2>2. entry \in Run /\ runs[entry] \in RunState
    BY <1>0, <1>7, <2>1 DEF Stop, TypeOK
  <2>3. ASSUME NEW q \in Run
        PROVE  run[q] = runs[q] \/ ~runs[q].timer
    BY <1>0, SettleEffect, Members DEF TypeOK
  <2>4. run' = [runs EXCEPT ![entry].aborted = TRUE] /\ pending' = NoReg
    BY <1>7 DEF Stop
  <2>5. ASSUME NEW q \in Run
        PROVE  /\ run'[q].pc = runs[q].pc /\ run'[q].timer = runs[q].timer
               /\ run'[q].promise = runs[q].promise
    <3>. HIDE DEF runs
    <3>1. runs[q] \in RunState
      BY <2>1
    <3>. QED  BY <2>1, <2>2, <2>4, <3>1 DEF RunState
  <2>6. TimersOfOpenPromises'
    BY <1>0, <2>3, <2>5 DEF TimersOfOpenPromises
  <2>. QED  BY <2>4, <2>6 DEF PendingIsWaiting
<1>8. CASE Crash
  BY <1>8 DEF Crash, PendingIsWaiting, TimersOfOpenPromises, IdleRun
<1>9. CASE UNCHANGED <<pending, run>>
  BY <1>0, <1>9 DEF PendingIsWaiting, TimersOfOpenPromises
<1>10. ASSUME NEW c \in Call,
              \/ UpdatePlanSpec(c) \/ Recover(c) \/ RecoverApproved(c)
              \/ RecoverRejected(c) \/ \E d \in Decision : Resolve(c, d)
       PROVE  UNCHANGED <<pending, run>>
  BY <1>10 DEF UpdatePlanSpec, Recover, RecoverApproved, RecoverRejected, Resolve
<1>. QED  BY <1>1, <1>2, <1>3, <1>4, <1>5, <1>6, <1>7, <1>8, <1>9, <1>10
          DEF Next, Continue, vars

\* What pendingApprovals shows is a run that waits for that very version, with
\* its promise open and its timer running, and no timer outlives its promise.
THEOREM ApprovalsStayConsistent == Spec => []ApprovalsConsistent
<1>1. WaitInv => ApprovalsConsistent
  BY DEF WaitInv, ApprovalsConsistent
<1>. QED  BY <1>1, InitWait, NextWait, PTL DEF Spec

\* A promise is approved only by a request that came in for that registration.
THEOREM ApprovalsAreForTheShownPlan == Spec => ApprovedAsShown
<1>1. TypeOK /\ [Next]_vars =>
        [\A r \in Run :
           run[r].promise # "approve" /\ run'[r].promise = "approve" =>
             \E c \in Call : /\ call[c].pc = "updated"
                             /\ call[c].decision = "approve"
                             /\ call[c].reg = <<r, run[r].version>>]_vars
  <2>. SUFFICES ASSUME TypeOK, Next, NEW r \in Run,
                       run[r].promise # "approve", run'[r].promise = "approve"
                PROVE  \E c \in Call : /\ call[c].pc = "updated"
                                       /\ call[c].decision = "approve"
                                       /\ call[c].reg = <<r, run[r].version>>
    BY DEF vars
  <2>0. run \in [Run -> RunState] /\ run[r] \in RunState
    BY DEF TypeOK
  <2>1. ASSUME NEW c \in Call, Answer(c)
        PROVE  /\ call[c].pc = "updated" /\ call[c].decision = "approve"
               /\ call[c].reg = <<r, run[r].version>>
    <3>1. call[c] \in CallState
      BY DEF TypeOK
    <3>2. call[c].reg \in Reg \cup {NoReg} /\ call[c].decision \in Promise
      BY <3>1, Members DEF CallState
    <3>. QED  BY <2>0, <2>1, <3>2, SettleEffect DEF Answer
  <2>2. ASSUME NEW q \in Run,
               \/ Start(q) \/ PlanReady(q) \/ Write(q) \/ Continue(q)
               \/ StreamEnds(q) \/ Timeout(q)
        PROVE  FALSE
    <3>1. run[q] \in RunState
      BY <2>0
    <3>. QED  BY <2>0, <2>2, <3>1 DEF RunState, IdleRun, Start, PlanReady, Write,
         Save, Regenerate, SaveApproved, Continue, WaitForPlanApproval,
         AutoApprove, Approved, RevisionWanted, Cancelled, StreamEnds, End, Timeout
  <2>3. ASSUME NEW c \in Call, StartRecovered(c)
        PROVE  FALSE
    <3>1. \A q \in Run : run[q] \in RunState
      BY <2>0
    <3>. QED  BY <2>0, <2>3, <3>1 DEF StartRecovered, RunState
  <2>4. CASE Stop
    <3>. DEFINE runs == Settle(run, pending, "reject")
    <3>1. runs \in [Run -> RunState] /\ runs[r].promise # "approve"
      BY <2>0, SettleType, SettleEffect, Members DEF TypeOK
    <3>2. run' = [runs EXCEPT ![entry].aborted = TRUE]
      BY <2>4 DEF Stop
    <3>3. run'[r].promise = runs[r].promise
      <4>. HIDE DEF runs
      <4>1. runs[r] \in RunState
        BY <3>1
      <4>. QED  BY <3>1, <3>2, <4>1 DEF RunState
    <3>. QED  BY <3>1, <3>3
  <2>5. CASE Crash
    BY <2>5 DEF Crash, IdleRun
  <2>6. CASE UNCHANGED run
    BY <2>6
  <2>7. ASSUME NEW c \in Call,
               \/ UpdatePlanSpec(c) \/ Recover(c) \/ RecoverApproved(c)
               \/ RecoverRejected(c) \/ \E d \in Decision : Resolve(c, d)
        PROVE  UNCHANGED run
    BY <2>7 DEF UpdatePlanSpec, Recover, RecoverApproved, RecoverRejected, Resolve
  <2>. QED  BY <2>1, <2>2, <2>3, <2>4, <2>5, <2>6, <2>7 DEF Next
<1>. QED  BY <1>1, TypeCorrect, PTL DEF Spec, ApprovedAsShown
=============================================================================
