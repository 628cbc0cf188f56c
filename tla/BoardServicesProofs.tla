------------------------ MODULE BoardServicesProofs -------------------------
(***************************************************************************)
(* The four small services of the server: who works in a chat session,     *)
(* what the lock of a memory file is good for, whose the slots of          *)
(* validations are, and what the development servers have; each for any    *)
(* number of messages, calls, issues and starts, and any traffic.  And the *)
(* board: what its count of running features is good for, for any number   *)
(* of features, checks and reloads, and any limit.                         *)
(***************************************************************************)
EXTENDS MCServices, BoardAutoMode, FiniteSetTheorems, TLAPS

-----------------------------------------------------------------------------
(***************************************************************************)
(* Chat sessions.                                                          *)
(***************************************************************************)
\* Types.
LEMMA SessionInitType == SessionInit => SessionTypeOK
<1>. SUFFICES ASSUME SessionInit
              PROVE  SessionTypeOK
  OBVIOUS
<1>1. phase \in [Message -> Phase] /\ signal \in [Message -> Message \cup {NoMessage}]
  BY DEF SessionInit, Phase
<1>2. running \in BOOLEAN /\ traffic \in Traffics /\ controller \in Message \cup {NoMessage}
  BY DEF SessionInit
<1>3. queue \in Seq(Message) /\ dispatches \in Nat /\ aborted \in SUBSET Message
  BY DEF SessionInit
<1>. QED  BY <1>1, <1>2, <1>3 DEF SessionTypeOK

\* A message's own steps.
LEMMA MessageType ==
  ASSUME SessionTypeOK, NEW m \in Message,
         SendMessage(m) \/ AddToQueue(m) \/ RemoveFromQueue(m) \/ Continue(m)
  PROVE  SessionTypeOK'
<1>1. ASSUME NEW p \in Phase, SetPhase(m, p)
      PROVE  phase' \in [Message -> Phase]
  BY <1>1 DEF SessionTypeOK, SetPhase
<1>2. CASE SendMessage(m) \/ LookedUp(m) \/ SendTaken(m)
  <2>1. UNCHANGED <<traffic, queue, dispatches, signal, aborted>>
    BY <1>2 DEF SendMessage, LookedUp, SendTaken
  <2>2. \/ Claim(m)
        \/ /\ SetPhase(m, "refused") \/ SetPhase(m, "lookup")
           /\ UNCHANGED <<running, controller>>
    BY <1>2 DEF SendMessage, LookedUp, SendTaken, Enter
  <2>3. phase' \in [Message -> Phase]
    BY <2>2, <1>1 DEF Claim, Phase, Active, Over
  <2>. QED  BY <2>1, <2>2, <2>3 DEF Claim, SessionTypeOK
<1>3. CASE AddToQueue(m)
  BY <1>3 DEF AddToQueue, SessionTypeOK, SetPhase, Phase
<1>4. CASE RemoveFromQueue(m)
  <2>1. queue' \in Seq(Message)
    BY <1>4 DEF RemoveFromQueue, SessionTypeOK
  <2>. QED  BY <1>4, <2>1 DEF RemoveFromQueue, SessionTypeOK, SetPhase, Phase, Over
<1>5. CASE BeginStream(m) \/ StreamEnds(m)
  BY <1>5 DEF BeginStream, StreamEnds, SessionTypeOK, SetPhase, Phase, Active
<1>6. CASE Saved(m) \/ Fails(m)
  <2>1. running' \in BOOLEAN /\ controller' \in Message \cup {NoMessage}
    BY <1>6 DEF Saved, Fails, Reset
  <2>2. phase' \in [Message -> Phase]
    BY <1>6, <1>1 DEF Saved, Fails, Phase, Over
  <2>3. dispatches' \in Nat
    BY <1>6 DEF Saved, Fails, SessionTypeOK
  <2>. QED  BY <1>6, <2>1, <2>2, <2>3 DEF Saved, Fails, SessionTypeOK
<1>. QED  BY <1>2, <1>3, <1>4, <1>5, <1>6 DEF Continue

\* The steps of the session as a whole.
LEMMA CommonType ==
  ASSUME SessionTypeOK, ClearQueue \/ StopExecution \/ ClearSession \/ Dispatch
  PROVE  SessionTypeOK'
<1>1. CASE ClearQueue
  BY <1>1 DEF ClearQueue, SessionTypeOK, Phase, Over
<1>2. CASE StopExecution
  BY <1>2 DEF StopExecution, Reset, SessionTypeOK
<1>3. CASE ClearSession
  BY <1>3 DEF ClearSession, SessionTypeOK
<1>4. CASE Dispatch
  <2>1. dispatches' \in Nat
    BY <1>4 DEF Dispatch, SessionTypeOK
  <2>2. queue' \in Seq(Message) /\ phase' \in [Message -> Phase]
    <3>1. CASE queue = <<>> \/ running
      BY <1>4, <3>1 DEF Dispatch, SessionTypeOK
    <3>2. CASE ~(queue = <<>> \/ running)
      <4>1. Head(queue) \in Message /\ Tail(queue) \in Seq(Message)
        BY <3>2 DEF SessionTypeOK
      <4>. QED  BY <1>4, <3>2, <4>1 DEF Dispatch, SessionTypeOK, SetPhase, Phase
    <3>. QED  BY <3>1, <3>2
  <2>. QED  BY <1>4, <2>1, <2>2 DEF Dispatch, SessionTypeOK
<1>. QED  BY <1>1, <1>2, <1>3, <1>4

LEMMA SessionNextType == SessionTypeOK /\ [SessionNext]_SessionVars => SessionTypeOK'
<1>1. SessionTypeOK /\ UNCHANGED SessionVars => SessionTypeOK'
  BY DEF SessionTypeOK, SessionVars
<1>. QED  BY <1>1, MessageType, CommonType DEF SessionNext

\* Every reachable state is well typed.
THEOREM SessionTypeCorrect == SessionSpec => []SessionTypeOK
BY SessionInitType, SessionNextType, PTL DEF SessionSpec

-----------------------------------------------------------------------------
(***************************************************************************)
(* RunningOwned is inductive: a run leaves Running only in a Reset, and a  *)
(* flag that is set is set together with the controller.                   *)
(***************************************************************************)
LEMMA NextOwned ==
  SessionTypeOK /\ RunningOwned /\ [SessionNext]_SessionVars => RunningOwned'
<1>. SUFFICES ASSUME SessionTypeOK, RunningOwned, [SessionNext]_SessionVars, running'
              PROVE  controller' \in Message /\ phase'[controller'] \in Active
  BY DEF RunningOwned, Running
<1>1. running => controller \in Message /\ phase[controller] \in Active
  BY DEF RunningOwned, Running
\* A step that keeps the flag and changes the phase of a message that is not
\* at work, or from one phase of work to another.
<1>2. ASSUME NEW m \in Message, NEW p, SetPhase(m, p), UNCHANGED <<running, controller>>,
             phase[m] \notin Active \/ p \in Active
      PROVE  controller' \in Message /\ phase'[controller'] \in Active
  BY <1>1, <1>2 DEF SetPhase, SessionTypeOK
<1>3. ASSUME NEW m \in Message, Claim(m)
      PROVE  controller' \in Message /\ phase'[controller'] \in Active
  BY <1>3 DEF Claim, SetPhase, SessionTypeOK, Active
<1>4. ASSUME NEW m \in Message, Enter(m), phase[m] \notin Active
      PROVE  controller' \in Message /\ phase'[controller'] \in Active
  BY <1>2, <1>3, <1>4 DEF Enter
<1>5. ASSUME NEW m \in Message,
             SendMessage(m) \/ AddToQueue(m) \/ RemoveFromQueue(m) \/ Continue(m)
      PROVE  controller' \in Message /\ phase'[controller'] \in Active
  <2>1. CASE SendMessage(m) \/ SendTaken(m)
    BY <2>1, <1>4 DEF SendMessage, SendTaken, Active
  <2>2. CASE AddToQueue(m)
    BY <2>2, <1>2 DEF AddToQueue, Active
  <2>3. CASE RemoveFromQueue(m)
    BY <2>3, <1>2 DEF RemoveFromQueue, Active
  <2>4. CASE LookedUp(m)
    BY <2>4, <1>2, <1>3 DEF LookedUp, Active
  <2>5. CASE BeginStream(m) \/ StreamEnds(m)
    BY <2>5, <1>2 DEF BeginStream, StreamEnds, Active
  <2>6. CASE Saved(m) \/ Fails(m)
    BY <2>6 DEF Saved, Fails, Reset
  <2>. QED  BY <1>5, <2>1, <2>2, <2>3, <2>4, <2>5, <2>6 DEF Continue
<1>6. CASE ClearQueue
  BY <1>6, <1>1 DEF ClearQueue, SessionTypeOK, Active
<1>7. CASE StopExecution \/ ClearSession
  BY <1>7 DEF StopExecution, ClearSession, Reset
<1>8. CASE Dispatch
  BY <1>8, <1>1, <1>2 DEF Dispatch
<1>9. CASE UNCHANGED SessionVars
  BY <1>9, <1>1 DEF SessionVars
<1>. QED  BY <1>5, <1>6, <1>7, <1>8, <1>9 DEF SessionNext

\* A session that says it is running has the controller of a run under way.
THEOREM FlagAlwaysOwned == SessionSpec => []RunningOwned
<1>1. SessionInit => RunningOwned
  BY DEF SessionInit, RunningOwned
<1>. QED  BY <1>1, NextOwned, SessionTypeCorrect, PTL DEF SessionSpec
-----------------------------------------------------------------------------
(***************************************************************************)
(* In a quiet session the flag and the controller tell of every run.       *)
(***************************************************************************)
QuietSession == traffic \cap {"stop", "clear", "lookup"} = {}

RunsClaimed ==
  QuietSession => \A m \in Message :
             /\ phase[m] # "lookup"
             /\ phase[m] \in Active => running /\ controller = m

LEMMA ClaimedKept ==
  SessionTypeOK /\ RunsClaimed /\ [SessionNext]_SessionVars => RunsClaimed'
<1>. SUFFICES ASSUME SessionTypeOK, RunsClaimed, [SessionNext]_SessionVars, QuietSession'
              PROVE  \A m \in Message : /\ phase'[m] # "lookup"
                                        /\ phase'[m] \in Active => running' /\ controller' = m
  BY DEF RunsClaimed
<1>0. traffic' = traffic
  BY DEF SessionNext, SendMessage, AddToQueue, RemoveFromQueue, Continue, LookedUp, BeginStream,
         StreamEnds, Saved, Fails, SendTaken, ClearQueue, StopExecution, ClearSession, Dispatch,
         SessionVars
<1>1. QuietSession
  BY <1>0 DEF QuietSession
<1>. DEFINE Told == \A m \in Message : /\ phase[m] # "lookup"
                                       /\ phase[m] \in Active => running /\ controller = m
<1>2. Told
  BY <1>1 DEF RunsClaimed
\* A step that takes nobody to work.
<1>3. ASSUME NEW m \in Message, NEW p, SetPhase(m, p), UNCHANGED <<running, controller>>,
             p # "lookup", phase[m] \in Active \/ p \notin Active
      PROVE  Told'
  BY <1>2, <1>3 DEF SetPhase, SessionTypeOK
<1>4. ASSUME NEW m \in Message, Claim(m), ~running
      PROVE  Told'
  BY <1>2, <1>4 DEF Claim, SetPhase, SessionTypeOK, Active
<1>5. ASSUME NEW m \in Message, Enter(m)
      PROVE  Told'
  <2>1. CASE SetPhase(m, "refused") /\ UNCHANGED <<running, controller>>
    BY <2>1, <1>3 DEF Active
  <2>. QED  BY <1>1, <1>4, <1>5, <2>1 DEF Enter, QuietSession
<1>6. ASSUME NEW m \in Message, Reset, SetPhase(m, "ended"), phase[m] \in Active
      PROVE  Told'
  BY <1>2, <1>6 DEF Reset, SetPhase, SessionTypeOK, Active
<1>7. ASSUME NEW m \in Message,
             SendMessage(m) \/ AddToQueue(m) \/ RemoveFromQueue(m) \/ Continue(m)
      PROVE  Told'
  <2>1. CASE SendMessage(m) \/ SendTaken(m)
    BY <2>1, <1>5 DEF SendMessage, SendTaken
  <2>2. CASE AddToQueue(m)
    BY <2>2, <1>3 DEF AddToQueue, Active
  <2>3. CASE RemoveFromQueue(m)
    BY <2>3, <1>3 DEF RemoveFromQueue, Active
  <2>4. CASE LookedUp(m)
    BY <2>4, <1>2 DEF LookedUp
  <2>5. CASE BeginStream(m) \/ StreamEnds(m)
    BY <2>5, <1>3 DEF BeginStream, StreamEnds, Active
  <2>6. CASE Saved(m) \/ Fails(m)
    BY <2>6, <1>6 DEF Saved, Fails, Active
  <2>. QED  BY <1>7, <2>1, <2>2, <2>3, <2>4, <2>5, <2>6 DEF Continue
<1>8. CASE ClearQueue
  BY <1>8, <1>2 DEF ClearQueue, SessionTypeOK, Active
<1>9. CASE StopExecution \/ ClearSession
  BY <1>9, <1>1 DEF StopExecution, ClearSession, QuietSession
<1>10. CASE Dispatch
  <2>1. CASE UNCHANGED phase
    BY <1>10, <2>1, <1>2 DEF Dispatch
  <2>2. CASE ~UNCHANGED phase
    <3>1. queue # <<>> /\ SetPhase(Head(queue), "taken") /\ UNCHANGED <<running, controller>>
      BY <1>10, <2>2 DEF Dispatch
    <3>2. Head(queue) \in Message
      BY <3>1 DEF SessionTypeOK
    <3>. QED  BY <3>1, <3>2, <1>3 DEF Active
  <2>. QED  BY <2>1, <2>2
<1>11. CASE UNCHANGED SessionVars
  BY <1>11, <1>2 DEF SessionVars
<1>. QED  BY <1>7, <1>8, <1>9, <1>10, <1>11 DEF SessionNext

\* One run at a time works in a quiet session.
THEOREM OneRunAtATime == SessionSpec => []OneAtATime
<1>1. SessionInit => RunsClaimed
  BY DEF SessionInit, RunsClaimed, Active
<1>2. RunsClaimed => OneAtATime
  <2>. SUFFICES ASSUME RunsClaimed, QuietSession
                PROVE  Cardinality(Running) <= 1
    BY DEF OneAtATime, QuietSession
  <2>1. Running \subseteq {controller}
    BY DEF RunsClaimed, Running
  <2>2. IsFiniteSet({controller}) /\ Cardinality({controller}) = 1
    BY FS_Singleton
  <2>. QED  BY <2>1, <2>2, FS_Subset
<1>. QED  BY <1>1, <1>2, ClaimedKept, SessionTypeCorrect, PTL DEF SessionSpec
-----------------------------------------------------------------------------
(***************************************************************************)
(* The lock of a memory file.                                              *)
(***************************************************************************)
Inside == Holders \cup Waiters

-----------------------------------------------------------------------------
\* Types.
LEMMA ReleaseType ==
  ASSUME LockTypeOK, NEW c \in Caller, NEW spot \in {"gone", "skipped"}, Release(c, spot)
  PROVE  /\ lock' \in Caller \cup {NoCaller}
         /\ at' \in [Caller -> Place]
         /\ waitsFor' \in [Caller -> Caller \cup {NoCaller}]
<1>1. lock' \in Caller \cup {NoCaller}
  BY DEF Release, Waiters
<1>2. at' \in [Caller -> Place]
  BY DEF Release, LockTypeOK, Place, Holding
<1>3. waitsFor' \in [Caller -> Caller \cup {NoCaller}]
  BY DEF Release, LockTypeOK
<1>. QED  BY <1>1, <1>2, <1>3

LEMMA LockNextType == LockTypeOK /\ [LockNext]_LockVars => LockTypeOK'
<1>. SUFFICES ASSUME LockTypeOK, [LockNext]_LockVars
              PROVE  LockTypeOK'
  OBVIOUS
<1>1. ASSUME NEW c \in Caller, Acquire(c)
      PROVE  LockTypeOK'
  BY <1>1 DEF Acquire, LockTypeOK, Place, Holding
<1>2. ASSUME NEW c \in Caller, Begin(c)
      PROVE  LockTypeOK'
  <2>1. CASE Release(c, "skipped") /\ UNCHANGED seen
    BY <1>2, <2>1, ReleaseType DEF Begin, LockTypeOK
  <2>2. CASE UNCHANGED <<lock, waitsFor>>
    <3>1. seen' \in [Caller -> SUBSET Caller]
      BY <1>2 DEF Begin, LockTypeOK
    <3>2. at' \in [Caller -> Place]
      BY <1>2, ReleaseType DEF Begin, LockTypeOK, Place, Holding
    <3>. QED  BY <1>2, <2>2, <3>1, <3>2 DEF Begin, LockTypeOK
  <2>. QED  BY <1>2, <2>1, <2>2 DEF Begin
<1>3. ASSUME NEW c \in Caller, WriteBack(c)
      PROVE  LockTypeOK'
  BY <1>3, ReleaseType DEF WriteBack, LockTypeOK
<1>4. ASSUME NEW c \in Caller, AppendLearning(c)
      PROVE  LockTypeOK'
  BY <1>4, ReleaseType DEF AppendLearning, LockTypeOK
<1>5. CASE UNCHANGED LockVars
  BY <1>5 DEF LockVars, LockTypeOK
<1>. QED  BY <1>1, <1>2, <1>3, <1>4, <1>5 DEF LockNext

LEMMA LockInitType == LockInit => LockTypeOK
BY DEF LockInit, LockTypeOK, Place

\* Every reachable state is well typed.
THEOREM LockTypeCorrect == LockSpec => []LockTypeOK
BY LockInitType, LockNextType, PTL DEF LockSpec

-----------------------------------------------------------------------------
(***************************************************************************)
(* How many callers there are.                                             *)
(***************************************************************************)
Crowded == IsFiniteSet(Inside) /\ Cardinality(Inside) <= crowd

\* Who is inside after a step that lets nobody in.
LEMMA ReleaseInside ==
  ASSUME LockTypeOK, NEW c \in Caller, NEW spot \in {"gone", "skipped"}, Release(c, spot)
  PROVE  Inside' \subseteq Inside
BY DEF Release, LockTypeOK, Inside, Holders, Waiters, Holding

LEMMA CrowdedKept == LockTypeOK /\ Crowded /\ [LockNext]_LockVars => Crowded'
<1>. SUFFICES ASSUME LockTypeOK, Crowded, [LockNext]_LockVars
              PROVE  Crowded'
  OBVIOUS
<1>0. crowd \in Nat /\ crowd' = crowd
  BY CrowdAssumption
     DEF LockTypeOK, LockNext, Acquire, Begin, WriteBack, AppendLearning, LockVars
<1>1. ASSUME Inside' \subseteq Inside
      PROVE  Crowded'
  <2>1. /\ IsFiniteSet(Inside') /\ Cardinality(Inside') <= Cardinality(Inside)
        /\ Cardinality(Inside) \in Nat /\ Cardinality(Inside') \in Nat
    BY <1>1, FS_Subset, FS_CardinalityType DEF Crowded
  <2>. QED  BY <1>0, <2>1 DEF Crowded
<1>2. ASSUME NEW c \in Caller, Acquire(c)
      PROVE  Crowded'
  <2>1. Inside' = Inside \cup {c} /\ c \notin Inside
    BY <1>2 DEF Acquire, LockTypeOK, Inside, Holders, Waiters, Holding
  <2>2. /\ IsFiniteSet(Inside \cup {c}) /\ Cardinality(Inside \cup {c}) = Cardinality(Inside) + 1
        /\ Cardinality(Inside) \in Nat
    BY <2>1, FS_AddElement, FS_CardinalityType DEF Crowded
  <2>3. Cardinality(Inside) < crowd
    BY <1>2 DEF Acquire, Inside
  <2>. QED  BY <1>0, <2>1, <2>2, <2>3 DEF Crowded
<1>3. ASSUME NEW c \in Caller, Begin(c)
      PROVE  Inside' \subseteq Inside
  <2>1. CASE Release(c, "skipped")
    BY <2>1, ReleaseInside
  <2>2. CASE ~Release(c, "skipped")
    <3>1. PICK p \in Holding : at' = [at EXCEPT ![c] = p]
      BY <1>3, <2>2 DEF Begin, Holding
    <3>. QED  BY <1>3, <3>1 DEF Begin, LockTypeOK, Inside, Holders, Waiters, Holding
  <2>. QED  BY <2>1, <2>2
<1>4. ASSUME NEW c \in Caller, WriteBack(c) \/ AppendLearning(c)
      PROVE  Inside' \subseteq Inside
  BY <1>4, ReleaseInside DEF WriteBack, AppendLearning
<1>5. CASE UNCHANGED LockVars
  BY <1>5 DEF LockVars, Crowded, Inside, Holders, Waiters
<1>. QED  BY <1>1, <1>2, <1>3, <1>4, <1>5 DEF LockNext

\* Of two callers only one can be waiting for the other.
LEMMA OneWaiter ==
  ASSUME LockTypeOK, Crowded, crowd <= 2, NEW c \in Holders, NEW v \in Waiters, NEW w \in Waiters
  PROVE  v = w
<1>. SUFFICES ASSUME v # w
              PROVE  FALSE
  OBVIOUS
<1>1. c # v /\ c # w
  BY DEF Holders, Waiters, Holding
<1>2. IsFiniteSet({c}) /\ Cardinality({c}) = 1
  BY FS_Singleton
<1>3. IsFiniteSet({c} \cup {v}) /\ Cardinality({c} \cup {v}) = 2
  BY <1>1, <1>2, FS_AddElement
<1>4. Cardinality(({c} \cup {v}) \cup {w}) = 3
  BY <1>1, <1>3, FS_AddElement
<1>5. ({c} \cup {v}) \cup {w} \subseteq Inside
  BY DEF Inside
<1>6. 3 <= Cardinality(Inside) /\ Cardinality(Inside) \in Nat
  BY <1>4, <1>5, FS_Subset, FS_CardinalityType DEF Crowded
<1>7. crowd \in Nat
  BY CrowdAssumption DEF LockTypeOK
<1>. QED  BY <1>6, <1>7 DEF Crowded

-----------------------------------------------------------------------------
(***************************************************************************)
(* With two callers: who is inside has the promise in the map, who waits   *)
(* waits for it, and what has been read or looked up is still so.          *)
(***************************************************************************)
Locked ==
  /\ \A c \in Holders : lock = c
  /\ lock # NoCaller => lock \in Holders
  /\ \A w \in Waiters : waitsFor[w] \in Holders
  /\ \A c \in Caller : at[c] = "increment" => created /\ seen[c] = file
  /\ \A c \in Caller : at[c] = "create" => ~created
  /\ ~created => file = {}
  /\ UpdatesStay

Paired == crowd <= 2 => Locked

\* After a release the one who waited, if anyone did, is alone.
LEMMA ReleaseAlone ==
  ASSUME LockTypeOK, Crowded, crowd <= 2, Locked, NEW c \in Holders,
         NEW spot \in {"gone", "skipped"}, Release(c, spot)
  PROVE  /\ \A d \in Holders' : lock' = d /\ at'[d] = "begin"
         /\ lock' # NoCaller => lock' \in Holders'
         /\ Waiters' = {}
         /\ \A d \in Caller : at'[d] = "gone" => at[d] = "gone" \/ (d = c /\ spot = "gone")
<1>. DEFINE woken == {w \in Waiters : waitsFor[w] = c}
<1>1. Waiters = woken
  <2>1. \A d \in Holders : d = c
    BY DEF Locked
  <2>. QED  BY <2>1 DEF Locked
<1>2. c \in Caller /\ c \notin woken
  BY DEF Holders, Waiters, Holding
<1>3. \A d \in Caller : at'[d] = IF d = c THEN spot ELSE IF d \in woken THEN "begin" ELSE at[d]
  BY DEF Release
<1>4. Holders' = woken
  <2>1. \A d \in Caller : at[d] \in Holding => d = c
    BY DEF Locked, Holders
  <2>. QED  BY <1>2, <1>3, <2>1 DEF Holders, Waiters, Holding
<1>5. Waiters' = {}
  BY <1>1, <1>2, <1>3 DEF Waiters
<1>6. ASSUME NEW d \in woken
      PROVE  lock' = d
  <2>1. \A w \in woken : w = d
    BY <1>1, OneWaiter
  <2>2. lock' \in woken
    BY <1>6 DEF Release
  <2>. QED  BY <2>1, <2>2
<1>7. \A d \in woken : at'[d] = "begin"
  BY <1>2, <1>3 DEF Waiters
<1>8. \A d \in Caller : at'[d] = "gone" => at[d] = "gone" \/ (d = c /\ spot = "gone")
  BY <1>3
<1>9. lock' # NoCaller => lock' \in woken
  BY DEF Release
<1>. QED  BY <1>4, <1>5, <1>6, <1>7, <1>8, <1>9

\* A release that leaves the file with all that it had, and with what is done.
LEMMA ReleaseLocked ==
  ASSUME LockTypeOK, Crowded, crowd <= 2, Locked, NEW c \in Holders,
         NEW spot \in {"gone", "skipped"}, Release(c, spot),
         file \subseteq file', spot = "gone" => c \in file', ~created' => file' = {}
  PROVE  Locked'
<1>1. /\ \A d \in Holders' : lock' = d /\ at'[d] = "begin"
      /\ lock' # NoCaller => lock' \in Holders'
      /\ Waiters' = {}
      /\ \A d \in Caller : at'[d] = "gone" => at[d] = "gone" \/ (d = c /\ spot = "gone")
  BY ReleaseAlone
<1>2. \A d \in Caller : at'[d] # "increment" /\ at'[d] # "create"
  BY <1>1 DEF Holders, Holding
<1>3. UpdatesStay'
  BY <1>1 DEF UpdatesStay, Locked
<1>. QED  BY <1>1, <1>2, <1>3 DEF Locked

LEMMA PairedKept ==
  LockTypeOK /\ Crowded /\ Paired /\ [LockNext]_LockVars => Paired'
<1>. SUFFICES ASSUME LockTypeOK, Crowded, Paired, [LockNext]_LockVars, crowd' <= 2
              PROVE  Locked'
  BY DEF Paired
<1>0. crowd <= 2 /\ Locked
  BY DEF Paired, LockNext, Acquire, Begin, WriteBack, AppendLearning, LockVars
<1>1. ASSUME NEW c \in Caller, Acquire(c)
      PROVE  Locked'
  <2>1. \A d \in Caller : d # c => at'[d] = at[d] /\ waitsFor'[d] = waitsFor[d]
    BY <1>1 DEF Acquire, LockTypeOK
  <2>2. UNCHANGED <<created, file, seen>>
    BY <1>1 DEF Acquire
  <2>3. CASE lock = NoCaller
    <3>1. Holders = {} /\ Waiters = {}
      BY <1>0, <2>3, NoCallerAssumption DEF Locked, Holders
    <3>2. at'[c] = "begin" /\ lock' = c
      BY <1>1, <2>3 DEF Acquire, LockTypeOK
    <3>. QED  BY <1>0, <2>1, <2>2, <3>1, <3>2
              DEF Locked, Holders, Waiters, Holding, UpdatesStay
  <2>4. CASE lock # NoCaller
    <3>1. at'[c] = "waiting" /\ waitsFor'[c] = lock /\ lock' = lock
      BY <1>1, <2>4 DEF Acquire, LockTypeOK
    <3>2. Holders' = Holders /\ Waiters' = Waiters \cup {c}
      BY <1>1, <2>1, <3>1 DEF Acquire, Holders, Waiters, Holding
    <3>3. lock \in Holders
      BY <1>0, <2>4 DEF Locked
    <3>4. \A d \in Caller : at'[d] \in {"increment", "create", "gone"} => at'[d] = at[d]
      BY <2>1, <3>1
    <3>5. \A d \in Holders' : lock' = d
      BY <1>0, <3>1, <3>2 DEF Locked
    <3>6. \A w \in Waiters' : waitsFor'[w] \in Holders'
      <4>1. \A w \in Waiters : waitsFor'[w] \in Holders
        BY <1>0, <2>1, <3>1, <3>3 DEF Locked, Waiters
      <4>. QED  BY <3>1, <3>2, <3>3, <4>1
    <3>7. UpdatesStay'
      BY <1>0, <2>2, <3>4 DEF Locked, UpdatesStay
    <3>. QED  BY <1>0, <2>2, <3>1, <3>2, <3>3, <3>4, <3>5, <3>6, <3>7 DEF Locked
  <2>. QED  BY <2>3, <2>4
<1>2. ASSUME NEW c \in Caller, Begin(c)
      PROVE  Locked'
  <2>1. c \in Holders
    BY <1>2 DEF Begin, Holders, Holding
  <2>2. CASE Release(c, "skipped") /\ UNCHANGED <<created, file>>
    BY <1>0, <2>1, <2>2, ReleaseLocked DEF Locked
  <2>3. CASE /\ UNCHANGED <<lock, waitsFor>> /\ at' = [at EXCEPT ![c] = "increment"]
             /\ seen' = [seen EXCEPT ![c] = file] /\ created
    <3>1. Holders' = Holders /\ Waiters' = Waiters
      BY <1>2, <2>3 DEF Begin, LockTypeOK, Holders, Waiters, Holding
    <3>2. UNCHANGED <<created, file>>
      BY <1>2 DEF Begin
    <3>3. \A d \in Caller : at'[d] = "increment" => created' /\ seen'[d] = file'
      BY <1>0, <2>3, <3>2 DEF LockTypeOK, Locked
    <3>4. \A d \in Caller : /\ at'[d] = "create" => at[d] = "create"
                            /\ at'[d] = "gone" => at[d] = "gone"
      BY <2>3 DEF LockTypeOK
    <3>. QED  BY <1>0, <2>3, <3>1, <3>2, <3>3, <3>4 DEF Locked, UpdatesStay
  <2>4. CASE /\ UNCHANGED <<lock, waitsFor, seen>>
             /\ at' = [at EXCEPT ![c] = IF created THEN "append" ELSE "create"]
    <3>1. Holders' = Holders /\ Waiters' = Waiters
      BY <1>2, <2>4 DEF Begin, LockTypeOK, Holders, Waiters, Holding
    <3>2. UNCHANGED <<created, file>>
      BY <1>2 DEF Begin
    <3>3. \A d \in Caller : /\ at'[d] = "create" => ~created
                            /\ at'[d] = "increment" => at[d] = "increment"
                            /\ at'[d] = "gone" => at[d] = "gone"
      BY <1>0, <2>4 DEF LockTypeOK, Locked
    <3>. QED  BY <1>0, <2>4, <3>1, <3>2, <3>3 DEF Locked, UpdatesStay
  <2>. QED  BY <1>2, <2>2, <2>3, <2>4 DEF Begin
<1>3. ASSUME NEW c \in Caller, WriteBack(c)
      PROVE  Locked'
  <2>1. c \in Holders /\ file' = file \cup {c} /\ Release(c, "gone")
    BY <1>0, <1>3 DEF WriteBack, Locked, Holders, Holding
  <2>2. created'
    BY <1>0, <1>3 DEF WriteBack, Locked
  <2>. QED  BY <1>0, <2>1, <2>2, ReleaseLocked
<1>4. ASSUME NEW c \in Caller, AppendLearning(c)
      PROVE  Locked'
  <2>1. c \in Holders /\ file' = file \cup {c} /\ Release(c, "gone") /\ created'
    BY <1>0, <1>4 DEF AppendLearning, Locked, Holders, Holding
  <2>. QED  BY <1>0, <2>1, ReleaseLocked
<1>5. CASE UNCHANGED LockVars
  BY <1>0, <1>5 DEF LockVars, Locked, Holders, Waiters, UpdatesStay
<1>. QED  BY <1>1, <1>2, <1>3, <1>4, <1>5 DEF LockNext
\* As long as no more than two want it at a time, the lock excludes, and what was
\* written stays in the file.
THEOREM PairAlwaysExclusive == LockSpec => []PairExclusive
<1>1. LockInit => Crowded /\ Paired
  <2>. SUFFICES ASSUME LockInit
                PROVE  Crowded /\ Paired
    OBVIOUS
  <2>1. Inside = {}
    BY DEF LockInit, Inside, Holders, Waiters, Holding
  <2>2. IsFiniteSet({}) /\ Cardinality({}) = 0 /\ crowd \in Nat
    BY FS_EmptySet, CrowdAssumption DEF LockInit
  <2>3. Paired
    BY <2>1 DEF LockInit, Paired, Locked, Inside, UpdatesStay
  <2>. QED  BY <2>1, <2>2, <2>3 DEF Crowded
<1>2. Paired => PairExclusive
  <2>. SUFFICES ASSUME Locked
                PROVE  Exclusive /\ UpdatesStay
    BY DEF Paired, PairExclusive
  <2>1. Holders \subseteq {lock}
    BY DEF Locked
  <2>2. IsFiniteSet({lock}) /\ Cardinality({lock}) = 1
    BY FS_Singleton
  <2>. QED  BY <2>1, <2>2, FS_Subset DEF Exclusive, Locked
<1>. QED  BY <1>1, <1>2, CrowdedKept, PairedKept, LockTypeCorrect, PTL DEF LockSpec

-----------------------------------------------------------------------------
(***************************************************************************)
(* Validations of issues.                                                  *)
(***************************************************************************)
\* Types.
LEMMA ValidationInitType == ValidationInit => ValidationTypeOK
BY DEF ValidationInit, ValidationTypeOK, TaskOrNone

\* The steps of a validation.
LEMMA TaskType ==
  ASSUME ValidationTypeOK, NEW t \in Task,
         \/ ValidateIssue(t) \/ QueryEnds(t) \/ StoreResult(t) \/ ClearStatus(t)
         \/ TimeoutAborts(t) \/ HourPasses(t)
  PROVE  ValidationTypeOK'
<1>1. about[t] \in Issue
  BY DEF ValidationTypeOK
<1>2. CASE ValidateIssue(t)
  BY <1>1, <1>2 DEF ValidateIssue, ValidationTypeOK, TaskOrNone, SetTask, Live
<1>3. CASE QueryEnds(t)
  BY <1>3 DEF QueryEnds, ValidationTypeOK, SetTask, Live
<1>4. CASE StoreResult(t)
  BY <1>1, <1>4 DEF StoreResult, ValidationTypeOK, TaskOrNone, SetTask, Live
<1>5. CASE ClearStatus(t)
  BY <1>1, <1>5 DEF ClearStatus, ValidationTypeOK, TaskOrNone, SetTask
<1>6. CASE TimeoutAborts(t)
  BY <1>6 DEF TimeoutAborts, ValidationTypeOK
<1>7. CASE HourPasses(t)
  BY <1>7 DEF HourPasses, ValidationTypeOK
<1>. QED  BY <1>2, <1>3, <1>4, <1>5, <1>6, <1>7

\* The steps about an issue, and the cleanup.
LEMMA IssueType ==
  ASSUME ValidationTypeOK,
         \/ \E i \in Issue : \/ StopValidation(i) \/ ReadForView(i)
                             \/ WriteViewed(i) \/ DeleteValidation(i)
         \/ CleanupStale
  PROVE  ValidationTypeOK'
<1>1. ASSUME NEW i \in Issue, StopValidation(i)
      PROVE  ValidationTypeOK'
  BY <1>1 DEF StopValidation, ValidationTypeOK, TaskOrNone
<1>2. ASSUME NEW i \in Issue, ReadForView(i) \/ WriteViewed(i) \/ DeleteValidation(i)
      PROVE  ValidationTypeOK'
  BY <1>2 DEF ReadForView, WriteViewed, DeleteValidation, ValidationTypeOK, TaskOrNone
<1>3. CASE CleanupStale
  <2>1. cut' \in SUBSET Task
    BY <1>3 DEF CleanupStale, ValidationTypeOK
  <2>2. slot' \in [Issue -> TaskOrNone]
    BY <1>3 DEF CleanupStale, ValidationTypeOK, TaskOrNone
  <2>. QED  BY <1>3, <2>1, <2>2 DEF CleanupStale, ValidationTypeOK
<1>. QED  BY <1>1, <1>2, <1>3

LEMMA ValidationNextType == ValidationTypeOK /\ [ValidationNext]_ValidationVars => ValidationTypeOK'
<1>1. ValidationTypeOK /\ UNCHANGED ValidationVars => ValidationTypeOK'
  BY DEF ValidationTypeOK, ValidationVars
<1>. QED  BY <1>1, TaskType, IssueType DEF ValidationNext

\* Every reachable state is well typed.
THEOREM ValidationTypeCorrect == ValidationSpec => []ValidationTypeOK
BY ValidationInitType, ValidationNextType, PTL DEF ValidationSpec

-----------------------------------------------------------------------------
(***************************************************************************)
(* SlotHeld needs to know that nothing is old where providers notice       *)
(* aborts: the cleanup has then nothing to do.                             *)
(***************************************************************************)
Held ==
  demand \cap {"stop", "deaf"} = {} =>
    /\ old = {}
    /\ \A t \in Task : task[t] \in Live => slot[about[t]] = t

LEMMA NextHeld ==
  ValidationTypeOK /\ Held /\ [ValidationNext]_ValidationVars => Held'
<1>. SUFFICES ASSUME ValidationTypeOK, Held, [ValidationNext]_ValidationVars,
                     demand' \cap {"stop", "deaf"} = {}
              PROVE  /\ old' = {}
                     /\ \A t \in Task : task'[t] \in Live => slot'[about'[t]] = t
  BY DEF Held
<1>. DEFINE Slots == old = {} /\ \A t \in Task : task[t] \in Live => slot[about[t]] = t
<1>1. UNCHANGED <<demand, about>>
  BY DEF ValidationNext, ValidateIssue, QueryEnds, StoreResult, ClearStatus, TimeoutAborts,
         HourPasses, StopValidation, ReadForView, WriteViewed, DeleteValidation, CleanupStale,
         ValidationVars
<1>2. Slots
  BY <1>1 DEF Held
<1>3. ASSUME NEW t \in Task, ValidateIssue(t)
      PROVE  Slots'
  \* Whoever is live about the same issue would have the slot, which is free.
  <2>1. \A u \in Task : task[u] \in Live => about[u] # about[t]
    BY <1>2, <1>3, NoTaskAssumption DEF ValidateIssue
  <2>. QED  BY <1>2, <1>3, <2>1 DEF ValidateIssue, SetTask, ValidationTypeOK
<1>4. ASSUME NEW t \in Task, QueryEnds(t)
      PROVE  Slots'
  BY <1>2, <1>4 DEF QueryEnds, SetTask, ValidationTypeOK, Live
<1>5. ASSUME NEW t \in Task, StoreResult(t)
      PROVE  Slots'
  BY <1>2, <1>5 DEF StoreResult, SetTask, ValidationTypeOK, Live
<1>6. ASSUME NEW t \in Task, ClearStatus(t)
      PROVE  Slots'
  \* The slot that the finally clears is its own.
  <2>1. \A u \in Task : task[u] \in Live /\ about[u] = about[t] => u = t
    BY <1>2, <1>6 DEF ClearStatus, Live
  <2>. QED  BY <1>2, <1>6, <2>1 DEF ClearStatus, SetTask, ValidationTypeOK, Live
<1>7. ASSUME NEW t \in Task, TimeoutAborts(t) \/ HourPasses(t)
      PROVE  Slots'
  BY <1>1, <1>2, <1>7 DEF TimeoutAborts, HourPasses
<1>8. ASSUME NEW i \in Issue,
             StopValidation(i) \/ ReadForView(i) \/ WriteViewed(i) \/ DeleteValidation(i)
      PROVE  Slots'
  BY <1>1, <1>2, <1>8 DEF StopValidation, ReadForView, WriteViewed, DeleteValidation
<1>9. ~CleanupStale
  BY <1>2 DEF CleanupStale
<1>10. CASE UNCHANGED ValidationVars
  BY <1>2, <1>10 DEF ValidationVars
<1>. QED  BY <1>3, <1>4, <1>5, <1>6, <1>7, <1>8, <1>9, <1>10 DEF ValidationNext

\* Unless it is stopped or its provider is deaf, a validation has its slot for as
\* long as it lives, so that an issue is never validated twice at once.
THEOREM SlotAlwaysHeld == ValidationSpec => []SlotHeld
<1>1. ValidationInit => Held
  BY DEF ValidationInit, Held, Live
<1>2. Held => SlotHeld
  BY DEF Held, SlotHeld
<1>. QED  BY <1>1, <1>2, NextHeld, ValidationTypeCorrect, PTL DEF ValidationSpec

-----------------------------------------------------------------------------
(***************************************************************************)
(* Development servers.  A port that is looked at is a port, and a process *)
(* belongs to a start that has come as far as spawning it.                 *)
(***************************************************************************)
Looking == {"probing", "listening", "reserved"}

StartsSound ==
  \A s \in Start :
    /\ start[s] \in Looking => port[s] \in Port
    /\ process[s] # "none" => start[s] \in {"spawned", "up", "over"}
    /\ process[s] = "alive" => start[s] # "over"

DevSound == DevTypeOK /\ StartsSound

\* What the search for a port does.
LEMMA ProbeResult ==
  ASSUME NEW s \in Start, NEW p, ProbeFrom(s, p)
  PROVE  \/ SetStart(s, "over") /\ UNCHANGED port
         \/ \E q \in Port : /\ q \notin allocatedPorts
                            /\ port' = [port EXCEPT ![s] = q]
                            /\ SetStart(s, "probing")
BY DEF ProbeFrom

LEMMA SearchSound ==
  ASSUME DevSound, NEW s \in Start, FilesChecked(s) \/ Probe(s) \/ PortProbed(s)
  PROVE  DevSound'
<1>1. start[s] \in {"checking", "probing", "listening"} /\ process[s] = "none"
  BY DEF FilesChecked, Probe, PortProbed, DevSound, StartsSound, DevTypeOK
<1>2. /\ UNCHANGED <<habit, runningServers, place, process>>
      /\ allocatedPorts' \in SUBSET Port
  BY DEF FilesChecked, Probe, PortProbed, DevSound, StartsSound, DevTypeOK, Looking
<1>3. \/ SetStart(s, "over") /\ UNCHANGED port
      \/ /\ SetStart(s, "listening") \/ SetStart(s, "reserved")
         /\ port[s] \in Port /\ UNCHANGED port
      \/ \E q \in Port : port' = [port EXCEPT ![s] = q] /\ SetStart(s, "probing")
  BY ProbeResult DEF FilesChecked, Probe, PortProbed, DevSound, StartsSound, Looking
<1>4. start' \in [Start -> {"new", "up", "over"} \cup UnderWay]
  BY <1>3 DEF SetStart, DevSound, DevTypeOK, UnderWay
<1>5. port' \in [Start -> 0 .. MaxPort]
  BY <1>3, MaxPortAssumption DEF DevSound, DevTypeOK, Port
<1>6. StartsSound'
  BY <1>1, <1>2, <1>3 DEF SetStart, DevSound, StartsSound, DevTypeOK, Looking
<1>. QED  BY <1>2, <1>4, <1>5, <1>6 DEF DevSound, DevTypeOK

LEMMA ServerSound ==
  ASSUME DevSound, NEW s \in Start,
         StartDevServer(s) \/ Spawn(s) \/ ProcessEnds(s) \/ Started(s)
  PROVE  DevSound'
<1>1. CASE StartDevServer(s)
  BY <1>1 DEF StartDevServer, SetStart, DevSound, StartsSound, DevTypeOK, UnderWay, Looking
<1>2. CASE Spawn(s)
  BY <1>2 DEF Spawn, SetStart, DevSound, StartsSound, DevTypeOK, UnderWay, Looking
<1>3. CASE ProcessEnds(s)
  BY <1>3 DEF ProcessEnds, Forget, DevSound, StartsSound, DevTypeOK, Looking
<1>4. CASE Started(s)
  BY <1>4 DEF Started, SetStart, DevSound, StartsSound, DevTypeOK, UnderWay, Looking
<1>. QED  BY <1>1, <1>2, <1>3, <1>4

LEMMA DevNextSound == DevSound /\ [DevNext]_DevVars => DevSound'
<1>1. DevSound /\ UNCHANGED DevVars => DevSound'
  BY DEF DevSound, DevTypeOK, StartsSound, DevVars
<1>2. ASSUME DevSound, NEW w \in Worktree, StopDevServer(w)
      PROVE  DevSound'
  BY <1>2 DEF StopDevServer, Forget, DevSound, DevTypeOK, StartsSound
<1>. QED  BY <1>1, <1>2, SearchSound, ServerSound DEF DevNext

LEMMA DevInitSound == DevInit => DevSound
BY MaxPortAssumption DEF DevInit, DevSound, DevTypeOK, StartsSound, Looking

LEMMA AlwaysDevSound == DevSpec => []DevSound
BY DevInitSound, DevNextSound, PTL DEF DevSpec

\* Every reachable state is well typed.
THEOREM DevTypeCorrect == DevSpec => []DevTypeOK
<1>1. DevSound => DevTypeOK
  BY DEF DevSound
<1>. QED  BY <1>1, AlwaysDevSound, PTL

-----------------------------------------------------------------------------
(***************************************************************************)
(* What the two tables hold.  That a listed server is alive is inductive   *)
(* once it is known to be listed under its own worktree, so that the end   *)
(* of its process finds the entry.                                         *)
(***************************************************************************)
ListedAtHome ==
  \A w \in Worktree : runningServers[w] # NoStart => place[runningServers[w]] = w

Accounted == ListedAtHome /\ ListedAlive /\ PortsHeld

LEMMA SearchAccounted ==
  ASSUME DevSound, Accounted, NEW s \in Start,
         FilesChecked(s) \/ Probe(s) \/ PortProbed(s)
  PROVE  Accounted'
<1>1. /\ UNCHANGED <<runningServers, place, process>>
      /\ start[s] # "reserved" /\ process[s] # "alive"
  BY DEF FilesChecked, Probe, PortProbed, DevSound, StartsSound
<1>2. \A t \in Start \ {s} : start'[t] = start[t] /\ port'[t] = port[t]
  BY ProbeResult DEF FilesChecked, Probe, PortProbed, SetStart, DevSound, DevTypeOK
<1>3. \/ allocatedPorts' = allocatedPorts
      \/ /\ allocatedPorts' = allocatedPorts \cup {port'[s]}
         /\ start'[s] = "reserved"
  BY DEF FilesChecked, Probe, PortProbed, SetStart, DevSound, DevTypeOK
<1>4. PortsHeld'
  BY <1>1, <1>2, <1>3 DEF Accounted, PortsHeld
<1>. QED  BY <1>1, <1>4 DEF Accounted, ListedAtHome, ListedAlive

LEMMA ServerAccounted ==
  ASSUME DevSound, Accounted, NEW s \in Start,
         StartDevServer(s) \/ Spawn(s) \/ ProcessEnds(s) \/ Started(s)
  PROVE  Accounted'
<1>. USE DEF DevSound, DevTypeOK
<1>1. CASE StartDevServer(s)
  BY <1>1 DEF StartDevServer, SetStart, Accounted, ListedAtHome, ListedAlive, PortsHeld
<1>2. CASE Spawn(s)
  <2>1. process'[s] = "alive" /\ \A t \in Start \ {s} : process'[t] = process[t]
    BY <1>2 DEF Spawn
  <2>2. \A t \in Start \ {s} : start'[t] = start[t]
    BY <1>2 DEF Spawn, SetStart
  <2>. QED  BY <1>2, <2>1, <2>2 DEF Spawn, Accounted, ListedAtHome, ListedAlive, PortsHeld
<1>3. CASE ProcessEnds(s)
  <2>1. \A t \in Start \ {s} : process'[t] = process[t]
    BY <1>3 DEF ProcessEnds
  <2>2. \A w \in Worktree :
          runningServers'[w] = IF w = place[s] THEN NoStart ELSE runningServers[w]
    BY <1>3 DEF ProcessEnds, Forget
  <2>3. ListedAtHome' /\ ListedAlive'
    BY <1>3, <2>1, <2>2 DEF ProcessEnds, Accounted, ListedAtHome, ListedAlive
  <2>4. PortsHeld'
    <3>1. start[s] # "reserved"
      BY <1>3 DEF ProcessEnds, StartsSound
    <3>. QED  BY <1>3, <3>1, <2>1 DEF ProcessEnds, Forget, Accounted, PortsHeld
  <2>. QED  BY <2>3, <2>4 DEF Accounted
<1>4. CASE Started(s)
  <2>1. \A t \in Start : start[t] = "reserved" => start'[t] = "reserved"
    BY <1>4 DEF Started, SetStart
  <2>2. PortsHeld'
    BY <1>4, <2>1 DEF Started, Accounted, PortsHeld
  <2>3. ListedAtHome' /\ ListedAlive'
    BY <1>4 DEF Started, Accounted, ListedAtHome, ListedAlive
  <2>. QED  BY <2>2, <2>3 DEF Accounted
<1>. QED  BY <1>1, <1>2, <1>3, <1>4

LEMMA NextAccounted == DevSound /\ Accounted /\ [DevNext]_DevVars => Accounted'
<1>1. Accounted /\ UNCHANGED DevVars => Accounted'
  BY DEF Accounted, ListedAtHome, ListedAlive, PortsHeld, DevVars
<1>2. ASSUME DevSound, Accounted, NEW w \in Worktree, StopDevServer(w)
      PROVE  Accounted'
  <2>1. \A v \in Worktree :
          runningServers'[v] = IF v = w THEN NoStart ELSE runningServers[v]
    BY <1>2 DEF StopDevServer, Forget, DevSound, DevTypeOK
  <2>2. ListedAtHome' /\ ListedAlive'
    BY <1>2, <2>1 DEF StopDevServer, Accounted, ListedAtHome, ListedAlive
  <2>3. PortsHeld'
    BY <1>2 DEF StopDevServer, Forget, Accounted, PortsHeld
  <2>. QED  BY <2>2, <2>3 DEF Accounted
<1>. QED  BY <1>1, <1>2, SearchAccounted, ServerAccounted DEF DevNext

\* Whatever is listed is alive, and whatever is reserved has somebody who
\* will give it back, for any number of starts, worktrees and ports.
THEOREM ServersAlwaysAccounted == DevSpec => []ServersAccounted
<1>1. DevInit => Accounted
  BY DEF DevInit, Accounted, ListedAtHome, ListedAlive, PortsHeld
<1>2. Accounted => ServersAccounted
  BY DEF Accounted, ServersAccounted
<1>. QED  BY <1>1, <1>2, NextAccounted, AlwaysDevSound, PTL DEF DevSpec

-----------------------------------------------------------------------------
(***************************************************************************)
(* Without stops and overlapping starts one start is under way at most,    *)
(* and nothing is listed for its worktree.  A port that was seen to be     *)
(* free stays free until it is reserved, since only that start reserves.   *)
(***************************************************************************)
HoldsPort(s) == start[s] = "reserved" \/ process[s] = "alive"

AloneUnderWay ==
  \A s, t \in Start : start[s] \in UnderWay /\ start[t] \in UnderWay => s = t
PortSeenFree ==
  \A s \in Start : start[s] = "listening" => port[s] \notin allocatedPorts
PortsApart ==
  /\ \A s \in Start : HoldsPort(s) => port[s] \in allocatedPorts
  /\ \A s, t \in Start : HoldsPort(s) /\ HoldsPort(t) /\ port[s] = port[t] => s = t
PlacesApart ==
  \A s \in Start :
    /\ start[s] \in UnderWay => runningServers[place[s]] = NoStart
    /\ start[s] = "up" /\ process[s] = "alive" => runningServers[place[s]] = s

OneByOne ==
  habit = {} => AloneUnderWay /\ PortSeenFree /\ PortsApart /\ PlacesApart

LEMMA SearchOneByOne ==
  ASSUME DevSound, OneByOne, habit = {}, NEW s \in Start,
         FilesChecked(s) \/ Probe(s) \/ PortProbed(s)
  PROVE  OneByOne'
<1>. USE DEF DevSound, DevTypeOK
<1>1. /\ UNCHANGED <<runningServers, place, process>>
      /\ start[s] \in UnderWay /\ ~HoldsPort(s)
  BY DEF FilesChecked, Probe, PortProbed, StartsSound, UnderWay, HoldsPort
<1>2. \A t \in Start \ {s} :
        /\ start'[t] = start[t] /\ port'[t] = port[t]
        /\ start[t] \notin UnderWay
  BY <1>1, ProbeResult DEF FilesChecked, Probe, PortProbed, SetStart, OneByOne, AloneUnderWay
<1>3. \/ /\ allocatedPorts' = allocatedPorts
         /\ start'[s] \in {"over", "probing"}
      \/ /\ allocatedPorts' = allocatedPorts
         /\ start'[s] = "listening" /\ port'[s] \notin allocatedPorts
      \/ /\ allocatedPorts' = allocatedPorts \cup {port'[s]}
         /\ start'[s] = "reserved" /\ port'[s] \notin allocatedPorts
  BY ProbeResult DEF FilesChecked, Probe, PortProbed, SetStart, OneByOne, PortSeenFree
<1>4. AloneUnderWay' /\ PortSeenFree'
  BY <1>2, <1>3 DEF AloneUnderWay, PortSeenFree, UnderWay
<1>5. PortsApart'
  BY <1>1, <1>2, <1>3 DEF OneByOne, PortsApart, HoldsPort
<1>6. PlacesApart'
  <2>1. start'[s] # "up"
    BY <1>3
  <2>. QED  BY <1>1, <1>2, <2>1 DEF OneByOne, PlacesApart
<1>. QED  BY <1>4, <1>5, <1>6 DEF OneByOne

LEMMA ServerOneByOne ==
  ASSUME DevSound, OneByOne, habit = {}, NEW s \in Start,
         StartDevServer(s) \/ Spawn(s) \/ ProcessEnds(s) \/ Started(s)
  PROVE  OneByOne'
<1>. USE DEF DevSound, DevTypeOK
<1>1. CASE StartDevServer(s)
  <2>1. /\ UNCHANGED <<runningServers, allocatedPorts, place, port, process>>
        /\ \A t \in Start : start[t] \notin UnderWay
        /\ \A t \in Start \ {s} : start'[t] = start[t]
    BY <1>1 DEF StartDevServer, SetStart
  <2>2. /\ start[s] = "new" /\ process[s] # "alive"
        /\ \/ start'[s] = "checking" /\ runningServers[place[s]] = NoStart
           \/ start'[s] = "over"
    BY <1>1 DEF StartDevServer, SetStart, StartsSound
  <2>3. AloneUnderWay' /\ PortSeenFree' /\ PlacesApart'
    BY <2>1, <2>2 DEF OneByOne, AloneUnderWay, PortSeenFree, PlacesApart, UnderWay
  <2>4. PortsApart'
    BY <2>1, <2>2 DEF OneByOne, PortsApart, HoldsPort
  <2>. QED  BY <2>3, <2>4 DEF OneByOne
<1>2. CASE Spawn(s)
  <2>1. /\ UNCHANGED <<runningServers, allocatedPorts, place, port>>
        /\ start[s] = "reserved" /\ start'[s] = "spawned" /\ process'[s] = "alive"
        /\ \A t \in Start \ {s} : start'[t] = start[t] /\ process'[t] = process[t]
    BY <1>2 DEF Spawn, SetStart
  <2>2. AloneUnderWay' /\ PortSeenFree' /\ PlacesApart'
    BY <2>1 DEF OneByOne, AloneUnderWay, PortSeenFree, PlacesApart, UnderWay
  <2>3. PortsApart'
    BY <2>1 DEF OneByOne, PortsApart, HoldsPort
  <2>. QED  BY <2>2, <2>3 DEF OneByOne
<1>3. CASE ProcessEnds(s)
  <2>1. /\ UNCHANGED <<start, place, port>>
        /\ process[s] = "alive" /\ process'[s] = "exited"
        /\ \A t \in Start \ {s} : process'[t] = process[t]
        /\ allocatedPorts' = allocatedPorts \ {port[s]}
    BY <1>3 DEF ProcessEnds, Forget
  <2>2. \A w \in Worktree :
          runningServers'[w] = IF w = place[s] THEN NoStart ELSE runningServers[w]
    BY <1>3 DEF ProcessEnds, Forget
  <2>3. start[s] \in {"spawned", "up"}
    BY <2>1 DEF StartsSound
  <2>4. AloneUnderWay' /\ PortSeenFree'
    BY <2>1 DEF OneByOne, AloneUnderWay, PortSeenFree
  <2>5. PortsApart'
    BY <2>1, <2>3 DEF OneByOne, PortsApart, HoldsPort
  <2>6. PlacesApart'
    <3>1. ASSUME NEW t \in Start, start'[t] = "up", process'[t] = "alive"
          PROVE  runningServers'[place'[t]] = t
      <4>1. t # s /\ runningServers[place[t]] = t
        BY <3>1, <2>1 DEF OneByOne, PlacesApart
      <4>2. runningServers[place[s]] \in {NoStart, s}
        BY <2>1, <2>3 DEF OneByOne, PlacesApart, UnderWay
      <4>3. place[t] # place[s]
        BY <4>1, <4>2, NoStartAssumption
      <4>. QED  BY <4>1, <4>3, <2>1, <2>2
    <3>2. ASSUME NEW t \in Start, start'[t] \in UnderWay
          PROVE  runningServers'[place'[t]] = NoStart
      BY <3>2, <2>1, <2>2 DEF OneByOne, PlacesApart
    <3>. QED  BY <3>1, <3>2 DEF PlacesApart
  <2>. QED  BY <2>4, <2>5, <2>6 DEF OneByOne
<1>4. CASE Started(s)
  <2>1. /\ UNCHANGED <<allocatedPorts, place, port, process>>
        /\ start[s] = "spawned"
        /\ \A t \in Start \ {s} : start'[t] = start[t] /\ start[t] \notin UnderWay
    BY <1>4 DEF Started, SetStart, OneByOne, AloneUnderWay, UnderWay
  <2>2. \/ /\ start'[s] = "up"
           /\ \A w \in Worktree :
                runningServers'[w] = IF w = place[s] THEN s ELSE runningServers[w]
        \/ start'[s] = "over" /\ UNCHANGED runningServers
    BY <1>4 DEF Started, SetStart
  <2>3. AloneUnderWay' /\ PortSeenFree' /\ PortsApart'
    BY <2>1, <2>2 DEF OneByOne, AloneUnderWay, PortSeenFree, PortsApart, HoldsPort, UnderWay
  <2>4. runningServers[place[s]] = NoStart
    BY <2>1 DEF OneByOne, PlacesApart, UnderWay
  <2>5. PlacesApart'
    <3>1. ASSUME NEW t \in Start, start'[t] = "up", process'[t] = "alive"
          PROVE  runningServers'[place'[t]] = t
      BY <3>1, <2>1, <2>2, <2>4, NoStartAssumption DEF OneByOne, PlacesApart
    <3>2. ASSUME NEW t \in Start
          PROVE  start'[t] \notin UnderWay
      BY <2>1, <2>2 DEF UnderWay
    <3>. QED  BY <3>1, <3>2 DEF PlacesApart
  <2>. QED  BY <2>3, <2>5 DEF OneByOne
<1>. QED  BY <1>1, <1>2, <1>3, <1>4

LEMMA NextOneByOne == DevSound /\ OneByOne /\ [DevNext]_DevVars => OneByOne'
<1>1. OneByOne /\ UNCHANGED DevVars => OneByOne'
  BY DEF OneByOne, AloneUnderWay, PortSeenFree, PortsApart, PlacesApart, HoldsPort, DevVars
<1>2. DevNext => UNCHANGED habit
  BY DEF DevNext, StartDevServer, FilesChecked, Probe, PortProbed, Spawn,
         ProcessEnds, Started, StopDevServer
<1>3. ASSUME habit # {}, DevNext
      PROVE  OneByOne'
  BY <1>2, <1>3 DEF OneByOne
<1>4. ASSUME habit = {}, DevNext
      PROVE  \E s \in Start :
               \/ FilesChecked(s) \/ Probe(s) \/ PortProbed(s)
               \/ StartDevServer(s) \/ Spawn(s) \/ ProcessEnds(s) \/ Started(s)
  BY <1>4 DEF DevNext, StopDevServer
<1>. QED  BY <1>1, <1>3, <1>4, SearchOneByOne, ServerOneByOne

\* Each worktree has one server at most, on a port that is its own, as long as
\* nobody stops a server and starts do not overlap.
THEOREM OneServerAlways == DevSpec => []OneServerEach
<1>1. DevInit => OneByOne
  BY DEF DevInit, OneByOne, AloneUnderWay, PortSeenFree, PortsApart, PlacesApart,
         HoldsPort, UnderWay
<1>2. ASSUME DevSound, OneByOne
      PROVE  OneServerEach
  <2>. SUFFICES ASSUME habit = {}, NEW s \in Start, Serves(s)
                PROVE  /\ port[s] \in allocatedPorts
                       /\ start[s] = "up" => runningServers[place[s]] = s
                       /\ \A t \in Start \ {s} :
                            Serves(t) => port[s] # port[t] /\ place[s] # place[t]
    BY DEF OneServerEach
  <2>1. port[s] \in allocatedPorts /\ (start[s] = "up" => runningServers[place[s]] = s)
    BY <1>2 DEF OneByOne, PortsApart, PlacesApart, HoldsPort, Serves
  <2>2. ASSUME NEW t \in Start \ {s}, Serves(t)
        PROVE  port[s] # port[t] /\ place[s] # place[t]
    <3>1. port[s] # port[t]
      BY <2>2, <1>2 DEF OneByOne, PortsApart, HoldsPort, Serves
    <3>2. place[s] # place[t]
      BY <2>2, <1>2, NoStartAssumption DEF OneByOne, PlacesApart, AloneUnderWay, Serves, UnderWay
    <3>. QED  BY <3>1, <3>2
  <2>. QED  BY <2>1, <2>2
<1>. QED  BY <1>1, <1>2, NextOneByOne, AlwaysDevSound, PTL DEF DevSpec

-----------------------------------------------------------------------------
(***************************************************************************)
(* All of them.                                                            *)
(***************************************************************************)
\* A service at rest stays as it is.
LEMMA ServicesInvariant ==
  ServicesSpec => [](SessionTypeOK /\ LockTypeOK /\ ValidationTypeOK /\ DevSound)
<1>. DEFINE Inv == SessionTypeOK /\ LockTypeOK /\ ValidationTypeOK /\ DevSound
<1>1. ServicesInit => Inv
  BY SessionInitType, LockInitType, ValidationInitType, DevInitSound DEF ServicesInit
<1>2. Inv /\ [ServicesNext]_ServicesVars => Inv'
  <2>. SUFFICES ASSUME Inv, [ServicesNext]_ServicesVars
                PROVE  Inv'
    OBVIOUS
  <2>1. [SessionNext]_SessionVars /\ [LockNext]_LockVars
    BY DEF ServicesNext, ServicesVars
  <2>2. [ValidationNext]_ValidationVars /\ [DevNext]_DevVars
    BY DEF ServicesNext, ServicesVars
  <2>. QED  BY <2>1, <2>2, SessionNextType, LockNextType, ValidationNextType, DevNextSound
<1>. QED  BY <1>1, <1>2, PTL DEF ServicesSpec

\* The variables of every service have their types, whichever of them is at work.
THEOREM ServicesTypeCorrect == ServicesSpec => []ServicesTypeOK
<1>1. SessionTypeOK /\ LockTypeOK /\ ValidationTypeOK /\ DevSound => ServicesTypeOK
  BY DEF ServicesTypeOK, DevSound
<1>. QED  BY <1>1, ServicesInvariant, PTL

-----------------------------------------------------------------------------
(***************************************************************************)
(* The board.                                                              *)
(***************************************************************************)
-----------------------------------------------------------------------------
(***************************************************************************)
(* Lists of features.                                                      *)
(***************************************************************************)
\* Every set of numbers has a smallest one, unless it is empty.
LEMMA Smallest ==
  ASSUME NEW S, S \subseteq Nat, S # {}
  PROVE  \E m \in S : \A n \in S : m <= n
<1>1. \A x, y \in Nat : <<x, y>> \in OpToRel(<, Nat) <=> x < y
  BY DEF OpToRel
<1>2. PICK R : IsWellFoundedOn(R, Nat) /\ \A x, y \in Nat : <<x, y>> \in R <=> x < y
  BY <1>1, NatLessThanWellFounded, Zenon
<1>3. PICK x \in S : \A y \in S : ~ (<<y, x>> \in R)
  <2>1. IsWellFoundedOn(R, Nat)
    BY <1>2
  <2>. QED  BY <2>1, WFMin, Zenon
<1>4. x \in Nat /\ \A y \in S : y \in Nat /\ ~(y < x)
  BY <1>2, <1>3, Zenon
<1>. QED  BY <1>4

LEMMA FirstIsListed ==
  ASSUME NEW S \in SUBSET Feature, S # {}
  PROVE  FirstOf(S) \in S
<1>1. S \subseteq Nat
  BY DEF Feature
<1>. QED  BY <1>1, Smallest DEF FirstOf

LEMMA FeaturesFinite == ASSUME NEW S \in SUBSET Feature PROVE IsFiniteSet(S)
<1>1. IsFiniteSet(Feature)
  BY LimitAssumption, FS_Interval DEF Feature
<1>. QED  BY <1>1, FS_Subset

\* The n most urgent features are no more than n: they have different ranks.
LEMMA UrgentAreFew ==
  ASSUME NEW S \in SUBSET Feature, NEW n \in Nat
  PROVE  MostUrgent(S, n) \subseteq S /\ Cardinality(MostUrgent(S, n)) <= n
<1>. DEFINE T == MostUrgent(S, n)
            below(f) == {g \in S : g < f}
            rank == [f \in T |-> Cardinality(below(f))]
<1>1. T \in SUBSET S /\ IsFiniteSet(T) /\ Cardinality(T) \in Nat
  <2>1. T \in SUBSET S
    BY DEF MostUrgent
  <2>. QED  BY <2>1, FeaturesFinite, FS_CardinalityType
<1>2. rank \in [T -> 0 .. n - 1]
  <2>. SUFFICES ASSUME NEW f \in T
                PROVE  Cardinality(below(f)) \in 0 .. n - 1
    OBVIOUS
  <2>1. Cardinality(below(f)) < n
    BY DEF MostUrgent
  <2>2. Cardinality(below(f)) \in Nat
    BY FeaturesFinite, FS_CardinalityType
  <2>. QED  BY <2>1, <2>2
<1>3. \A f, h \in T : f # h => rank[f] # rank[h]
  <2>1. ASSUME NEW f \in T, NEW h \in T, f < h
        PROVE  rank[f] # rank[h]
    <3>. f \in Nat /\ h \in Nat /\ S \subseteq Nat /\ f \in S
      <4>. HIDE DEF T
      <4>. QED  BY <1>1, LimitAssumption DEF Feature
    <3>1. below(f) \in SUBSET below(h)
      <4>. HIDE DEF T
      <4>1. \A g \in S : g < f => g < h
        BY <2>1
      <4>. QED  BY <4>1
    <3>2. f \in below(h) /\ f \notin below(f)
      BY <2>1
    <3>3. IsFiniteSet(below(h))
      BY FeaturesFinite
    <3>4. Cardinality(below(h)) # Cardinality(below(f))
      BY <3>1, <3>2, <3>3, FS_Subset
    <3>. QED  BY <3>4
  <2>2. \A f, h \in T : f # h => f < h \/ h < f
    <3>. HIDE DEF T
    <3>. QED  BY <1>1, LimitAssumption DEF Feature
  <2>. HIDE DEF T, rank
  <2>. QED  BY <2>1, <2>2
<1>4. IsFiniteSet(0 .. n - 1) /\ Cardinality(0 .. n - 1) = n
  BY FS_Interval
<1>5. ~(Cardinality(0 .. n - 1) < Cardinality(T))
  <2>. HIDE DEF T, rank
  <2>. SUFFICES ASSUME Cardinality(0 .. n - 1) < Cardinality(T)
                PROVE  FALSE
    OBVIOUS
  <2>1. \E f, h \in T : f # h /\ rank[f] = rank[h]
    BY <1>1, <1>2, <1>4, FS_PigeonHole
  <2>. QED  BY <1>3, <2>1
<1>. QED  BY <1>1, <1>4, <1>5

-----------------------------------------------------------------------------
(***************************************************************************)
(* Types.                                                                  *)
(***************************************************************************)
\* A check that is under way has a list, and reaches for nothing else.
ListsFull == \A c \in Check : check[c].step # "none" => check[c].list # {}

Typed == TypeOK /\ ListsFull

LEMMA CheckType ==
  ASSUME TypeOK, NEW c \in Check
  PROVE  /\ check[c].list \in SUBSET Feature
         /\ check[c].active \in BOOLEAN
         /\ check[c].step # "none" => check[c] \in Starting
         /\ check[c].step = "none" => check[c] = NoCheck
<1>1. check[c] \in Starting \/ check[c] = NoCheck
  BY DEF TypeOK
<1>2. CASE check[c] \in Starting
  BY <1>2 DEF Starting
<1>3. CASE check[c] = NoCheck
  BY <1>3 DEF NoCheck
<1>. QED  BY <1>1, <1>2, <1>3

LEMMA FirstType ==
  ASSUME Typed, NEW c \in Check, check[c].step # "none"
  PROVE  First(c) \in check[c].list /\ First(c) \in Feature
<1>1. check[c].list \in SUBSET Feature /\ check[c].list # {}
  BY CheckType DEF Typed, ListsFull
<1>. QED  BY <1>1, FirstIsListed DEF First

LEMMA StartNextType ==
  ASSUME Typed, NEW c \in Check, NEW list \in SUBSET Feature, NEW active \in BOOLEAN,
         NEW statuses \in [Feature -> Status],
         StartNext(c, list, active, statuses)
  PROVE  /\ check' \in [Check -> Starting \cup {NoCheck}] /\ ListsFull'
         /\ shown' \in [Feature -> Status]
         /\ \A d \in Check \ {c} : check'[d] = check[d]
         /\ \/ check'[c] = NoCheck
            \/ /\ list # {} /\ active
               /\ check'[c] = [step |-> "persist", list |-> list, active |-> TRUE]
<1>1. CASE list = {} \/ ~active
  <2>1. check' = [check EXCEPT ![c] = NoCheck] /\ shown' = statuses
    BY <1>1 DEF StartNext
  <2>2. NoCheck.step = "none"
    BY DEF NoCheck
  <2>. QED  BY <2>1, <2>2 DEF Typed, TypeOK, ListsFull
<1>2. CASE list # {} /\ active
  <2>1. FirstOf(list) \in Feature
    BY <1>2, FirstIsListed
  <2>2. check' = [check EXCEPT ![c] = [step |-> "persist", list |-> list, active |-> TRUE]]
    BY <1>2 DEF StartNext
  <2>3. shown' = [statuses EXCEPT ![FirstOf(list)] = "in_progress"]
    BY <1>2 DEF StartNext
  <2>4. shown' \in [Feature -> Status]
    BY <2>1, <2>3 DEF Status
  <2>5. check' \in [Check -> Starting \cup {NoCheck}] /\ ListsFull'
    BY <1>2, <2>2 DEF Typed, TypeOK, Starting, ListsFull
  <2>. QED  BY <1>2, <2>2, <2>4, <2>5 DEF Typed, TypeOK
<1>. QED  BY <1>1, <1>2

LEMMA GotoStepType ==
  ASSUME Typed, NEW c \in Check, check[c].step # "none",
         NEW s \in {"persisted", "unsaved", "ask", "started", "refused"}, GotoStep(c, s)
  PROVE  /\ check' \in [Check -> Starting \cup {NoCheck}] /\ ListsFull'
         /\ check'[c] = [step |-> s, list |-> check[c].list, active |-> check[c].active]
         /\ \A d \in Check \ {c} : check'[d] = check[d]
<1>1. check[c] \in Starting
  BY CheckType DEF Typed
<1>2. check'[c] = [step |-> s, list |-> check[c].list, active |-> check[c].active]
  BY <1>1 DEF GotoStep, Typed, TypeOK, Starting
<1>3. \A d \in Check \ {c} : check'[d] = check[d]
  BY DEF GotoStep, Typed, TypeOK
<1>4. check'[c] \in Starting /\ check'[c].list # {}
  BY <1>1, <1>2 DEF Starting, Typed, ListsFull
<1>. QED  BY <1>2, <1>3, <1>4 DEF GotoStep, Typed, TypeOK, ListsFull

LEMMA ChecksTyped ==
  ASSUME Typed, NEW c \in Check, CheckFeatures(c) \/ ContinueCheck(c)
  PROVE  Typed'
<1>1. CASE CheckFeatures(c)
  <2>. DEFINE backlog == {f \in Feature : shown[f] = "backlog"}
              slots == limit - (Cardinality(tasks) + Cardinality(pending))
  <2>1. slots \in Nat
    <3>1. Cardinality(tasks) \in Nat /\ Cardinality(pending) \in Nat
      BY FeaturesFinite, FS_CardinalityType DEF Typed, TypeOK
    <3>2. limit \in Nat
      BY LimitAssumption DEF Typed, TypeOK
    <3>. QED  BY <1>1, <3>1, <3>2 DEF CheckFeatures
  <2>2. MostUrgent(backlog, slots) \in SUBSET Feature
    BY <2>1, UrgentAreFew
  <2>3. StartNext(c, MostUrgent(backlog, slots), TRUE, shown)
    BY <1>1 DEF CheckFeatures
  <2>. HIDE DEF backlog, slots
  <2>. QED  BY <1>1, <2>2, <2>3, StartNextType DEF CheckFeatures, Typed, TypeOK, serverVars, rigid
<1>2. CASE PersistStatus(c)
  <2>1. First(c) \in Feature /\ check[c].step # "none"
    BY <1>2, FirstType DEF PersistStatus
  <2>2. check' \in [Check -> Starting \cup {NoCheck}] /\ ListsFull'
    BY <1>2, <2>1, GotoStepType DEF PersistStatus
  <2>3. disk' \in [Feature -> Status]
    BY <1>2, <2>1 DEF PersistStatus, Typed, TypeOK, Status
  <2>4. failures' \in 0 .. MaxFailures
    BY <1>2, LimitAssumption DEF PersistStatus, Fail, Typed, TypeOK
  <2>. QED  BY <1>2, <2>2, <2>3, <2>4 DEF PersistStatus, Typed, TypeOK, rigid
<1>3. CASE StatusPersisted(c)
  BY <1>3, FirstType, GotoStepType DEF StatusPersisted, Typed, TypeOK, rigid, serverVars, Status
<1>4. CASE RunFeature(c)
  <2>1. First(c) \in Feature /\ check[c].step # "none"
    BY <1>4, FirstType DEF RunFeature
  <2>2. check' \in [Check -> Starting \cup {NoCheck}] /\ ListsFull'
    BY <1>4, <2>1, GotoStepType DEF RunFeature
  <2>3. /\ run' \in [Feature -> {"none", "entered", "begun", "working", "ended"}]
        /\ overlooked' \subseteq Feature
    BY <1>4, <2>1 DEF RunFeature, Enlist, Typed, TypeOK
  <2>4. failures' \in 0 .. MaxFailures
    BY <1>4, LimitAssumption DEF RunFeature, Fail, Typed, TypeOK
  <2>. QED  BY <1>4, <2>2, <2>3, <2>4 DEF RunFeature, Typed, TypeOK, rigid
<1>5. CASE RunAnswered(c)
  <2>1. First(c) \in Feature
    BY <1>5, FirstType DEF RunAnswered
  <2>2. \E statuses \in [Feature -> Status] :
          StartNext(c, check[c].list \ {First(c)}, check[c].active, statuses)
    BY <1>5, <2>1 DEF RunAnswered, Typed, TypeOK, Status
  <2>3. check[c].list \ {First(c)} \in SUBSET Feature /\ check[c].active \in BOOLEAN
    BY CheckType DEF Typed
  <2>4. /\ check' \in [Check -> Starting \cup {NoCheck}] /\ ListsFull'
        /\ shown' \in [Feature -> Status]
    BY <2>2, <2>3, StartNextType
  <2>5. pending' \subseteq Feature
    BY <1>5, <2>1 DEF RunAnswered, Typed, TypeOK
  <2>. QED  BY <1>5, <2>4, <2>5 DEF RunAnswered, Typed, TypeOK, rigid, serverVars
<1>. QED  BY <1>1, <1>2, <1>3, <1>4, <1>5 DEF ContinueCheck

LEMMA EventsTyped ==
  ASSUME Typed, NEW f \in Feature, FeatureStart(f) \/ StepStarted(f) \/ FeatureEnd(f)
  PROVE  Typed'
<1>1. \E kind : Arrives(kind, f)
  BY DEF FeatureStart, StepStarted, FeatureEnd
<1>2. events' \in Seq(Event)
  BY <1>1 DEF Arrives, Typed, TypeOK
<1>3. load' \in [Load -> {"none", "asked", "answered", "resume"}]
  BY DEF FeatureStart, StepStarted, FeatureEnd, BeginLoad, Typed, TypeOK
<1>4. tasks' \subseteq Feature /\ pending' \subseteq Feature
  BY DEF FeatureStart, StepStarted, FeatureEnd, Typed, TypeOK
<1>5. UNCHANGED <<rigid, failures, on, shown, check, loaded, serverVars>>
  BY <1>1 DEF Arrives
<1>. QED  BY <1>2, <1>3, <1>4, <1>5 DEF Typed, TypeOK, ListsFull, rigid, serverVars

LEMMA LoadsTyped ==
  ASSUME Typed, NEW l \in Load, ContinueLoad(l)
  PROVE  Typed'
<1>1. CASE GetAll(l)
  BY <1>1 DEF GetAll, Typed, TypeOK, ListsFull, rigid, serverVars
<1>2. CASE SetFeatures(l)
  BY <1>2 DEF SetFeatures, AllBacklog, Status, Typed, TypeOK, ListsFull, rigid, serverVars
<1>3. CASE ResumeInterrupted(l)
  BY <1>3 DEF ResumeInterrupted, Typed, TypeOK, ListsFull, rigid
<1>. QED  BY <1>1, <1>2, <1>3 DEF ContinueLoad

LEMMA RunsTyped ==
  ASSUME Typed, NEW f \in Feature, ContinueRun(f) \/ BeginStep(f) \/ ResumeNext(f)
  PROVE  Typed'
<1>. USE DEF Typed, TypeOK, ListsFull, rigid, boardVars, serverVars
<1>1. ASSUME NEW kind \in {"start", "step", "end"}, Send(kind, f)
      PROVE  events' \in Seq(Event)
  BY <1>1 DEF Send, Event
<1>2. CASE BeginRun(f)
  BY <1>1, <1>2 DEF BeginRun
<1>3. CASE MarkInProgress(f)
  BY <1>3 DEF MarkInProgress, Status
<1>4. CASE AgentEnds(f)
  <2>1. failures' \in 0 .. MaxFailures
    BY <1>4, LimitAssumption DEF AgentEnds, Fail
  <2>2. disk' \in [Feature -> Status]
    BY <1>4 DEF AgentEnds, Status
  <2>. QED  BY <1>4, <2>1, <2>2 DEF AgentEnds
<1>5. CASE EndRun(f)
  <2>1. events' \in Seq(Event)
    BY <1>1, <1>5 DEF EndRun
  <2>. QED  BY <1>5, <2>1 DEF EndRun
<1>6. CASE BeginStep(f)
  BY <1>1, <1>6 DEF BeginStep
<1>7. CASE ResumeNext(f)
  BY <1>7 DEF ResumeNext, Enlist
<1>. QED  BY <1>2, <1>3, <1>4, <1>5, <1>6, <1>7 DEF ContinueRun

LEMMA ToggleTyped ==
  ASSUME Typed, Toggle
  PROVE  Typed'
<1>1. CASE on
  <2>1. check' = [c \in Check |-> [check[c] EXCEPT !.active = FALSE]]
    BY <1>1 DEF Toggle
  <2>2. ASSUME NEW c \in Check
        PROVE  /\ check'[c] \in Starting \cup {NoCheck}
               /\ check'[c].step # "none" => check'[c].list # {}
    <3>1. CASE check[c].step = "none"
      <4>1. check[c] = NoCheck
        BY <3>1, CheckType DEF Typed
      <4>2. check'[c] = [NoCheck EXCEPT !.active = FALSE]
        BY <2>1, <4>1
      <4>3. NoCheck \in [step : {"none"}, list : {{}}, active : {FALSE}]
        BY DEF NoCheck
      <4>4. \A r \in [step : {"none"}, list : {{}}, active : {FALSE}] :
              [r EXCEPT !.active = FALSE] = r
        OBVIOUS
      <4>5. check'[c] = NoCheck
        BY <4>2, <4>3, <4>4
      <4>. QED  BY <4>5 DEF NoCheck
    <3>2. CASE check[c].step # "none"
      <4>1. check[c] \in Starting /\ check[c].list # {}
        BY <3>2, CheckType DEF Typed, ListsFull
      <4>. QED  BY <2>1, <4>1 DEF Starting
    <3>. QED  BY <3>1, <3>2
  <2>. QED  BY <1>1, <2>1, <2>2 DEF Toggle, Typed, TypeOK, ListsFull, rigid, serverVars
<1>2. CASE ~on
  BY <1>2 DEF Toggle, Typed, TypeOK, ListsFull, rigid, serverVars
<1>. QED  BY <1>1, <1>2

LEMMA NextTyped == Typed /\ [Next]_vars => Typed'
<1>1. Typed /\ UNCHANGED vars => Typed'
  BY DEF Typed, TypeOK, ListsFull, vars, rigid, boardVars, serverVars
<1>. QED  BY <1>1, ChecksTyped, EventsTyped, LoadsTyped, RunsTyped, ToggleTyped
          DEF Next, HandleEvent

LEMMA AlwaysTyped == Spec => []Typed
<1>1. Init => Typed
  BY LimitAssumption DEF Init, Typed, TypeOK, ListsFull, NoCheck, AllBacklog, Status
<1>. QED  BY <1>1, NextTyped, PTL DEF Spec

\* Every reachable state is well typed; a check that is under way has a feature.
THEOREM TypeCorrect == Spec => []TypeOK
<1>1. Typed => TypeOK
  BY DEF Typed
<1>. QED  BY <1>1, AlwaysTyped, PTL

-----------------------------------------------------------------------------
(***************************************************************************)
(* The limit.  Unless the effect is run again there is one check at a time,*)
(* and what the check is still going to ask for fits beside the runs that  *)
(* the board does not overlook.  Each of these is a task, or pending, or   *)
(* its request is just being answered; and as no end of it is on its way,  *)
(* nothing takes it out of the count before its own end does.              *)
(***************************************************************************)
Seen == Working \ overlooked

\* What the check is still going to ask for.
ToAsk(c) ==
  IF check[c].step \in {"started", "refused"}
    THEN check[c].list \ {First(c)} ELSE check[c].list

OneCheck ==
  /\ \A c \in Check : check[c].step # "none" => check[c].active
  /\ \A c, d \in Check : check[c].step # "none" /\ check[d].step # "none" => c = d

Counted ==
  \A f \in Seen :
    /\ ~EndArrives(f)
    /\ \/ f \in tasks \cup pending
       \/ \E c \in Check : check[c].step = "started" /\ f = First(c)

Fits ==
  /\ Cardinality(Seen) <= limit
  /\ \A c \in Check : check[c].step # "none" =>
       Cardinality(Seen) + Cardinality(ToAsk(c)) <= limit

Kept == overlooked \subseteq Working /\ OneCheck /\ Counted /\ Fits

Steady == "toggle" \notin condition => Kept

LEMMA SizeType ==
  ASSUME Typed
  PROVE  /\ limit \in Nat
         /\ \A S \in SUBSET Feature : IsFiniteSet(S) /\ Cardinality(S) \in Nat
         /\ Seen \in SUBSET Feature
         /\ \A c \in Check : ToAsk(c) \in SUBSET Feature
<1>1. limit \in Nat
  BY LimitAssumption DEF Typed, TypeOK
<1>2. \A S \in SUBSET Feature : IsFiniteSet(S) /\ Cardinality(S) \in Nat
  BY FeaturesFinite, FS_CardinalityType
<1>3. Seen \in SUBSET Feature
  BY DEF Seen, Working
<1>4. \A c \in Check : ToAsk(c) \in SUBSET Feature
  BY CheckType DEF Typed, ToAsk
<1>. QED  BY <1>1, <1>2, <1>3, <1>4

\* A step that leaves the check, or takes it away.
LEMMA FitsStill ==
  ASSUME Typed, Typed', Kept, UNCHANGED limit, Seen' \subseteq Seen,
         \A c \in Check : check'[c].step # "none" =>
           check[c].step # "none" /\ ToAsk(c)' \subseteq ToAsk(c)
  PROVE  Fits'
<1>1. /\ IsFiniteSet(Seen) /\ Cardinality(Seen) \in Nat /\ Cardinality(Seen') \in Nat
      /\ limit \in Nat /\ limit' = limit
  BY SizeType
<1>2. Cardinality(Seen') <= Cardinality(Seen)
  BY <1>1, FS_Subset
<1>3. ASSUME NEW c \in Check, check'[c].step # "none"
      PROVE  Cardinality(Seen') + Cardinality(ToAsk(c)') <= limit
  <2>1. /\ IsFiniteSet(ToAsk(c)) /\ Cardinality(ToAsk(c)) \in Nat
        /\ ToAsk(c)' \in SUBSET ToAsk(c)
    BY <1>3, SizeType
  <2>2. Cardinality(ToAsk(c)') \in Nat
    <3>1. ToAsk(c)' \in SUBSET Feature
      BY <2>1, SizeType
    <3>. QED  BY <3>1, SizeType
  <2>3. Cardinality(ToAsk(c)') <= Cardinality(ToAsk(c))
    BY <2>1, FS_Subset
  <2>4. Cardinality(Seen) + Cardinality(ToAsk(c)) <= limit
    BY <1>3 DEF Kept, Fits
  <2>. QED  BY <1>1, <1>2, <2>1, <2>2, <2>3, <2>4
<1>. QED  BY <1>1, <1>2, <1>3 DEF Kept, Fits

\* No end arrives because of an event that is another's or of another kind, or
\* because of one that has arrived.
LEMMA SendAddsNoOther ==
  ASSUME Typed, NEW f \in Feature, NEW kind \in {"start", "step", "end"}, Send(kind, f),
         NEW g \in Feature, kind # "end" \/ g # f, EndArrives(g)'
  PROVE  EndArrives(g)
<1>1. events \in Seq(Event) /\ events' = Append(events, <<kind, f>>)
  BY DEF Send, Typed, TypeOK
<1>2. PICK i \in DOMAIN events' : events'[i] = <<"end", g>>
  BY DEF EndArrives
<1>3. <<kind, f>> # <<"end", g>>
  OBVIOUS
<1>4. i \in DOMAIN events /\ events[i] = <<"end", g>>
  BY <1>1, <1>2, <1>3
<1>. QED  BY <1>4 DEF EndArrives

LEMMA ArrivalAddsNone ==
  ASSUME Typed, NEW f \in Feature, NEW kind \in {"start", "step", "end"}, Arrives(kind, f)
  PROVE  /\ kind = "end" => EndArrives(f)
         /\ \A g \in Feature : EndArrives(g)' => EndArrives(g)
<1>1. /\ events \in Seq(Event) /\ 1 \in DOMAIN events
      /\ events[1] = <<kind, f>> /\ events' = Tail(events)
  BY DEF Arrives, Typed, TypeOK
<1>2. \A i \in DOMAIN events' : i + 1 \in DOMAIN events /\ events'[i] = events[i + 1]
  BY <1>1
<1>. QED  BY <1>1, <1>2 DEF EndArrives

\* A step that is none of a check's.
LEMMA CheckAlone ==
  ASSUME UNCHANGED check
  PROVE  \A c \in Check : First(c)' = First(c) /\ ToAsk(c)' = ToAsk(c)
BY DEF First, ToAsk

LEMMA EventsKeep ==
  ASSUME Typed, Typed', Kept, NEW f \in Feature,
         FeatureStart(f) \/ StepStarted(f) \/ FeatureEnd(f)
  PROVE  Kept'
<1>1. PICK kind \in {"start", "step", "end"} :
        /\ Arrives(kind, f)
        /\ tasks \cup pending \subseteq tasks' \cup pending' \cup {f}
        /\ kind # "end" => tasks \cup pending \subseteq tasks' \cup pending'
  BY DEF FeatureStart, StepStarted, FeatureEnd
<1>2. UNCHANGED <<limit, check, run, overlooked>>
  BY <1>1 DEF Arrives, rigid, serverVars
<1>3. Seen' = Seen /\ Working' = Working
  BY <1>2 DEF Seen, Working
<1>4. kind = "end" => EndArrives(f)
  BY <1>1, ArrivalAddsNone
<1>5. \A g \in Feature : EndArrives(g)' => EndArrives(g)
  BY <1>1, ArrivalAddsNone
<1>6. Counted'
  <2>1. Seen \subseteq Feature
    BY SizeType
  <2>. QED  BY <1>1, <1>2, <1>3, <1>4, <1>5, <2>1, CheckAlone DEF Kept, Counted
<1>7. Fits'
  BY <1>2, <1>3, FitsStill, CheckAlone
<1>8. OneCheck'
  BY <1>2 DEF Kept, OneCheck
<1>. QED  BY <1>2, <1>3, <1>6, <1>7, <1>8 DEF Kept

LEMMA LoadsKeep ==
  ASSUME Typed, Typed', Kept, NEW l \in Load, ContinueLoad(l)
  PROVE  Kept'
<1>1. UNCHANGED <<limit, check, run, overlooked, tasks, pending, events>>
  BY DEF ContinueLoad, GetAll, SetFeatures, ResumeInterrupted, rigid, serverVars
<1>2. Seen' = Seen /\ Working' = Working
  BY <1>1 DEF Seen, Working
<1>3. Fits'
  BY <1>1, <1>2, FitsStill, CheckAlone
<1>4. Counted'
  BY <1>1, <1>2, CheckAlone DEF Kept, Counted, EndArrives
<1>. QED  BY <1>1, <1>2, <1>3, <1>4 DEF Kept, OneCheck

\* What the server does of itself only makes fewer runs that the board sees.
LEMMA RunsKeep ==
  ASSUME Typed, Typed', Kept, NEW f \in Feature,
         ContinueRun(f) \/ BeginStep(f) \/ ResumeNext(f)
  PROVE  Kept'
<1>1. UNCHANGED <<limit, check, tasks, pending>>
  BY DEF ContinueRun, BeginRun, MarkInProgress, AgentEnds, EndRun, BeginStep, ResumeNext,
         rigid, boardVars
<1>2. /\ Seen' \subseteq Seen /\ overlooked' \subseteq Working'
      /\ \A g \in Seen' : EndArrives(g)' => EndArrives(g)
  <2>1. CASE EndRun(f)
    <3>1. Working' = Working \ {f} /\ overlooked' = overlooked \ {f}
      BY <2>1 DEF EndRun, Working, Typed, TypeOK
    <3>2. \A g \in Feature \ {f} : EndArrives(g)' => EndArrives(g)
      BY <2>1, SendAddsNoOther DEF EndRun
    <3>. QED  BY <3>1, <3>2, SizeType DEF Seen, Kept, Working
  <2>2. CASE ResumeNext(f)
    <3>1. events' = events
      BY <2>2 DEF ResumeNext
    <3>2. CASE run[f] = "none"
      <4>1. Working' = Working \cup {f} /\ overlooked' = overlooked \cup {f}
        BY <2>2, <3>2 DEF ResumeNext, Enlist, Working, Typed, TypeOK
      <4>. QED  BY <3>1, <4>1 DEF Seen, Kept, EndArrives
    <3>3. CASE run[f] # "none"
      <4>1. UNCHANGED <<run, overlooked>>
        BY <2>2, <3>3 DEF ResumeNext, Enlist
      <4>. QED  BY <3>1, <4>1 DEF Seen, Kept, EndArrives, Working
    <3>. QED  BY <3>2, <3>3
  <2>3. CASE BeginRun(f) \/ MarkInProgress(f) \/ AgentEnds(f) \/ BeginStep(f)
    <3>1. Working' = Working /\ overlooked' = overlooked
      BY <2>3 DEF BeginRun, MarkInProgress, AgentEnds, BeginStep, Working, serverVars,
                  Typed, TypeOK
    <3>2. events' = events \/ \E kind \in {"start", "step"} : Send(kind, f)
      BY <2>3 DEF BeginRun, MarkInProgress, AgentEnds, BeginStep
    <3>3. \A g \in Feature : EndArrives(g)' => EndArrives(g)
      <4>1. events' = events => \A g \in Feature : EndArrives(g)' => EndArrives(g)
        BY DEF EndArrives
      <4>. QED  BY <3>2, <4>1, SendAddsNoOther
    <3>. QED  BY <3>1, <3>3, SizeType DEF Seen, Kept
  <2>. QED  BY <2>1, <2>2, <2>3 DEF ContinueRun
<1>3. Fits'
  BY <1>1, <1>2, FitsStill, CheckAlone
<1>4. Counted'
  BY <1>1, <1>2, CheckAlone DEF Kept, Counted
<1>. QED  BY <1>1, <1>2, <1>3, <1>4 DEF Kept, OneCheck

\* A check that begins has found nothing else to count than tasks and pending
\* features, and there is no other.
LEMMA CheckBegins ==
  ASSUME Typed, Typed', Kept, NEW c \in Check, CheckFeatures(c)
  PROVE  Kept'
<1>. DEFINE backlog == {f \in Feature : shown[f] = "backlog"}
            slots == limit - (Cardinality(tasks) + Cardinality(pending))
            list == MostUrgent(backlog, slots)
<1>1. UNCHANGED <<limit, run, overlooked, tasks, pending, events>>
  BY DEF CheckFeatures, rigid, serverVars
<1>2. Seen' = Seen /\ Working' = Working
  BY <1>1 DEF Seen, Working
<1>3. \A d \in Check : check[d].step = "none"
  BY DEF CheckFeatures, MayCheck, Kept, OneCheck
<1>4. /\ tasks \in SUBSET Feature /\ pending \in SUBSET Feature
      /\ Cardinality(tasks) \in Nat /\ Cardinality(pending) \in Nat /\ limit \in Nat
  BY SizeType DEF Typed, TypeOK
<1>5. slots \in Nat
  BY <1>4 DEF CheckFeatures
<1>6. list \in SUBSET Feature /\ Cardinality(list) <= slots
  BY <1>5, UrgentAreFew
<1>7. StartNext(c, list, TRUE, shown)
  BY DEF CheckFeatures
<1>8. /\ \A d \in Check \ {c} : check'[d] = check[d]
      /\ \/ check'[c] = NoCheck
         \/ check'[c] = [step |-> "persist", list |-> list, active |-> TRUE]
  <2>1. shown \in [Feature -> Status]
    BY DEF Typed, TypeOK
  <2>. HIDE DEF list
  <2>. QED  BY <1>6, <1>7, <2>1, StartNextType
<1>9. Cardinality(Seen) + slots <= limit
  <2>1. Seen \subseteq tasks \cup pending
    BY <1>3 DEF Kept, Counted
  <2>2. Cardinality(tasks \cup pending) <= Cardinality(tasks) + Cardinality(pending)
    <3>1. IsFiniteSet(tasks) /\ IsFiniteSet(pending)
      BY <1>4, SizeType
    <3>2. Cardinality(tasks \cup pending)
            = Cardinality(tasks) + Cardinality(pending) - Cardinality(tasks \cap pending)
      BY <3>1, FS_Union
    <3>3. Cardinality(tasks \cap pending) \in Nat
      BY <1>4, SizeType
    <3>. QED  BY <1>4, <3>2, <3>3
  <2>3. tasks \cup pending \in SUBSET Feature
    BY <1>4
  <2>4. /\ IsFiniteSet(tasks \cup pending) /\ Cardinality(tasks \cup pending) \in Nat
        /\ Cardinality(Seen) \in Nat
    BY <2>3, SizeType
  <2>5. Cardinality(Seen) <= Cardinality(tasks \cup pending)
    BY <2>1, <2>4, FS_Subset
  <2>. QED  BY <1>4, <2>2, <2>4, <2>5
<1>. HIDE DEF backlog, slots, list
<1>10. OneCheck'
  BY <1>3, <1>8 DEF OneCheck, NoCheck
<1>11. Counted'
  BY <1>1, <1>2, <1>3 DEF Kept, Counted, EndArrives
<1>12. Fits'
  <2>1. check'[c].step # "none" => ToAsk(c)' = list
    BY <1>8 DEF ToAsk, NoCheck
  <2>2. \A d \in Check : check'[d].step # "none" => d = c
    BY <1>3, <1>8
  <2>3. Cardinality(list) \in Nat /\ Cardinality(Seen) \in Nat
    BY <1>6, SizeType
  <2>. QED  BY <1>1, <1>2, <1>4, <1>5, <1>6, <1>9, <2>1, <2>2, <2>3 DEF Kept, Fits
<1>. QED  BY <1>1, <1>2, <1>10, <1>11, <1>12 DEF Kept

\* A check that goes on with the same feature, without asking for it.
LEMMA CheckGoesOn ==
  ASSUME Typed, Typed', Kept, NEW c \in Check, PersistStatus(c) \/ StatusPersisted(c)
  PROVE  Kept'
<1>1. UNCHANGED <<limit, run, overlooked, tasks, pending, events>>
  BY DEF PersistStatus, StatusPersisted, rigid, serverVars
<1>2. Seen' = Seen /\ Working' = Working
  BY <1>1 DEF Seen, Working
<1>3. /\ check[c].step \notin {"none", "started", "refused"}
      /\ check'[c].step \notin {"none", "started", "refused"}
      /\ check'[c].list = check[c].list /\ check'[c].active = check[c].active
      /\ \A d \in Check \ {c} : check'[d] = check[d]
  <2>1. check[c].step \in {"persist", "persisted", "unsaved"}
    BY DEF PersistStatus, StatusPersisted
  <2>2. PICK s \in {"persisted", "unsaved", "ask"} : GotoStep(c, s)
    BY DEF PersistStatus, StatusPersisted
  <2>3. check[c].step # "none" /\ s \in {"persisted", "unsaved", "ask", "started", "refused"}
    BY <2>1, <2>2
  <2>4. /\ check'[c] = [step |-> s, list |-> check[c].list, active |-> check[c].active]
        /\ \A d \in Check \ {c} : check'[d] = check[d]
    BY <2>2, <2>3, GotoStepType
  <2>. QED  BY <2>1, <2>2, <2>4
<1>4. \A d \in Check : First(d)' = First(d) /\ ToAsk(d)' = ToAsk(d)
  BY <1>3 DEF First, ToAsk
<1>5. \A d \in Check : check'[d].step # "none" <=> check[d].step # "none"
  BY <1>3
<1>6. OneCheck'
  BY <1>3, <1>5 DEF Kept, OneCheck
<1>7. Counted'
  BY <1>1, <1>2, <1>3, <1>4 DEF Kept, Counted, EndArrives
<1>8. Fits'
  BY <1>1, <1>2, <1>4, <1>5, FitsStill
<1>. QED  BY <1>1, <1>2, <1>6, <1>7, <1>8 DEF Kept

\* The run that a check asks for takes the place that was kept for it.
LEMMA CheckAsks ==
  ASSUME Typed, Typed', Kept, NEW c \in Check, RunFeature(c)
  PROVE  Kept'
<1>. DEFINE f == First(c)
<1>1. UNCHANGED <<limit, tasks, pending, events>>
  BY DEF RunFeature, rigid
<1>2. /\ check[c].step = "ask" /\ check'[c].step \in {"started", "refused"}
      /\ check'[c].list = check[c].list /\ check'[c].active = check[c].active
      /\ \A d \in Check \ {c} : check'[d] = check[d]
  <2>1. check[c].step = "ask"
    BY DEF RunFeature
  <2>2. PICK s \in {"started", "refused"} : GotoStep(c, s)
    BY DEF RunFeature
  <2>3. check[c].step # "none" /\ s \in {"persisted", "unsaved", "ask", "started", "refused"}
    BY <2>1, <2>2
  <2>4. /\ check'[c] = [step |-> s, list |-> check[c].list, active |-> check[c].active]
        /\ \A d \in Check \ {c} : check'[d] = check[d]
    BY <2>2, <2>3, GotoStepType
  <2>. QED  BY <2>1, <2>2, <2>4
<1>3. f \in check[c].list /\ f \in Feature
  BY <1>2, FirstType
<1>4. First(c)' = f /\ ToAsk(c) = check[c].list /\ ToAsk(c)' = check[c].list \ {f}
  BY <1>2 DEF First, ToAsk
<1>5. \A d \in Check : check[d].step # "none" <=> d = c
  BY <1>2 DEF Kept, OneCheck
<1>6. \A d \in Check : check'[d].step # "none" <=> d = c
  BY <1>2, <1>5
<1>7. OneCheck'
  BY <1>2, <1>5, <1>6 DEF Kept, OneCheck
<1>8. CASE Seen' \subseteq Seen /\ overlooked' \subseteq Working'
  <2>1. Fits'
    BY <1>1, <1>4, <1>5, <1>6, <1>8, FitsStill
  <2>2. Counted'
    BY <1>1, <1>2, <1>5, <1>8 DEF Kept, Counted, EndArrives
  <2>. QED  BY <1>7, <1>8, <2>1, <2>2 DEF Kept
<1>9. CASE /\ run[f] = "none" /\ ~EndArrives(f) /\ check'[c].step = "started"
           /\ run' = [run EXCEPT ![f] = "entered"] /\ overlooked' = overlooked
  <2>1. Working' = Working \cup {f} /\ f \notin Working
    BY <1>3, <1>9 DEF Working, Typed, TypeOK
  <2>2. Seen' = Seen \cup {f} /\ f \notin Seen
    BY <1>9, <2>1 DEF Seen, Kept
  <2>3. Counted'
    <3>1. ASSUME NEW g \in Seen'
          PROVE  /\ ~EndArrives(g)'
                 /\ g \in tasks' \cup pending' \/ g = f
      BY <1>1, <1>2, <1>5, <1>9, <2>2 DEF Kept, Counted, EndArrives
    <3>2. \E d \in Check : check'[d].step = "started" /\ f = First(d)'
      BY <1>4, <1>9
    <3>. QED  BY <3>1, <3>2 DEF Counted
  <2>4. Fits'
    <3>1. Cardinality(Seen) \in Nat /\ IsFiniteSet(Seen) /\ limit \in Nat
      BY SizeType
    <3>2. IsFiniteSet(check[c].list) /\ Cardinality(check[c].list) \in Nat
      BY CheckType, SizeType DEF Typed
    <3>3. Cardinality(Seen') = Cardinality(Seen) + 1
      BY <2>2, <3>1, FS_AddElement
    <3>4. Cardinality(ToAsk(c)') = Cardinality(check[c].list) - 1
      <4>1. Cardinality(check[c].list \ {f}) = Cardinality(check[c].list) - 1
        BY <1>3, <3>2, FS_RemoveElement
      <4>. QED  BY <1>4, <4>1
    <3>5. Cardinality(Seen) + Cardinality(check[c].list) <= limit
      BY <1>4, <1>5 DEF Kept, Fits
    <3>6. check[c].list # {}
      BY <1>3
    <3>7. Cardinality(check[c].list) # 0
      BY <3>2, <3>6, FS_EmptySet
    <3>. QED  BY <1>1, <1>6, <3>1, <3>2, <3>3, <3>4, <3>5, <3>7 DEF Fits
  <2>. QED  BY <1>7, <1>9, <2>1, <2>3, <2>4 DEF Kept
<1>10. \/ Seen' \subseteq Seen /\ overlooked' \subseteq Working'
       \/ /\ run[f] = "none" /\ ~EndArrives(f) /\ check'[c].step = "started"
          /\ run' = [run EXCEPT ![f] = "entered"] /\ overlooked' = overlooked
  <2>1. CASE UNCHANGED <<run, overlooked>>
    BY <2>1 DEF Seen, Working, Kept
  <2>2. CASE run[f] = "none" /\ Enlist(f, EndArrives(f)) /\ GotoStep(c, "started")
    <3>1. run' = [run EXCEPT ![f] = "entered"] /\ check'[c].step = "started"
      <4>1. check[c].step # "none"
        BY <1>2
      <4>2. check'[c].step = "started"
        <5>1. check'[c] = [step |-> "started", list |-> check[c].list,
                           active |-> check[c].active]
          BY <2>2, <4>1, GotoStepType
        <5>. QED  BY <5>1
      <4>. QED  BY <2>2, <4>2 DEF Enlist
    <3>2. CASE EndArrives(f)
      <4>1. overlooked' = overlooked \cup {f}
        BY <2>2, <3>2 DEF Enlist
      <4>2. Working' = Working \cup {f}
        BY <1>3, <3>1 DEF Working, Typed, TypeOK
      <4>. QED  BY <4>1, <4>2 DEF Seen, Kept
    <3>3. CASE ~EndArrives(f)
      BY <2>2, <3>1, <3>3 DEF Enlist
    <3>. QED  BY <3>2, <3>3
  <2>. QED  BY <2>1, <2>2 DEF RunFeature, Enlist
<1>. QED  BY <1>8, <1>9, <1>10

\* The feature whose run was asked for is pending from now on.
LEMMA CheckAnswered ==
  ASSUME Typed, Typed', Kept, NEW c \in Check, RunAnswered(c)
  PROVE  Kept'
<1>. DEFINE list == check[c].list \ {First(c)}
<1>1. /\ UNCHANGED <<limit, run, overlooked, tasks, events>>
      /\ pending' = IF check[c].step = "started" THEN pending \cup {First(c)} ELSE pending
  BY DEF RunAnswered, rigid, serverVars
<1>2. Seen' = Seen /\ Working' = Working
  BY <1>1 DEF Seen, Working
<1>3. check[c].step \in {"started", "refused"} /\ First(c) \in Feature
  BY FirstType DEF RunAnswered
<1>4. /\ \A d \in Check \ {c} : check'[d] = check[d]
      /\ \/ check'[c] = NoCheck
         \/ check'[c] = [step |-> "persist", list |-> list, active |-> TRUE]
  <2>1. list \in SUBSET Feature /\ check[c].active \in BOOLEAN
    BY CheckType DEF Typed
  <2>2. \E statuses \in [Feature -> Status] : StartNext(c, list, check[c].active, statuses)
    BY <1>3 DEF RunAnswered, Typed, TypeOK, Status
  <2>. HIDE DEF list
  <2>. QED  BY <2>1, <2>2, StartNextType
<1>5. \A d \in Check : check[d].step # "none" <=> d = c
  BY <1>3 DEF Kept, OneCheck
<1>6. \A d \in Check : check'[d].step # "none" => d = c /\ ToAsk(d)' \subseteq ToAsk(d)
  BY <1>3, <1>4, <1>5 DEF ToAsk, NoCheck
<1>7. OneCheck'
  BY <1>4, <1>5 DEF OneCheck, NoCheck
<1>8. Counted'
  BY <1>1, <1>2, <1>5 DEF Kept, Counted, EndArrives
<1>9. Fits'
  BY <1>1, <1>2, <1>5, <1>6, FitsStill
<1>. QED  BY <1>1, <1>2, <1>7, <1>8, <1>9 DEF Kept

LEMMA NextSteady == Typed /\ Typed' /\ Steady /\ [Next]_vars => Steady'
<1>. SUFFICES ASSUME Typed, Typed', Steady, [Next]_vars, "toggle" \notin condition'
              PROVE  Kept'
  BY DEF Steady
<1>1. UNCHANGED condition
  BY DEF Next, ContinueCheck, ContinueLoad, ContinueRun, HandleEvent, CheckFeatures,
         PersistStatus, StatusPersisted, RunFeature, RunAnswered, GetAll, SetFeatures,
         ResumeInterrupted, BeginRun, MarkInProgress, AgentEnds, EndRun, BeginStep, ResumeNext,
         FeatureStart, StepStarted, FeatureEnd, Arrives, Toggle, rigid, vars
<1>2. Kept /\ ~Toggle
  BY <1>1 DEF Steady, Toggle
<1>3. CASE UNCHANGED vars
  <2>1. UNCHANGED <<limit, check, run, overlooked, tasks, pending, events>>
    BY <1>3 DEF vars, rigid, boardVars, serverVars
  <2>2. Seen' = Seen /\ Working' = Working
    BY <2>1 DEF Seen, Working
  <2>3. Fits'
    BY <1>2, <2>1, <2>2, FitsStill, CheckAlone
  <2>4. Counted'
    BY <1>2, <2>1, <2>2, CheckAlone DEF Kept, Counted, EndArrives
  <2>. QED  BY <1>2, <2>1, <2>2, <2>3, <2>4 DEF Kept, OneCheck
<1>4. CASE Next
  BY <1>2, <1>4, CheckBegins, CheckGoesOn, CheckAsks, CheckAnswered, EventsKeep, LoadsKeep,
     RunsKeep DEF Next, HandleEvent, ContinueCheck
<1>. QED  BY <1>3, <1>4

\* The board keeps the limit as far as it sees, for any number of features and
\* any limit, through failures, crossing responses, reloads and resumptions.
THEOREM LimitKeptAsSeen == Spec => []WithinLimit
<1>1. Typed /\ Init => Steady
  <2>. SUFFICES ASSUME Typed, Init
                PROVE  Kept
    BY DEF Steady
  <2>1. Working = {} /\ overlooked = {} /\ Seen = {}
    BY DEF Init, Working, Seen
  <2>2. \A c \in Check : check[c].step = "none"
    BY DEF Init, NoCheck
  <2>3. Cardinality(Seen) = 0 /\ limit \in Nat
    BY <2>1, FS_EmptySet, SizeType
  <2>. QED  BY <2>1, <2>2, <2>3 DEF Kept, OneCheck, Counted, Fits
<1>2. Steady => WithinLimit
  BY DEF Steady, Kept, Fits, Seen, WithinLimit
<1>. QED  BY <1>1, <1>2, NextSteady, AlwaysTyped, PTL DEF Spec
=============================================================================
