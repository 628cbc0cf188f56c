---------------------------- MODULE AgentSession ----------------------------
(***************************************************************************)
(* One chat session of AgentService (apps/server/src/services/             *)
(* agent-service.ts): the flag isRunning, the abort controller, the queue  *)
(* of prompts, and the runs of sendMessage that share them.                *)
(*                                                                         *)
(* A message is sent once, directly or through the queue, and its run is   *)
(* known by it; so is the AbortController that the run creates.  What a    *)
(* message says, the saved conversation and the sandbox are left out.      *)
(***************************************************************************)
EXTENDS Sequences, FiniteSets, Naturals

CONSTANTS
  Message,      \* the messages that users send or queue
  Traffics,     \* the kinds of traffic that are checked, see below
  NoMessage

(***************************************************************************)
(* What may happen beside plain sends and queued prompts:                  *)
(*   lookup  messages with a model or images, which sendMessage awaits     *)
(*   fail    providers, settings and lookups that fail, images refused     *)
(*   stop    POST /stop          clear   POST /clear                       *)
(*   edit    prompts removed from the queue                                *)
(***************************************************************************)
AllTraffic == {"lookup", "fail", "stop", "clear", "edit"}

ASSUME TrafficAssumption == Traffics \subseteq SUBSET AllTraffic
ASSUME NoMessageAssumption == NoMessage \notin Message

VARIABLES
  traffic,      \* rigid: the traffic of this behaviour
  running,      \* isRunning
  controller,   \* abortController: the message whose run created it
  queue,        \* promptQueue
  dispatches,   \* processNextInQueue calls that setImmediate has scheduled
  phase,        \* how far each message is
  signal,       \* the controller that a run has given to its provider
  aborted       \* the controllers that have been aborted

SessionVars ==
  <<traffic, running, controller, queue, dispatches, phase, signal, aborted>>

\* Claimed: the session is marked as running and the context is being read.
Active == {"claimed", "streaming", "saving"}
Over == {"ended", "refused", "removed"}
Phase == {"new", "queued", "taken", "lookup"} \cup Active \cup Over

Running == {m \in Message : phase[m] \in Active}

\* Every state variable has its type.
SessionTypeOK ==
  /\ traffic \in Traffics
  /\ running \in BOOLEAN
  /\ controller \in Message \cup {NoMessage}
  /\ queue \in Seq(Message)
  /\ dispatches \in Nat
  /\ phase \in [Message -> Phase]
  /\ signal \in [Message -> Message \cup {NoMessage}]
  /\ aborted \in SUBSET Message

\* startConversation has created the session.
SessionInit ==
  /\ traffic \in Traffics
  /\ running = FALSE
  /\ controller = NoMessage
  /\ queue = <<>>
  /\ dispatches = 0
  /\ phase = [m \in Message |-> "new"]
  /\ signal = [m \in Message |-> NoMessage]
  /\ aborted = {}

-----------------------------------------------------------------------------
\* Mutant of Reset: the flag stays as it is.
ResetKeepsFlag == running' = running /\ controller' = NoMessage

\* The end of a run, whichever way it ends.
Reset == running' = FALSE /\ controller' = NoMessage

SetPhase(m, p) == phase' = [phase EXCEPT ![m] = p]

\* sendMessage from the message's push to its first await after it.
Claim(m) ==
  /\ running' = TRUE
  /\ controller' = m
  /\ SetPhase(m, "claimed")

\* Mutant of Enter: the check of isRunning is missing.
EnterUnchecked(m) ==
  \/ Claim(m)
  \/ "lookup" \in traffic /\ SetPhase(m, "lookup") /\ UNCHANGED <<running, controller>>

\* sendMessage from its beginning to its first await: it throws if the session
\* is running or its model does not see images, and awaits updateSession and the
\* images if the message has any.
Enter(m) ==
  \/ /\ running \/ "fail" \in traffic
     /\ SetPhase(m, "refused")
     /\ UNCHANGED <<running, controller>>
  \/ ~running /\ Claim(m)
  \/ /\ ~running /\ "lookup" \in traffic
     /\ SetPhase(m, "lookup")
     /\ UNCHANGED <<running, controller>>

-----------------------------------------------------------------------------
(***************************************************************************)
(* Requests.                                                               *)
(***************************************************************************)
\* POST /send answers at once, also when sendMessage throws.
SendMessage(m) ==
  /\ phase[m] = "new"
  /\ Enter(m)
  /\ UNCHANGED <<traffic, queue, dispatches, signal, aborted>>

AddToQueue(m) ==
  /\ phase[m] = "new"
  /\ queue' = Append(queue, m)
  /\ SetPhase(m, "queued")
  /\ UNCHANGED <<traffic, running, controller, dispatches, signal, aborted>>

RemoveFromQueue(m) ==
  /\ "edit" \in traffic
  /\ phase[m] = "queued"
  /\ \E i \in DOMAIN queue :
       queue[i] = m /\ queue' = SubSeq(queue, 1, i - 1) \o SubSeq(queue, i + 1, Len(queue))
  /\ SetPhase(m, "removed")
  /\ UNCHANGED <<traffic, running, controller, dispatches, signal, aborted>>

ClearQueue ==
  /\ "edit" \in traffic
  /\ queue # <<>>
  /\ queue' = <<>>
  /\ phase' = [m \in Message |-> IF phase[m] = "queued" THEN "removed" ELSE phase[m]]
  /\ UNCHANGED <<traffic, running, controller, dispatches, signal, aborted>>

\* Mutant of StopExecution: it is not looked whether there is a controller.
StopUnchecked ==
  /\ "stop" \in traffic
  /\ aborted' = aborted \cup {controller}
  /\ Reset
  /\ UNCHANGED <<traffic, queue, dispatches, phase, signal>>

\* The run that is stopped goes on until its provider notices.
StopExecution ==
  /\ "stop" \in traffic
  /\ controller # NoMessage
  /\ aborted' = aborted \cup {controller}
  /\ Reset
  /\ UNCHANGED <<traffic, queue, dispatches, phase, signal>>

\* clearSession does not stop the run, nor does it touch its controller.
ClearSession ==
  /\ "clear" \in traffic
  /\ running' = FALSE
  /\ UNCHANGED <<traffic, controller, queue, dispatches, phase, signal, aborted>>

-----------------------------------------------------------------------------
(***************************************************************************)
(* The continuations of sendMessage.                                       *)
(***************************************************************************)
\* isRunning is not looked at again.
LookedUp(m) ==
  /\ phase[m] = "lookup"
  /\ \/ Claim(m)
     \/ "fail" \in traffic /\ SetPhase(m, "refused") /\ UNCHANGED <<running, controller>>
  /\ UNCHANGED <<traffic, queue, dispatches, signal, aborted>>

\* Settings and context files have been read; the controller that the provider
\* gets is the one that the session has by now.
BeginStream(m) ==
  /\ phase[m] = "claimed"
  /\ SetPhase(m, "streaming")
  /\ signal' = [signal EXCEPT ![m] = controller]
  /\ UNCHANGED <<traffic, running, controller, queue, dispatches, aborted>>

StreamEnds(m) ==
  /\ phase[m] = "streaming"
  /\ SetPhase(m, "saving")
  /\ UNCHANGED <<traffic, running, controller, queue, dispatches, signal, aborted>>

\* Mutant of Saved: the queue is not taken up.
SavedForgetsQueue(m) ==
  /\ phase[m] = "saving"
  /\ Reset
  /\ SetPhase(m, "ended")
  /\ UNCHANGED <<traffic, queue, dispatches, signal, aborted>>

\* The conversation is saved: the session is free and the queue taken up.
Saved(m) ==
  /\ phase[m] = "saving"
  /\ Reset
  /\ SetPhase(m, "ended")
  /\ dispatches' = dispatches + 1
  /\ UNCHANGED <<traffic, queue, signal, aborted>>

\* An abort, an error thrown or an error message of the provider: the session
\* is free, and the queue is not taken up.
Fails(m) ==
  /\ \/ phase[m] = "streaming" /\ signal[m] \in aborted
     \/ phase[m] \in {"claimed", "streaming"} /\ "fail" \in traffic
  /\ Reset
  /\ SetPhase(m, "ended")
  /\ UNCHANGED <<traffic, queue, dispatches, signal, aborted>>

-----------------------------------------------------------------------------
(***************************************************************************)
(* processNextInQueue.                                                     *)
(***************************************************************************)
Dispatch ==
  /\ dispatches > 0
  /\ dispatches' = dispatches - 1
  /\ IF queue = <<>> \/ running
       THEN UNCHANGED <<queue, phase>>
       ELSE queue' = Tail(queue) /\ SetPhase(Head(queue), "taken")
  /\ UNCHANGED <<traffic, running, controller, signal, aborted>>

\* The queue has been saved.  Should the session be running by now, the prompt
\* is given up with a queue_error.
SendTaken(m) ==
  /\ phase[m] = "taken"
  /\ Enter(m)
  /\ UNCHANGED <<traffic, queue, dispatches, signal, aborted>>

-----------------------------------------------------------------------------
Continue(m) ==
  LookedUp(m) \/ BeginStream(m) \/ StreamEnds(m) \/ Saved(m) \/ Fails(m) \/ SendTaken(m)

SessionNext ==
  \/ \E m \in Message :
       SendMessage(m) \/ AddToQueue(m) \/ RemoveFromQueue(m) \/ Continue(m)
  \/ ClearQueue \/ StopExecution \/ ClearSession \/ Dispatch

\* Every callback runs; files are read and written, and streams end.
SessionFairness ==
  /\ WF_SessionVars(Dispatch)
  /\ \A m \in Message : WF_SessionVars(Continue(m))

SessionSpec == SessionInit /\ [][SessionNext]_SessionVars /\ SessionFairness

-----------------------------------------------------------------------------
(***************************************************************************)
(* Properties.                                                             *)
(***************************************************************************)
\* A session that says it is running has the controller of a run that is still
\* under way: the flag is taken back in the end, and a stop finds it, whatever
\* has been sent, stopped and cleared before.
RunningOwned == running => controller \in Running

\* "Agent is already processing a message": without stops and clears, and as
\* long as no message has anything to be looked up between the check and the
\* claim, one run at a time works in the session.
OneAtATime ==
  traffic \cap {"stop", "clear", "lookup"} = {} => Cardinality(Running) <= 1

\* "Queue of prompts to auto-run after current task": unless somebody stops it,
\* a provider fails, or a prompt is refused for what was looked up (images that
\* its model does not take), a session that is running gets through its queue,
\* also when other messages are sent and refused between the prompts.  After
\* such a failure or refusal nobody takes up what is still queued.
QueueDrains ==
  traffic \cap {"stop", "fail"} = {} =>
    \A m \in Message : (running /\ phase[m] = "queued") ~> phase[m] \in Over

\* A run that was stopped before its stream began hands over a controller that
\* has been aborted.  The code does not meet it: the run gets none, or its
\* successor's, and goes on.
StopEnds ==
  [][\A m \in Message :
       phase[m] = "claimed" /\ phase'[m] = "streaming" /\ m \in aborted =>
         signal'[m] = m]_SessionVars

\* A run streams under its own controller.  The code does not meet it either.
Stoppable ==
  \A m \in Message : phase[m] = "streaming" => signal[m] = m
=============================================================================
