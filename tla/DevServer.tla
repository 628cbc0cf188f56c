----------------------------- MODULE DevServer -----------------------------
(***************************************************************************)
(* The development servers of worktrees (apps/server/src/services/         *)
(* dev-server-service.ts): one for each worktree, each on a port of its    *)
(* own, which is reserved in allocatedPorts from before its process starts *)
(* until the process has exited or been stopped.                           *)
(*                                                                         *)
(* A start is a request, and the process that it spawns is known by it.    *)
(* Killing whatever listens on a port is an exit of some process, which    *)
(* may happen at any time; the output of servers is left out.              *)
(***************************************************************************)
EXTENDS Naturals

CONSTANTS
  Worktree,
  Start,        \* requests to start a server
  MaxPort,      \* ports are 1 .. MaxPort, for BASE_PORT .. MAX_PORT
  Habits,       \* the habits of users that are checked, see below
  NoStart

(***************************************************************************)
(*   stop     users stop servers                                           *)
(*   overlap  they start one before the last start has been answered       *)
(***************************************************************************)
AllHabits == {"stop", "overlap"}

ASSUME HabitAssumption == Habits \subseteq SUBSET AllHabits
ASSUME MaxPortAssumption == MaxPort \in Nat
ASSUME NoStartAssumption == NoStart \notin Start

VARIABLES
  habit,            \* rigid: the habits of this behaviour
  runningServers,   \* for each worktree the start whose server is listed
  allocatedPorts,
  start,            \* where each start is
  place,            \* its worktree
  port,             \* the port it looks at or has
  process           \* its process, exited once the service has been told

DevVars ==
  <<habit, runningServers, allocatedPorts, start, place, port, process>>

Port == 1 .. MaxPort
UnderWay == {"checking", "probing", "listening", "reserved", "spawned"}

\* Every state variable has its type.
DevTypeOK ==
  /\ habit \in Habits
  /\ runningServers \in [Worktree -> Start \cup {NoStart}]
  /\ allocatedPorts \in SUBSET Port
  /\ start \in [Start -> {"new", "up", "over"} \cup UnderWay]
  /\ place \in [Start -> Worktree]
  /\ port \in [Start -> 0 .. MaxPort]
  /\ process \in [Start -> {"none", "alive", "exited"}]

DevInit ==
  /\ habit \in Habits
  /\ runningServers = [w \in Worktree |-> NoStart]
  /\ allocatedPorts = {}
  /\ start = [s \in Start |-> "new"]
  /\ place \in [Start -> Worktree]
  /\ port = [s \in Start |-> 0]
  /\ process = [s \in Start |-> "none"]

-----------------------------------------------------------------------------
SetStart(s, p) == start' = [start EXCEPT ![s] = p]

\* Mutant of StartDevServer: it is not looked whether there is a server.
StartUnchecked(s) ==
  /\ start[s] = "new"
  /\ "overlap" \in habit \/ \A t \in Start : start[t] \notin UnderWay
  /\ SetStart(s, "checking")
  /\ UNCHANGED <<habit, runningServers, allocatedPorts, place, port, process>>

\* POST /start-dev: a server that is listed is the answer.
StartDevServer(s) ==
  /\ start[s] = "new"
  /\ "overlap" \in habit \/ \A t \in Start : start[t] \notin UnderWay
  /\ SetStart(s, IF runningServers[place[s]] = NoStart THEN "checking" ELSE "over")
  /\ UNCHANGED <<habit, runningServers, allocatedPorts, place, port, process>>

\* The loop of findAvailablePort, from p on: the first port that is not reserved
\* is cleared of processes and waited for; without one the start fails.
ProbeFrom(s, p) ==
  LET free == {q \in Port \ allocatedPorts : q >= p} IN
  \/ /\ free = {}
     /\ SetStart(s, "over")
     /\ UNCHANGED port
  \/ \E q \in free :
       /\ \A r \in free : q <= r
       /\ port' = [port EXCEPT ![s] = q]
       /\ SetStart(s, "probing")

\* The worktree and its package.json are there, or not.
FilesChecked(s) ==
  /\ start[s] = "checking"
  /\ \/ SetStart(s, "over") /\ UNCHANGED port
     \/ ProbeFrom(s, 1)
  /\ UNCHANGED <<habit, runningServers, allocatedPorts, place, process>>

\* The delay is over: isPortAvailable looks at the reservations again.
Probe(s) ==
  /\ start[s] = "probing"
  /\ \/ /\ port[s] \in allocatedPorts
        /\ ProbeFrom(s, port[s] + 1)
     \/ /\ port[s] \notin allocatedPorts
        /\ SetStart(s, "listening")
        /\ UNCHANGED port
  /\ UNCHANGED <<habit, runningServers, allocatedPorts, place, process>>

\* The system says whether the port is free; if it is, it is reserved.
PortProbed(s) ==
  /\ start[s] = "listening"
  /\ \/ /\ ProbeFrom(s, port[s] + 1)
        /\ UNCHANGED allocatedPorts
     \/ /\ allocatedPorts' = allocatedPorts \cup {port[s]}
        /\ SetStart(s, "reserved")
        /\ UNCHANGED port
  /\ UNCHANGED <<habit, runningServers, place, process>>

Spawn(s) ==
  /\ start[s] = "reserved"
  /\ SetStart(s, "spawned")
  /\ process' = [process EXCEPT ![s] = "alive"]
  /\ UNCHANGED <<habit, runningServers, allocatedPorts, place, port>>

\* What stopDevServer and the handlers of a process do to the two tables.
Forget(w, p) ==
  /\ allocatedPorts' = allocatedPorts \ {p}
  /\ runningServers' = [runningServers EXCEPT ![w] = NoStart]

\* Mutant of ProcessEnds: it cleans up only if its server is listed.
ProcessEndsQuietly(s) ==
  /\ process[s] = "alive"
  /\ process' = [process EXCEPT ![s] = "exited"]
  /\ IF runningServers[place[s]] = s THEN Forget(place[s], port[s])
                                     ELSE UNCHANGED <<allocatedPorts, runningServers>>
  /\ UNCHANGED <<habit, start, place, port>>

\* The 'exit' event of the process, or the 'error' event of one that could not be
\* spawned: cleanupAndEmitStop, by worktree and port.
ProcessEnds(s) ==
  /\ process[s] = "alive"
  /\ process' = [process EXCEPT ![s] = "exited"]
  /\ Forget(place[s], port[s])
  /\ UNCHANGED <<habit, start, place, port>>

\* Mutant of Started: the server is listed whatever became of its process.
StartedAnyway(s) ==
  /\ start[s] = "spawned"
  /\ runningServers' = [runningServers EXCEPT ![place[s]] = s]
  /\ SetStart(s, "up")
  /\ UNCHANGED <<habit, allocatedPorts, place, port, process>>

\* Half a second later a process that still runs is listed.
Started(s) ==
  /\ start[s] = "spawned"
  /\ \/ /\ process[s] = "alive"
        /\ runningServers' = [runningServers EXCEPT ![place[s]] = s]
        /\ SetStart(s, "up")
     \/ /\ process[s] = "exited"
        /\ SetStart(s, "over")
        /\ UNCHANGED runningServers
  /\ UNCHANGED <<habit, allocatedPorts, place, port, process>>

\* POST /stop-dev, and stopAll for each server: the process gets a signal, which
\* it may obey later or not at all.
StopDevServer(w) ==
  /\ "stop" \in habit
  /\ runningServers[w] # NoStart
  /\ Forget(w, port[runningServers[w]])
  /\ UNCHANGED <<habit, start, place, port, process>>

DevNext ==
  \/ \E s \in Start :
       \/ StartDevServer(s) \/ FilesChecked(s) \/ Probe(s) \/ PortProbed(s)
       \/ Spawn(s) \/ ProcessEnds(s) \/ Started(s)
  \/ \E w \in Worktree : StopDevServer(w)

DevSpec == DevInit /\ [][DevNext]_DevVars

-----------------------------------------------------------------------------
(***************************************************************************)
(* Properties.                                                             *)
(***************************************************************************)
\* A server that is listed has a process that has not exited,
\* although entries are made and removed by worktree and processes end at any
\* moment of the start.
ListedAlive ==
  \A w \in Worktree :
    runningServers[w] # NoStart => process[runningServers[w]] = "alive"

\* A port is reserved only for a start that is about to spawn or a process that
\* has not exited: nothing leaks, so that the hundred ports do not run out.
PortsHeld ==
  \A p \in allocatedPorts : \E s \in Start :
    port[s] = p /\ (start[s] = "reserved" \/ process[s] = "alive")

ServersAccounted == ListedAlive /\ PortsHeld

\* The process of the start runs, with the start's port.
Serves(s) == start[s] \in {"spawned", "up"} /\ process[s] = "alive"

\* "Each worktree can have its own dev server running on a unique port": as long
\* as starts do not overlap and nobody stops a server, the port of every process
\* that runs is reserved and nobody else's, and if it is up, it is listed.
OneServerEach ==
  habit = {} =>
    \A s \in Start : Serves(s) =>
      /\ port[s] \in allocatedPorts
      /\ start[s] = "up" => runningServers[place[s]] = s
      /\ \A t \in Start \ {s} :
           Serves(t) => port[s] # port[t] /\ place[s] # place[t]

\* An entry goes when its own process ends or its server is stopped.  The code
\* does not meet it: the second of two overlapping starts of a worktree replaces
\* the first, and the late exit of a server that was stopped removes its successor.
EntryKept ==
  [][\A w \in Worktree :
       LET s == runningServers[w] IN
       s # NoStart /\ runningServers'[w] # s =>
         \/ process'[s] # "alive"
         \/ process' = process /\ runningServers'[w] = NoStart]_DevVars
=============================================================================
