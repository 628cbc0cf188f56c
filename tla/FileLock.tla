------------------------------ MODULE FileLock ------------------------------
(***************************************************************************)
(* withFileLock (libs/utils/src/memory-loader.ts), and the two that use it *)
(* on a memory file: incrementUsageStat, which reads the file and writes   *)
(* it back with a counter changed, and appendLearning.                     *)
(*                                                                         *)
(* A lock is a promise in a map.  Whoever finds one waits for it; all who  *)
(* wait for the same promise wake together, and each goes on to put a      *)
(* promise of its own into the map.  A promise is known by its caller.     *)
(* What the file says is the set of the calls whose update is in it.  File *)
(* operations succeed.                                                     *)
(***************************************************************************)
EXTENDS Naturals, FiniteSets

CONSTANTS
  Caller,       \* calls of incrementUsageStat and appendLearning, each made once
  Crowds,       \* how many of them may be under way at once
  NoCaller

ASSUME CrowdAssumption == Crowds \subseteq Nat \ {0}
ASSUME NoCallerAssumption == NoCaller \notin Caller

VARIABLES
  crowd,        \* rigid: how many callers there are at once in this behaviour
  lock,         \* fileLocks.get(filePath)
  at,           \* where each caller is
  waitsFor,     \* the promise that a caller awaits
  created,      \* the memory file has been created
  file,         \* the calls whose update it has
  seen          \* what incrementUsageStat has read

LockVars == <<crowd, lock, at, waitsFor, created, file, seen>>

\* Inside the operation: its first access to the file, and its last.
Holding == {"begin", "increment", "append", "create"}
Place == {"outside", "waiting", "gone", "skipped"} \cup Holding

Holders == {c \in Caller : at[c] \in Holding}
Waiters == {c \in Caller : at[c] = "waiting"}

\* Every state variable has its type.
LockTypeOK ==
  /\ crowd \in Crowds
  /\ lock \in Caller \cup {NoCaller}
  /\ at \in [Caller -> Place]
  /\ waitsFor \in [Caller -> Caller \cup {NoCaller}]
  /\ created \in BOOLEAN
  /\ file \in SUBSET Caller
  /\ seen \in [Caller -> SUBSET Caller]

LockInit ==
  /\ crowd \in Crowds
  /\ lock = NoCaller
  /\ at = [c \in Caller |-> "outside"]
  /\ waitsFor = [c \in Caller |-> NoCaller]
  /\ created \in BOOLEAN
  /\ file = {}
  /\ seen = [c \in Caller |-> {}]

-----------------------------------------------------------------------------
\* Mutant of Acquire: the promise that is found is not awaited.
AcquireNoWait(c) ==
  /\ at[c] = "outside"
  /\ Cardinality(Holders \cup Waiters) < crowd
  /\ at' = [at EXCEPT ![c] = "begin"]
  /\ lock' = c
  /\ UNCHANGED <<crowd, waitsFor, created, file, seen>>

\* The call, up to its first await.
Acquire(c) ==
  /\ at[c] = "outside"
  /\ Cardinality(Holders \cup Waiters) < crowd
  /\ IF lock # NoCaller
       THEN /\ at' = [at EXCEPT ![c] = "waiting"]
            /\ waitsFor' = [waitsFor EXCEPT ![c] = lock]
            /\ UNCHANGED lock
       ELSE /\ at' = [at EXCEPT ![c] = "begin"]
            /\ lock' = c
            /\ UNCHANGED waitsFor
  /\ UNCHANGED <<crowd, created, file, seen>>

\* Mutant of Release: those who wait are not woken.
ReleaseUnresolved(c, place) ==
  /\ lock' = NoCaller
  /\ at' = [at EXCEPT ![c] = place]
  /\ UNCHANGED waitsFor

\* The finally: the promise is resolved and the entry deleted, whoever's it is;
\* then, before anything else runs, all who waited for the promise go on in turn.
Release(c, place) ==
  LET woken == {w \in Waiters : waitsFor[w] = c} IN
  /\ IF woken = {} THEN lock' = NoCaller ELSE lock' \in woken
  /\ at' = [d \in Caller |-> IF d = c THEN place
                             ELSE IF d \in woken THEN "begin" ELSE at[d]]
  /\ waitsFor' = [d \in Caller |-> IF d \in woken THEN NoCaller ELSE waitsFor[d]]

\* incrementUsageStat reads the file, and gives up if there is none;
\* appendLearning looks whether it has to be created.
Begin(c) ==
  /\ at[c] = "begin"
  /\ \/ /\ created
        /\ at' = [at EXCEPT ![c] = "increment"]
        /\ seen' = [seen EXCEPT ![c] = file]
        /\ UNCHANGED <<lock, waitsFor>>
     \/ /\ ~created
        /\ Release(c, "skipped")
        /\ UNCHANGED seen
     \/ /\ at' = [at EXCEPT ![c] = IF created THEN "append" ELSE "create"]
        /\ UNCHANGED <<lock, waitsFor, seen>>
  /\ UNCHANGED <<crowd, created, file>>

\* incrementUsageStat writes what it read with the counter changed.
WriteBack(c) ==
  /\ at[c] = "increment"
  /\ file' = seen[c] \cup {c}
  /\ Release(c, "gone")
  /\ UNCHANGED <<crowd, created, seen>>

\* appendLearning appends to the file, or writes a new one over it.
AppendLearning(c) ==
  /\ at[c] \in {"append", "create"}
  /\ file' = IF at[c] = "append" THEN file \cup {c} ELSE {c}
  /\ created' = TRUE
  /\ Release(c, "gone")
  /\ UNCHANGED <<crowd, seen>>

LockNext ==
  \E c \in Caller : Acquire(c) \/ Begin(c) \/ WriteBack(c) \/ AppendLearning(c)

\* File operations end.
LockFairness ==
  \A c \in Caller : WF_LockVars(Begin(c) \/ WriteBack(c) \/ AppendLearning(c))

LockSpec == LockInit /\ [][LockNext]_LockVars /\ LockFairness

-----------------------------------------------------------------------------
(***************************************************************************)
(* Properties.                                                             *)
(***************************************************************************)
\* "In-memory locks to prevent race conditions when updating files": at most
\* one caller is inside.  The code does not meet it: of three callers, two
\* wait for the first and wake together.
Exclusive == Cardinality(Holders) <= 1

\* What the lock is for: an update that was made stays in the file.
UpdatesStay == {c \in Caller : at[c] = "gone"} \subseteq file

\* With no more than two callers at a time the lock excludes, and no update is
\* lost: the one who waits is the only one to be woken.
PairExclusive == crowd <= 2 => Exclusive /\ UpdatesStay

\* Every caller that waits gets in, however many wait with it.
WaitersEnter == \A c \in Caller : at[c] = "waiting" ~> at[c] \in Holding
=============================================================================
