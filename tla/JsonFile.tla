------------------------------ MODULE JsonFile ------------------------------
(***************************************************************************)
(* One JSON file kept by libs/utils/src/atomic-writer.ts: feature.json as  *)
(* FeatureLoader and AutoModeService read and update it.                   *)
(*                                                                         *)
(* Beside the file there are its backups .bak1 .. .bakN and the temp files *)
(* .tmp.<stamp> of writes that are under way, or were when the server      *)
(* crashed.  An access, a rename and an unlink are one step; a write is    *)
(* two, the file is torn in between.  What a document says is the set of   *)
(* the updates that are in it.                                             *)
(***************************************************************************)
EXTENDS Naturals, FiniteSets

CONSTANTS
  Proc,         \* concurrent callers
  Update,       \* the updates they make
  MaxBackups,   \* backupCount, and maxBackups of the recovery
  MaxStamp,     \* bound: the milliseconds that Date.now() goes through
  Distinct,     \* no two writes begin in the same millisecond
  Serial,       \* a caller starts an update only when no other is under way
  Faults,       \* what may go wrong
  NoUpdate, None, Torn

\* "readFails": a read may fail although the file is whole (EMFILE, EACCES,
\* EIO); "writeFails": a write of the temp file or its rename may fail;
\* "ignoredFails": so may whatever the code ignores the failure of.
AllFaults == {"crash", "corrupt", "readFails", "writeFails", "ignoredFails"}

ASSUME BackupsAssumption == MaxBackups \in Nat
ASSUME StampAssumption == MaxStamp \in Nat \ {0}
ASSUME ModeAssumption == Distinct \in BOOLEAN /\ Serial \in BOOLEAN
ASSUME FaultsAssumption == Faults \subseteq AllFaults
ASSUME UpdateAssumption == NoUpdate \notin Update
ASSUME ContentAssumption ==
  None # Torn /\ \A d \in SUBSET Update : d \notin {None, Torn}

VARIABLES
  main,     \* the file
  temp,     \* the temp file of each stamp
  bak,      \* the backups
  clock,    \* the stamp of the last write
  proc,     \* the callers
  done,     \* the updates whose callers were told of success
  \* history of the recoveries
  recovered,   \* one has returned a document that it found elsewhere
  undone       \* updates of done that such a document was without

vars == <<main, temp, bak, clock, proc, done, recovered, undone>>
history == <<recovered, undone>>

Stamp == 1 .. MaxStamp
Backup == 1 .. MaxBackups
Data == SUBSET Update
Content == {None, Torn} \cup Data      \* None: there is no such file
Whole(c) == c \notin {None, Torn}

\* readJsonWithRecovery, and then atomicWriteJson with rotateBackups.
ReadPC == {"read", "scan", "temp", "restoreTemp", "bak", "restoreBak"}
WritePC == {"rotate", "copy", "open", "write", "rename"}

\* Where the file that a caller has open is by now: other callers may have
\* renamed it, or replaced it.
Place == {"temp", "main", "gone"}

ProcState == [pc : {"idle"} \cup ReadPC \cup WritePC,
              update : Update \cup {NoUpdate},      \* NoUpdate: only reads
              data : Data, stamp : Stamp, todo : SUBSET Stamp,
              next : 0 .. MaxBackups + 1, place : Place]

Idle == [pc |-> "idle", update |-> NoUpdate, data |-> {}, stamp |-> 1,
         todo |-> {}, next |-> 0, place |-> "gone"]

\* Every state variable has its type.
TypeOK ==
  /\ main \in Content
  /\ temp \in [Stamp -> Content]
  /\ bak \in [Backup -> Content]
  /\ clock \in 0 .. MaxStamp
  /\ proc \in [Proc -> ProcState]
  /\ done \in Data
  /\ recovered \in BOOLEAN
  /\ undone \in Data

\* FeatureLoader.create has written the file.
Init ==
  /\ main = {}
  /\ temp = [s \in Stamp |-> None]
  /\ bak = [i \in Backup |-> None]
  /\ clock = 0
  /\ proc = [p \in Proc |-> Idle]
  /\ done = {}
  /\ recovered = FALSE
  /\ undone = {}

-----------------------------------------------------------------------------
(***************************************************************************)
(* Building blocks.                                                        *)
(***************************************************************************)
At(p, pc) == proc[p].pc = pc
Goto(p, pc) == proc' = [proc EXCEPT ![p].pc = pc]
Writing(p) == proc[p].pc \in WritePC
MayFail(fault) == fault \in Faults

\* The names are sorted and reversed.
Newest(S) == CHOOSE s \in S : \A t \in S : t <= s

\* Date.now() at a write: only the order of the stamps matters.
NextStamp(s) == s = clock + 1 \/ (~Distinct /\ s = clock)

\* The caller enters atomicWriteJson with document d and its update, at stamp s.
Enters(procs, p, d, s) ==
  [procs EXCEPT ![p] =
    [Idle EXCEPT !.pc = IF MaxBackups = 0 THEN "open" ELSE "rotate",
                 !.update = proc[p].update, !.data = d \cup {proc[p].update},
                 !.stamp = s, !.next = MaxBackups]]

\* Mutant of Got: a caller that only reads writes the document back.
GotAlwaysWrites(procs, p, d) ==
  \E s \in Stamp : NextStamp(s) /\ clock' = s /\ proc' = Enters(procs, p, d, s)

\* The read returned d: a caller that only reads is done, another changes the
\* document and writes it.
Got(procs, p, d) ==
  \/ /\ proc[p].update = NoUpdate
     /\ proc' = [procs EXCEPT ![p] = Idle]
     /\ UNCHANGED clock
  \/ /\ proc[p].update # NoUpdate
     /\ \E s \in Stamp :
          NextStamp(s) /\ clock' = s /\ proc' = Enters(procs, p, d, s)

\* The temp file of stamp s takes the place of the file: callers that have it
\* open, or had the file open, write elsewhere from now on.
Moved(procs, s) ==
  [q \in Proc |->
    IF procs[q].pc # "write" THEN procs[q]
    ELSE IF procs[q].place = "main" THEN [procs[q] EXCEPT !.place = "gone"]
    ELSE IF procs[q].place = "temp" /\ procs[q].stamp = s
      THEN [procs[q] EXCEPT !.place = "main"]
    ELSE procs[q]]

\* A recovery returns d, and has put main' in the place of the file.
FallsBackOn(d) ==
  /\ recovered' = TRUE
  /\ undone' = undone \cup
       {u \in done : u \notin d \/ (Whole(main') /\ u \notin main')}

\* What readJsonWithRecovery would return if the file were unreadable now.
Recoverable ==
  LET temps == {s \in Stamp : Whole(temp[s])}
      baks == {i \in Backup : Whole(bak[i])}
  IN IF temps # {} THEN temp[Newest(temps)]
     ELSE IF baks # {} THEN bak[CHOOSE i \in baks : \A j \in baks : i <= j]
     ELSE None

-----------------------------------------------------------------------------
(***************************************************************************)
(* readJsonWithRecovery.                                                   *)
(***************************************************************************)
\* get and getAll of FeatureLoader (u = NoUpdate), updateFeatureStatus,
\* updateFeaturePlanSpec and update.
Call(p, u) ==
  /\ At(p, "idle")
  /\ u \notin done /\ \A q \in Proc : u # NoUpdate => proc[q].update # u
  /\ Serial /\ u # NoUpdate => \A q \in Proc : proc[q].update = NoUpdate
  /\ proc' = [proc EXCEPT ![p] = [Idle EXCEPT !.pc = "read", !.update = u]]
  /\ UNCHANGED <<main, temp, bak, clock, done, history>>

ReadMain(p) ==
  /\ At(p, "read")
  /\ \/ Whole(main) /\ Got(proc, p, main)
     \/ /\ ~Whole(main) \/ MayFail("readFails")
        /\ Goto(p, "scan")
        /\ UNCHANGED clock
  /\ UNCHANGED <<main, temp, bak, done, history>>

\* A readdir that fails is as if each temp file could not be read.
ReadDir(p) ==
  /\ At(p, "scan")
  /\ proc' = [proc EXCEPT ![p].pc = "temp",
                          ![p].todo = {s \in Stamp : temp[s] # None}]
  /\ UNCHANGED <<main, temp, bak, clock, done, history>>

ReadTemp(p) ==
  LET s == Newest(proc[p].todo) IN
  /\ At(p, "temp")
  /\ proc[p].todo # {}
  /\ \/ /\ Whole(temp[s])
        /\ proc' = [proc EXCEPT ![p].pc = "restoreTemp", ![p].data = temp[s],
                                ![p].stamp = s, ![p].todo = {}]
     \/ /\ ~Whole(temp[s]) \/ MayFail("readFails")
        /\ proc' = [proc EXCEPT ![p].todo = @ \ {s}]
  /\ UNCHANGED <<main, temp, bak, clock, done, history>>

NoTemps(p) ==
  /\ At(p, "temp")
  /\ proc[p].todo = {}
  /\ proc' = [proc EXCEPT ![p].pc = "bak", ![p].next = 1]
  /\ UNCHANGED <<main, temp, bak, clock, done, history>>

\* rename(tempPath, resolvedPath): if the temp file is gone, or the rename fails,
\* the data that was read from it is returned all the same.
RestoreTemp(p) ==
  LET s == proc[p].stamp IN
  /\ At(p, "restoreTemp")
  /\ \/ /\ temp[s] = None \/ MayFail("ignoredFails")
        /\ UNCHANGED <<main, temp>>
        /\ Got(proc, p, proc[p].data)
     \/ /\ temp[s] # None
        /\ main' = temp[s]
        /\ temp' = [temp EXCEPT ![s] = None]
        /\ Got(Moved(proc, s), p, proc[p].data)
  /\ FallsBackOn(proc[p].data)
  /\ UNCHANGED <<bak, done>>

ReadBackup(p) ==
  LET i == proc[p].next IN
  /\ At(p, "bak")
  /\ i \in Backup
  /\ \/ /\ Whole(bak[i])
        /\ proc' = [proc EXCEPT ![p].pc = "restoreBak", ![p].data = bak[i]]
     \/ /\ ~Whole(bak[i]) \/ MayFail("readFails")
        /\ proc' = [proc EXCEPT ![p].next = i + 1]
  /\ UNCHANGED <<main, temp, bak, clock, done, history>>

\* copyFile(backupPath, resolvedPath): the backup may have been rotated away,
\* and a copy that fails before its end removes what it has written.
RestoreBackup(p) ==
  LET i == proc[p].next IN
  /\ At(p, "restoreBak")
  /\ \/ bak[i] # None /\ main' = bak[i]
     \/ bak[i] = None /\ UNCHANGED main
     \/ MayFail("ignoredFails") /\ main' \in {main, None}
  /\ Got(proc, p, proc[p].data)
  /\ FallsBackOn(proc[p].data)
  /\ UNCHANGED <<temp, bak, done>>

\* The default is null: the caller gives up.
NothingToRead(p) ==
  /\ At(p, "bak")
  /\ proc[p].next = MaxBackups + 1
  /\ proc' = [proc EXCEPT ![p] = Idle]
  /\ UNCHANGED <<main, temp, bak, clock, done, history>>

-----------------------------------------------------------------------------
(***************************************************************************)
(* Mutants of the write.                                                   *)
(***************************************************************************)
\* The loop unlinks every backup.
RotateUnlinks(p) ==
  LET i == proc[p].next IN
  /\ At(p, "rotate")
  /\ bak' = [bak EXCEPT ![i] = None]
  /\ proc' = [proc EXCEPT ![p].next = i - 1,
                          ![p].pc = IF i = 1 THEN "copy" ELSE "rotate"]
  /\ UNCHANGED <<main, temp, clock, done, history>>

\* writeFile(resolvedPath).
OpenInPlace(p) ==
  /\ At(p, "open")
  /\ main' = Torn
  /\ proc' = [proc EXCEPT ![p].pc = "write", ![p].place = "main"]
  /\ UNCHANGED <<temp, bak, clock, done, history>>

\* writeFile(tempPath) is not awaited.
OpenNotAwaited(p) ==
  /\ At(p, "open")
  /\ temp' = [temp EXCEPT ![proc[p].stamp] = Torn]
  /\ Goto(p, "rename")
  /\ UNCHANGED <<main, bak, clock, done, history>>

\* The error is logged, but not thrown again.
WriteFailsUnnoticed(p) ==
  /\ MayFail("writeFails")
  /\ proc[p].pc \in {"open", "write", "rename"}
  /\ temp' = [temp EXCEPT ![proc[p].stamp] = None]
  /\ proc' = [proc EXCEPT ![p] = Idle]
  /\ done' = done \cup {proc[p].update}
  /\ UNCHANGED <<main, bak, clock, history>>

-----------------------------------------------------------------------------
(***************************************************************************)
(* atomicWriteJson.                                                        *)
(***************************************************************************)
\* rotateBackups: access fails, and there is nothing to back up.
NoRotation(p) ==
  /\ At(p, "rotate")
  /\ proc[p].next = MaxBackups
  /\ main = None \/ MayFail("ignoredFails")
  /\ Goto(p, "open")
  /\ UNCHANGED <<main, temp, bak, clock, done, history>>

\* One turn of its loop: the oldest backup is unlinked, and each other one moves
\* up if it exists.
Rotate(p) ==
  LET i == proc[p].next IN
  /\ At(p, "rotate")
  /\ \/ i = MaxBackups /\ bak' = [bak EXCEPT ![i] = None]
     \/ /\ i # MaxBackups /\ bak[i] # None
        /\ bak' = [bak EXCEPT ![i + 1] = bak[i], ![i] = None]
     \/ (bak[i] = None \/ MayFail("ignoredFails")) /\ UNCHANGED bak
  /\ proc' = [proc EXCEPT ![p].next = i - 1,
                          ![p].pc = IF i = 1 THEN "copy" ELSE "rotate"]
  /\ UNCHANGED <<main, temp, clock, done, history>>

\* copyFile(filePath, .bak1); a failure is only logged.
CopyBackup(p) ==
  /\ At(p, "copy")
  /\ \/ main # None /\ bak' = [bak EXCEPT ![1] = main]
     \/ main = None /\ UNCHANGED bak
     \/ MayFail("ignoredFails") /\ bak' \in {bak, [bak EXCEPT ![1] = None]}
  /\ Goto(p, "open")
  /\ UNCHANGED <<main, temp, clock, done, history>>

\* writeFile(tempPath) creates the file or truncates it.
Open(p) ==
  /\ At(p, "open")
  /\ temp' = [temp EXCEPT ![proc[p].stamp] = Torn]
  /\ proc' = [proc EXCEPT ![p].pc = "write", ![p].place = "temp"]
  /\ UNCHANGED <<main, bak, clock, done, history>>

\* The content is written, perhaps over that of a caller with the same stamp.
Written(before, data) == IF before = Torn THEN {data} ELSE {data, Torn}

Write(p) ==
  LET s == proc[p].stamp IN
  /\ At(p, "write")
  /\ \/ /\ proc[p].place = "temp"
        /\ \E c \in Written(temp[s], proc[p].data) : temp' = [temp EXCEPT ![s] = c]
        /\ UNCHANGED main
     \/ /\ proc[p].place = "main"
        /\ main' \in Written(main, proc[p].data)
        /\ UNCHANGED temp
     \/ /\ proc[p].place = "gone"
        /\ UNCHANGED <<main, temp>>
  /\ proc' = [proc EXCEPT ![p].pc = "rename", ![p].place = "gone"]
  /\ UNCHANGED <<bak, clock, done, history>>

\* rename(tempPath, resolvedPath); it throws if somebody took the temp file.
Rename(p) ==
  LET s == proc[p].stamp IN
  /\ At(p, "rename")
  /\ \/ /\ temp[s] # None
        /\ main' = temp[s]
        /\ temp' = [temp EXCEPT ![s] = None]
        /\ proc' = [Moved(proc, s) EXCEPT ![p] = Idle]
        /\ done' = done \cup {proc[p].update}
     \/ /\ temp[s] = None
        /\ proc' = [proc EXCEPT ![p] = Idle]
        /\ UNCHANGED <<main, temp, done>>
  /\ UNCHANGED <<bak, clock, history>>

\* The write or the rename fails: the temp file is unlinked, if that works, and
\* the caller told.
WriteFails(p) ==
  LET s == proc[p].stamp IN
  /\ MayFail("writeFails")
  /\ proc[p].pc \in {"open", "write", "rename"}
  /\ \/ /\ temp' = [temp EXCEPT ![s] = None]
        /\ proc' = [q \in Proc |->
             IF q = p THEN Idle
             ELSE IF proc[q].pc = "write" /\ proc[q].place = "temp" /\ proc[q].stamp = s
               THEN [proc[q] EXCEPT !.place = "gone"]
             ELSE proc[q]]
     \/ /\ MayFail("ignoredFails")
        /\ proc' = [proc EXCEPT ![p] = Idle]
        /\ UNCHANGED temp
  /\ UNCHANGED <<main, bak, clock, done, history>>

-----------------------------------------------------------------------------
(***************************************************************************)
(* The environment.                                                        *)
(***************************************************************************)
\* The server crashes.  Files stay as they are, and a copy that was going on
\* leaves a torn one.
Crash ==
  /\ MayFail("crash")
  /\ \/ UNCHANGED <<main, bak, history>>
     \/ /\ \E p \in Proc : At(p, "copy")
        /\ bak' = [bak EXCEPT ![1] = Torn]
        /\ UNCHANGED <<main, history>>
     \/ /\ \E p \in Proc : At(p, "restoreBak")
        /\ main' = Torn
        /\ recovered' = TRUE
        /\ UNCHANGED <<bak, undone>>
  /\ proc' = [p \in Proc |-> Idle]
  /\ UNCHANGED <<temp, clock, done>>

\* Between two writes an editor, a merge of the project or a power cut leaves
\* the file unparsable; what no recovery can bring back is owed to nobody.
Corrupt ==
  /\ MayFail("corrupt")
  /\ \A p \in Proc : ~Writing(p)
  /\ Whole(main)
  /\ main' = Torn
  /\ done' = IF Recoverable = None THEN {} ELSE done \cap Recoverable
  /\ UNCHANGED <<temp, bak, clock, proc, history>>

-----------------------------------------------------------------------------
Recovery(p) ==
  \/ ReadDir(p) \/ ReadTemp(p) \/ NoTemps(p) \/ RestoreTemp(p)
  \/ ReadBackup(p) \/ RestoreBackup(p) \/ NothingToRead(p)

AtomicWrite(p) ==
  \/ NoRotation(p) \/ Rotate(p) \/ CopyBackup(p) \/ Open(p) \/ Write(p) \/ Rename(p)
  \/ WriteFails(p)

Next ==
  \/ \E p \in Proc, u \in Update \cup {NoUpdate} : Call(p, u)
  \/ \E p \in Proc : ReadMain(p) \/ Recovery(p) \/ AtomicWrite(p)
  \/ Crash
  \/ Corrupt

Spec == Init /\ [][Next]_vars

-----------------------------------------------------------------------------
(***************************************************************************)
(* Properties.                                                             *)
(***************************************************************************)
\* "Atomically write JSON data to a file": whoever reads the file, at any
\* time, finds a whole document.  Writes alone keep it so; a recovery does not
\* (a crash tears the file that it copies a backup to).
MainComplete == Whole(main) \/ recovered

\* Neither a write nor the restoring of a temp file ever turns a whole file
\* into half a one, not even when several callers recover, rotate and write at
\* once.  Of the restoring of a backup this is not true: the copy may find a
\* torn backup that a rotation has moved there since it was read.
WritesKeepWhole ==
  [][(\E p \in Proc : RestoreTemp(p) \/ AtomicWrite(p)) /\ Whole(main)
       => Whole(main')]_vars

\* A caller that was told of success finds its update in the file from then
\* on, whatever other callers have done, unless a recovery has gone back to a
\* document without it: nothing else ever takes an update out of the file.
NoUpdateLost == Whole(main) => done \subseteq main \cup undone

\* Should the file become unreadable, the recovery returns a document that
\* lacks one completed update at most, also halfway through a rotation.
BackupsTrail ==
  done # {} => /\ Whole(Recoverable)
               /\ Cardinality(done \ Recoverable) <= 1

\* The recovery looks at "temp files first (in case of interrupted write)":
\* the temp file it restores is not behind the newest backup.
TempIsNewest ==
  [][\A p \in Proc :
       At(p, "restoreTemp") /\ main' # main /\ Whole(bak[1]) =>
         bak[1] \subseteq main']_vars

\* The file is the shared record that callers take it for, until a recovery
\* falls back on what it has found.
Record == INSTANCE SharedRecord WITH value <- main, intact <- ~recovered
ImplementsRecord == Record!Spec
=============================================================================
