--------------------------- MODULE JsonFileProofs ---------------------------
(***************************************************************************)
(* Proofs about JsonFile, for any number of callers, updates, backups and  *)
(* stamps.                                                                 *)
(***************************************************************************)
EXTENDS JsonFile, FiniteSetTheorems, WellFoundedInduction, TLAPS

USE DEF history

\* Newest picks a member of every non-empty set of stamps: the one that is
\* the least far from the bound.
LEMMA NewestMember ==
  ASSUME NEW S, S \subseteq Stamp, S # {}
  PROVE  Newest(S) \in S
<1>. DEFINE Less == {p \in Nat \X Nat : p[1] < p[2]}
            Left == {MaxStamp - s : s \in S}
<1>0. \A s \in S : s \in Nat /\ MaxStamp - s \in Nat
  BY StampAssumption DEF Stamp
<1>1. Left \subseteq Nat /\ Left # {}
  <2>1. Left \subseteq Nat
    BY <1>0
  <2>2. PICK s \in S : TRUE
    OBVIOUS
  <2>3. MaxStamp - s \in Left
    OBVIOUS
  <2>. QED  BY <2>1, <2>3
<1>2. IsWellFoundedOn(Less, Nat)
  BY NatLessThanWellFounded DEF OpToRel
<1>3. PICK x \in Left : \A y \in Left : <<y, x>> \notin Less
  <2>. HIDE DEF Less, Left
  <2>. QED  BY <1>1, <1>2, WFMin
<1>4. PICK s \in S : x = MaxStamp - s
  OBVIOUS
<1>5. ASSUME NEW t \in S
      PROVE  t <= s
  <2>1. MaxStamp - t \in Nat /\ MaxStamp - s \in Nat /\ s \in Nat /\ t \in Nat
    BY <1>0
  <2>2. ~(MaxStamp - t < MaxStamp - s)
    BY <1>3, <1>4, <2>1
  <2>. QED  BY <2>1, <2>2, StampAssumption
<1>. QED  BY <1>5 DEF Newest

\* Data, None and Torn are apart.
LEMMA Contents ==
  /\ \A d \in Data : Whole(d) /\ d \in Content
  /\ \A c \in Content : Whole(c) => c \in Data
  /\ None \in Content /\ Torn \in Content /\ ~Whole(None) /\ ~Whole(Torn)
  /\ None # Torn
BY ContentAssumption DEF Data, Content, Whole

\* The places of a caller as sets.
LEMMA Members ==
  /\ {"read", "scan", "temp", "restoreTemp", "bak", "restoreBak"} = ReadPC
  /\ {"rotate", "copy", "open", "write", "rename"} = WritePC
  /\ {"temp", "main", "gone"} = Place
BY DEF ReadPC, WritePC, Place

LEMMA Numbers ==
  /\ 1 \in Stamp /\ Stamp \subseteq 1 .. MaxStamp
  /\ 0 \in 0 .. MaxBackups + 1 /\ 1 \in 0 .. MaxBackups + 1
  /\ MaxBackups \in 0 .. MaxBackups + 1
BY StampAssumption, BackupsAssumption DEF Stamp

LEMMA IdleType == Idle \in ProcState
BY Members, Numbers DEF Idle, ProcState, Data

\* One caller moves on.
LEMMA ProcStep ==
  ASSUME NEW procs \in [Proc -> ProcState], NEW p \in Proc, NEW s \in ProcState,
         proc' = [procs EXCEPT ![p] = s]
  PROVE  proc' \in [Proc -> ProcState]
OBVIOUS

LEMMA GotType ==
  ASSUME TypeOK, NEW p \in Proc, NEW d \in Data,
         NEW procs \in [Proc -> ProcState], Got(procs, p, d)
  PROVE  proc' \in [Proc -> ProcState] /\ clock' \in 0 .. MaxStamp
<1>0. proc[p] \in ProcState
  BY DEF TypeOK
<1>1. CASE proc' = [procs EXCEPT ![p] = Idle] /\ UNCHANGED clock
  BY <1>1, IdleType, ProcStep DEF TypeOK
<1>2. ASSUME proc[p].update # NoUpdate, NEW s \in Stamp,
             clock' = s, proc' = Enters(procs, p, d, s)
      PROVE  proc' \in [Proc -> ProcState] /\ clock' \in 0 .. MaxStamp
  <2>. DEFINE t == [Idle EXCEPT !.pc = IF MaxBackups = 0 THEN "open" ELSE "rotate",
                                !.update = proc[p].update,
                                !.data = d \cup {proc[p].update},
                                !.stamp = s, !.next = MaxBackups]
  <2>1. proc[p].update \in Update
    BY <1>0, <1>2 DEF ProcState
  <2>2. d \cup {proc[p].update} \in Data
    BY <2>1 DEF Data
  <2>3. t \in ProcState
    BY <2>1, <2>2, <1>2, Members, Numbers, IdleType DEF ProcState
  <2>4. s \in 0 .. MaxStamp
    BY Numbers, StampAssumption
  <2>. QED  BY <1>2, <2>3, <2>4, ProcStep DEF Enters
<1>. QED  BY <1>1, <1>2 DEF Got

LEMMA FallsBackType ==
  ASSUME TypeOK, NEW d, FallsBackOn(d)
  PROVE  recovered' \in BOOLEAN /\ undone' \in Data
BY DEF TypeOK, FallsBackOn, Data

LEMMA MovedType ==
  ASSUME NEW procs \in [Proc -> ProcState], NEW s
  PROVE  /\ Moved(procs, s) \in [Proc -> ProcState]
         /\ \A q \in Proc : /\ Moved(procs, s)[q].pc = procs[q].pc
                            /\ Moved(procs, s)[q].next = procs[q].next
                            /\ Moved(procs, s)[q].update = procs[q].update
<1>1. ASSUME NEW q \in Proc, NEW place \in Place
      PROVE  LET t == [procs[q] EXCEPT !.place = place] IN
             /\ t \in ProcState /\ t.pc = procs[q].pc
             /\ t.next = procs[q].next /\ t.update = procs[q].update
  <2>1. procs[q] \in ProcState
    OBVIOUS
  <2>. QED  BY <2>1 DEF ProcState
<1>2. ASSUME NEW q \in Proc
      PROVE  \E place \in Place :
               Moved(procs, s)[q] \in {procs[q], [procs[q] EXCEPT !.place = place]}
  BY Members DEF Moved
<1>3. Moved(procs, s) = [q \in Proc |-> Moved(procs, s)[q]]
  BY DEF Moved
<1>4. ASSUME NEW q \in Proc
      PROVE  LET t == Moved(procs, s)[q] IN
             /\ t \in ProcState /\ t.pc = procs[q].pc
             /\ t.next = procs[q].next /\ t.update = procs[q].update
  <2>1. PICK place \in Place :
          Moved(procs, s)[q] \in {procs[q], [procs[q] EXCEPT !.place = place]}
    BY <1>2
  <2>. QED  BY <1>1, <2>1
<1>. QED  BY <1>3, <1>4

-----------------------------------------------------------------------------
(***************************************************************************)
(* Type correctness.                                                       *)
(***************************************************************************)
\* The types rest on two more facts: a caller that is about to use a backup
\* has the number of one, and a caller that writes has something to write.
CallerOK(s) ==
  /\ s.pc \in {"restoreBak", "rotate"} => s.next \in Backup
  /\ s.pc \in WritePC => s.update \in Update

Indexed == \A p \in Proc : CallerOK(proc[p])

TypeInv == TypeOK /\ Indexed

LEMMA InitType == Init => TypeInv
<1>. SUFFICES ASSUME Init
              PROVE  TypeInv
  OBVIOUS
<1>1. TypeOK
  <2>1. {} \in Data /\ {} \in Content
    BY Contents DEF Data
  <2>2. proc \in [Proc -> ProcState]
    BY IdleType DEF Init
  <2>3. temp \in [Stamp -> Content] /\ bak \in [Backup -> Content]
    BY Contents DEF Init
  <2>4. clock \in 0 .. MaxStamp
    BY StampAssumption DEF Init
  <2>. QED  BY <2>1, <2>2, <2>3, <2>4 DEF Init, TypeOK
<1>2. Indexed
  BY Members DEF Init, Indexed, CallerOK, Idle
<1>. QED  BY <1>1, <1>2 DEF TypeInv

\* The fields of a caller.
LEMMA Fields ==
  ASSUME TypeOK, NEW p \in Proc
  PROVE  /\ proc[p] \in ProcState
         /\ proc[p].update \in Update \cup {NoUpdate}
         /\ proc[p].data \in Data /\ proc[p].stamp \in Stamp
         /\ proc[p].todo \in SUBSET Stamp
         /\ proc[p].next \in 0 .. MaxBackups + 1
<1>1. proc[p] \in ProcState
  BY DEF TypeOK
<1>. QED  BY <1>1 DEF ProcState

\* Got leaves the other callers alone.
LEMMA GotIndexed ==
  ASSUME TypeOK, NEW p \in Proc, NEW d, NEW procs \in [Proc -> ProcState],
         Got(procs, p, d)
  PROVE  /\ \A q \in Proc \ {p} : proc'[q] = procs[q]
         /\ CallerOK(proc'[p])
<1>1. CASE proc' = [procs EXCEPT ![p] = Idle]
  BY <1>1, Members DEF Idle, CallerOK
<1>2. ASSUME NEW s \in Stamp, proc[p].update # NoUpdate,
             proc' = Enters(procs, p, d, s)
      PROVE  /\ \A q \in Proc \ {p} : proc'[q] = procs[q]
             /\ CallerOK(proc'[p])
  <2>1. proc[p].update \in Update
    BY <1>2, Fields
  <2>2. MaxBackups # 0 => MaxBackups \in Backup
    BY BackupsAssumption DEF Backup
  <2>. QED  BY <1>2, <2>1, <2>2 DEF Idle, CallerOK, Enters
<1>. QED  BY <1>1, <1>2 DEF Got

\* The read changes the file only when it restores it.
LEMMA ReadTypes ==
  ASSUME TypeOK, Indexed, NEW p \in Proc, ReadMain(p) \/ Recovery(p)
  PROVE  TypeOK'
<1>. USE Fields, Members, Numbers
<1>0. proc \in [Proc -> ProcState]
  BY DEF TypeOK
<1>1. CASE ReadMain(p)
  <2>. DEFINE t == [proc[p] EXCEPT !.pc = "scan"]
  <2>1. t \in ProcState
    BY DEF ProcState
  <2>2. CASE Whole(main) /\ Got(proc, p, main)
    <3>1. main \in Data
      BY <2>2, Contents DEF TypeOK
    <3>2. proc' \in [Proc -> ProcState] /\ clock' \in 0 .. MaxStamp
      BY <1>0, <2>2, <3>1, GotType
    <3>. QED  BY <1>1, <3>2 DEF ReadMain, TypeOK
  <2>3. CASE Goto(p, "scan") /\ UNCHANGED clock
    <3>1. proc' = [proc EXCEPT ![p] = t]
      BY <1>0, <2>3 DEF Goto, ProcState
    <3>2. proc' \in [Proc -> ProcState]
      BY <1>0, <2>1, <3>1, ProcStep
    <3>. QED  BY <1>1, <2>3, <3>2 DEF ReadMain, TypeOK
  <2>. QED  BY <1>1, <2>2, <2>3 DEF ReadMain
<1>2. CASE ReadDir(p)
  <2>. DEFINE S == {s \in Stamp : temp[s] # None}
              t == [proc[p] EXCEPT !.pc = "temp", !.todo = S]
  <2>0. S \in SUBSET Stamp /\ proc' = [proc EXCEPT ![p].pc = "temp", ![p].todo = S]
    BY <1>2 DEF ReadDir
  <2>. HIDE DEF S
  <2>1. t \in ProcState
    BY <2>0 DEF ProcState
  <2>2. proc' = [proc EXCEPT ![p] = t]
    BY <1>0, <2>0 DEF ProcState
  <2>3. proc' \in [Proc -> ProcState]
    BY <1>0, <2>1, <2>2, ProcStep
  <2>. QED  BY <1>2, <2>3 DEF ReadDir, TypeOK
<1>3. CASE ReadTemp(p)
  <2>. DEFINE s == Newest(proc[p].todo)
              t == [proc[p] EXCEPT !.pc = "restoreTemp", !.data = temp[s], !.stamp = s,
                                   !.todo = {}]
              u == [proc[p] EXCEPT !.todo = proc[p].todo \ {s}]
  <2>1. s \in Stamp
    BY <1>3, NewestMember DEF ReadTemp
  <2>2. temp[s] \in Content
    BY <2>1 DEF TypeOK
  <2>. HIDE DEF s
  <2>3. u \in ProcState
    BY DEF ProcState
  <2>4. Whole(temp[s]) => t \in ProcState
    BY <2>1, <2>2, Contents DEF ProcState
  <2>5. \/ Whole(temp[s]) /\ proc' = [proc EXCEPT ![p] = t]
        \/ proc' = [proc EXCEPT ![p] = u]
    BY <1>0, <1>3 DEF ReadTemp, ProcState, s
  <2>6. proc' \in [Proc -> ProcState]
    BY <1>0, <2>3, <2>4, <2>5, ProcStep
  <2>. QED  BY <1>3, <2>6 DEF ReadTemp, TypeOK
<1>4. CASE NoTemps(p)
  <2>. DEFINE t == [proc[p] EXCEPT !.pc = "bak", !.next = 1]
  <2>1. t \in ProcState
    BY DEF ProcState
  <2>2. proc' = [proc EXCEPT ![p] = t]
    BY <1>0, <1>4 DEF NoTemps, ProcState
  <2>3. proc' \in [Proc -> ProcState]
    BY <1>0, <2>1, <2>2, ProcStep
  <2>. QED  BY <1>4, <2>3 DEF NoTemps, TypeOK
<1>5. CASE RestoreTemp(p)
  <2>1. proc' \in [Proc -> ProcState] /\ clock' \in 0 .. MaxStamp
    BY <1>0, <1>5, GotType, MovedType DEF RestoreTemp
  <2>2. temp[proc[p].stamp] \in Content
    BY DEF TypeOK
  <2>3. main' \in Content /\ temp' \in [Stamp -> Content]
    BY <1>5, <2>2, Contents DEF RestoreTemp, TypeOK
  <2>. QED  BY <1>5, <2>1, <2>3, FallsBackType DEF RestoreTemp, TypeOK
<1>6. CASE ReadBackup(p)
  <2>. DEFINE i == proc[p].next
              t == [proc[p] EXCEPT !.pc = "restoreBak", !.data = bak[i]]
              u == [proc[p] EXCEPT !.next = i + 1]
  <2>1. bak[i] \in Content
    BY <1>6 DEF ReadBackup, TypeOK
  <2>2. i + 1 \in 0 .. MaxBackups + 1
    BY <1>6, BackupsAssumption DEF ReadBackup, Backup
  <2>3. Whole(bak[i]) => t \in ProcState
    BY <2>1, Contents DEF ProcState
  <2>4. u \in ProcState
    BY <2>2 DEF ProcState
  <2>5. \/ Whole(bak[i]) /\ proc' = [proc EXCEPT ![p] = t]
        \/ proc' = [proc EXCEPT ![p] = u]
    BY <1>0, <1>6 DEF ReadBackup, ProcState
  <2>6. proc' \in [Proc -> ProcState]
    BY <1>0, <2>3, <2>4, <2>5, ProcStep
  <2>. QED  BY <1>6, <2>6 DEF ReadBackup, TypeOK
<1>7. CASE RestoreBackup(p)
  <2>1. proc' \in [Proc -> ProcState] /\ clock' \in 0 .. MaxStamp
    BY <1>0, <1>7, GotType DEF RestoreBackup
  <2>2. bak[proc[p].next] \in Content
    BY <1>7 DEF RestoreBackup, Indexed, CallerOK, At, TypeOK
  <2>3. main' \in Content
    BY <1>7, <2>2, Contents DEF RestoreBackup, TypeOK
  <2>. QED  BY <1>7, <2>1, <2>3, FallsBackType DEF RestoreBackup, TypeOK
<1>8. CASE NothingToRead(p)
  BY <1>0, <1>8, IdleType, ProcStep DEF NothingToRead, TypeOK
<1>. QED  BY <1>1, <1>2, <1>3, <1>4, <1>5, <1>6, <1>7, <1>8 DEF Recovery

\* What the write does to the types.
LEMMA WriteTypes ==
  ASSUME TypeOK, Indexed, NEW p \in Proc, AtomicWrite(p)
  PROVE  TypeOK'
<1>. USE Fields, Members, Numbers
<1>0. proc \in [Proc -> ProcState]
  BY DEF TypeOK
<1>1. CASE Rotate(p)
  <2>. DEFINE i == proc[p].next
              t(pc) == [proc[p] EXCEPT !.next = i - 1, !.pc = pc]
  <2>1. i \in Backup
    BY <1>1 DEF Rotate, At, Indexed, CallerOK
  <2>2. i - 1 \in 0 .. MaxBackups + 1
    BY <2>1, BackupsAssumption DEF Backup
  <2>3. t("copy") \in ProcState /\ t("rotate") \in ProcState
    BY <2>2 DEF ProcState
  <2>4. proc' = IF i = 1 THEN [proc EXCEPT ![p] = t("copy")]
                         ELSE [proc EXCEPT ![p] = t("rotate")]
    BY <1>0, <1>1 DEF Rotate, ProcState
  <2>5. proc' \in [Proc -> ProcState]
    BY <1>0, <2>3, <2>4, ProcStep
  <2>6. bak[i] \in Content
    BY <2>1 DEF TypeOK
  <2>7. bak' \in [Backup -> Content]
    BY <1>1, <2>6, Contents DEF Rotate, TypeOK
  <2>. QED  BY <1>1, <2>5, <2>7 DEF Rotate, TypeOK
<1>2. CASE CopyBackup(p)
  <2>. DEFINE t == [proc[p] EXCEPT !.pc = "open"]
  <2>1. t \in ProcState
    BY DEF ProcState
  <2>2. proc' = [proc EXCEPT ![p] = t]
    BY <1>0, <1>2 DEF CopyBackup, Goto, ProcState
  <2>3. proc' \in [Proc -> ProcState]
    BY <1>0, <2>1, <2>2, ProcStep
  <2>4. bak' \in [Backup -> Content]
    BY <1>2, Contents DEF CopyBackup, TypeOK
  <2>. QED  BY <1>2, <2>3, <2>4 DEF CopyBackup, TypeOK
<1>3. CASE Open(p)
  <2>. DEFINE t == [proc[p] EXCEPT !.pc = "write", !.place = "temp"]
  <2>1. t \in ProcState
    BY DEF ProcState
  <2>2. proc' = [proc EXCEPT ![p] = t]
    BY <1>0, <1>3 DEF Open, ProcState
  <2>3. proc' \in [Proc -> ProcState]
    BY <1>0, <2>1, <2>2, ProcStep
  <2>4. temp' \in [Stamp -> Content]
    BY <1>3, Contents DEF Open, TypeOK
  <2>. QED  BY <1>3, <2>3, <2>4 DEF Open, TypeOK
<1>4. CASE Write(p)
  <2>. DEFINE t == [proc[p] EXCEPT !.pc = "rename", !.place = "gone"]
  <2>1. t \in ProcState
    BY DEF ProcState
  <2>2. proc' = [proc EXCEPT ![p] = t]
    BY <1>0, <1>4 DEF Write, ProcState
  <2>3. proc' \in [Proc -> ProcState]
    BY <1>0, <2>1, <2>2, ProcStep
  <2>4. \A c : Written(c, proc[p].data) \subseteq Content
    BY Contents DEF Written
  <2>5. main' \in Content /\ temp' \in [Stamp -> Content]
    BY <1>4, <2>4 DEF Write, TypeOK
  <2>. QED  BY <1>4, <2>3, <2>5 DEF Write, TypeOK
<1>5. CASE Rename(p)
  <2>1. proc' \in [Proc -> ProcState]
    BY <1>0, <1>5, MovedType, IdleType, ProcStep DEF Rename
  <2>2. temp[proc[p].stamp] \in Content
    BY DEF TypeOK
  <2>3. main' \in Content /\ temp' \in [Stamp -> Content]
    BY <1>5, <2>2, Contents DEF Rename, TypeOK
  <2>4. done' \in Data
    BY <1>5 DEF Rename, At, Indexed, CallerOK, TypeOK, Data
  <2>. QED  BY <1>5, <2>1, <2>3, <2>4 DEF Rename, TypeOK
<1>6. CASE WriteFails(p)
  <2>1. ASSUME NEW q \in Proc
        PROVE  [proc[q] EXCEPT !.place = "gone"] \in ProcState
    BY DEF ProcState
  <2>2. proc' \in [Proc -> ProcState]
    BY <1>0, <1>6, <2>1, IdleType, ProcStep DEF WriteFails
  <2>3. temp' \in [Stamp -> Content]
    BY <1>6, Contents DEF WriteFails, TypeOK
  <2>. QED  BY <1>6, <2>2, <2>3 DEF WriteFails, TypeOK
<1>7. CASE NoRotation(p)
  <2>. DEFINE t == [proc[p] EXCEPT !.pc = "open"]
  <2>1. t \in ProcState
    BY DEF ProcState
  <2>2. proc' = [proc EXCEPT ![p] = t]
    BY <1>0, <1>7 DEF NoRotation, Goto, ProcState
  <2>3. proc' \in [Proc -> ProcState]
    BY <1>0, <2>1, <2>2, ProcStep
  <2>. QED  BY <1>7, <2>3 DEF NoRotation, TypeOK
<1>. QED  BY <1>1, <1>2, <1>3, <1>4, <1>5, <1>6, <1>7 DEF AtomicWrite

\* A caller never comes to use a backup that is not there, nor to write nothing.
LEMMA IndexedStep ==
  ASSUME TypeInv, NEW p \in Proc, ReadMain(p) \/ Recovery(p) \/ AtomicWrite(p)
  PROVE  Indexed'
<1>. USE Members
<1>0. proc \in [Proc -> ProcState] /\ Indexed /\ TypeOK /\ proc[p] \in ProcState
  BY Fields DEF TypeInv, TypeOK
<1>1. \A q \in Proc : CallerOK(proc[q])
  BY <1>0 DEF Indexed
<1>2. CASE \E d : Got(proc, p, d)
  BY <1>0, <1>1, <1>2, GotIndexed DEF Indexed
<1>3. CASE RestoreTemp(p)
  <2>. DEFINE s == proc[p].stamp
              moved == Moved(proc, s)
  <2>1. moved \in [Proc -> ProcState] /\ \A q \in Proc : CallerOK(moved[q])
    BY <1>0, <1>1, MovedType DEF CallerOK
  <2>2. Got(moved, p, proc[p].data) \/ Got(proc, p, proc[p].data)
    BY <1>3 DEF RestoreTemp
  <2>. HIDE DEF moved
  <2>. QED  BY <1>0, <1>1, <2>1, <2>2, GotIndexed DEF Indexed
<1>4. CASE (ReadMain(p) /\ ~\E d : Got(proc, p, d)) \/ ReadDir(p) \/ ReadTemp(p) \/ NoTemps(p)
           \/ NoRotation(p) \/ CopyBackup(p) \/ Open(p) \/ Write(p)
  <2>1. \A q \in Proc \ {p} : proc'[q] = proc[q]
    BY <1>0, <1>4 DEF ReadMain, ReadDir, ReadTemp, NoTemps, NoRotation, CopyBackup,
       Open, Write, Goto
  <2>2. CallerOK(proc'[p])
    <3>1. proc[p].pc \in WritePC => proc[p].update \in Update
      BY <1>1 DEF CallerOK
    <3>2. /\ proc'[p].pc \notin {"restoreBak", "rotate"}
          /\ proc'[p].pc \in WritePC => proc[p].pc \in WritePC
          /\ proc'[p].update = proc[p].update
      BY <1>0, <1>4 DEF ProcState, ReadMain, ReadDir, ReadTemp, NoTemps,
         NoRotation, CopyBackup, Open, Write, Goto, At
    <3>. QED  BY <3>1, <3>2 DEF CallerOK
  <2>. QED  BY <1>1, <2>1, <2>2 DEF Indexed
<1>5. CASE ReadBackup(p)
  <2>1. \A q \in Proc \ {p} : proc'[q] = proc[q]
    BY <1>0, <1>5 DEF ReadBackup
  <2>2. CallerOK(proc'[p])
    <3>1. \/ proc'[p].pc = "bak"
          \/ proc'[p].pc = "restoreBak" /\ proc'[p].next \in Backup
      BY <1>0, <1>5 DEF ReadBackup, At, ProcState
    <3>. QED  BY <3>1 DEF CallerOK
  <2>. QED  BY <1>1, <2>1, <2>2 DEF Indexed
<1>6. CASE Rotate(p)
  <2>1. \A q \in Proc \ {p} : proc'[q] = proc[q]
    BY <1>0, <1>6 DEF Rotate
  <2>2. proc[p].next \in Backup /\ proc[p].update \in Update
    BY <1>1, <1>6 DEF Rotate, At, CallerOK
  <2>3. /\ proc'[p].next = proc[p].next - 1 /\ proc'[p].update = proc[p].update
        /\ proc'[p].pc = IF proc[p].next = 1 THEN "copy" ELSE "rotate"
    BY <1>0, <1>6 DEF Rotate, ProcState
  <2>4. proc[p].next # 1 => proc[p].next - 1 \in Backup
    BY <2>2, BackupsAssumption DEF Backup
  <2>5. CallerOK(proc'[p])
    BY <2>2, <2>3, <2>4 DEF CallerOK
  <2>. QED  BY <1>1, <2>1, <2>5 DEF Indexed
<1>7. CASE NothingToRead(p)
  <2>1. \A q \in Proc : proc'[q] \in {proc[q], Idle}
    BY <1>0, <1>7 DEF NothingToRead
  <2>. QED  BY <1>1, <2>1 DEF Indexed, CallerOK, Idle
<1>8. CASE Rename(p)
  <2>1. \A q \in Proc : proc'[q] \in {proc[q], Idle, Moved(proc, proc[p].stamp)[q]}
    BY <1>0, <1>8, MovedType DEF Rename
  <2>2. \A q \in Proc : CallerOK(Moved(proc, proc[p].stamp)[q])
    BY <1>0, <1>1, MovedType DEF CallerOK
  <2>3. CallerOK(Idle)
    BY DEF CallerOK, Idle
  <2>. QED  BY <1>1, <2>1, <2>2, <2>3 DEF Indexed
<1>9. CASE WriteFails(p)
  <2>1. ASSUME NEW q \in Proc
        PROVE  CallerOK([proc[q] EXCEPT !.place = "gone"])
    <3>1. proc[q] \in ProcState
      BY <1>0
    <3>. QED  BY <1>1, <3>1 DEF CallerOK, ProcState
  <2>2. CallerOK(Idle)
    BY DEF CallerOK, Idle
  <2>3. \A q \in Proc : proc'[q] \in {proc[q], Idle, [proc[q] EXCEPT !.place = "gone"]}
    BY <1>0, <1>9 DEF WriteFails
  <2>. QED  BY <1>1, <2>1, <2>2, <2>3 DEF Indexed
<1>. QED  BY <1>2, <1>3, <1>4, <1>5, <1>6, <1>7, <1>8, <1>9
          DEF Recovery, AtomicWrite, RestoreBackup

\* Every step keeps the types.
LEMMA NextType == TypeInv /\ [Next]_vars => TypeInv'
<1>. SUFFICES ASSUME TypeInv, [Next]_vars
              PROVE  TypeInv'
  OBVIOUS
<1>0. TypeOK /\ Indexed /\ proc \in [Proc -> ProcState]
  BY DEF TypeInv, TypeOK
<1>1. ASSUME NEW p \in Proc, NEW u \in Update \cup {NoUpdate}, Call(p, u)
      PROVE  TypeInv'
  <2>. DEFINE t == [Idle EXCEPT !.pc = "read", !.update = u]
  <2>1. t \in ProcState
    BY IdleType, Members DEF ProcState
  <2>2. proc' = [proc EXCEPT ![p] = t]
    BY <1>1 DEF Call
  <2>3. TypeOK'
    BY <1>0, <1>1, <2>1, <2>2, ProcStep DEF Call, TypeOK
  <2>4. CallerOK(t)
    BY Members DEF CallerOK, Idle
  <2>5. Indexed'
    BY <1>0, <2>2, <2>4 DEF Indexed
  <2>. QED  BY <2>3, <2>5 DEF TypeInv
<1>2. ASSUME NEW p \in Proc, ReadMain(p) \/ Recovery(p) \/ AtomicWrite(p)
      PROVE  TypeInv'
  BY <1>0, <1>2, ReadTypes, WriteTypes, IndexedStep DEF TypeInv
<1>3. CASE Crash
  <2>1. main' \in Content /\ bak' \in [Backup -> Content]
    BY <1>0, <1>3, Contents DEF Crash, TypeOK
  <2>2. CallerOK(Idle)
    BY Members DEF CallerOK, Idle
  <2>. QED  BY <1>0, <1>3, <2>1, <2>2, IdleType DEF Crash, TypeInv, TypeOK, Indexed
<1>4. CASE Corrupt
  <2>1. main' \in Content /\ done' \in Data
    BY <1>0, <1>4, Contents DEF Corrupt, TypeOK, Data
  <2>. QED  BY <1>0, <1>4, <2>1 DEF Corrupt, TypeInv, TypeOK, Indexed
<1>5. CASE UNCHANGED vars
  BY <1>0, <1>5 DEF vars, TypeInv, TypeOK, Indexed
<1>. QED  BY <1>1, <1>2, <1>3, <1>4, <1>5 DEF Next

\* The files, the callers and the acknowledged updates always have their
\* types, whatever goes wrong.
THEOREM TypeCorrect == Spec => []TypeOK
<1>1. TypeInv => TypeOK
  BY DEF TypeInv
<1>. QED  BY <1>1, InitType, NextType, PTL DEF Spec

-----------------------------------------------------------------------------
(***************************************************************************)
(* Until a recovery falls back on another document, the file is whole as   *)
(* long as no two writers share a temp file: because their stamps differ,  *)
(* or because there is only one.                                           *)
(***************************************************************************)
\* What a writer rests on, with s its state and f the temp file of its stamp:
\* the temp file it is writing is still its own, and what it renames is what it
\* wrote.
Steady(s, f) ==
  /\ s.pc = "write" => s.place = "temp" /\ f = Torn
  /\ s.pc = "rename" => f = s.data

Apart ==
  \A p, q \in Proc : Writing(p) /\ Writing(q) /\ p # q => proc[p].stamp # proc[q].stamp

InThePast == \A p \in Proc : Writing(p) => proc[p].stamp <= clock

Alone ==
  \A p, q \in Proc : proc[p].update # NoUpdate /\ proc[q].update # NoUpdate => p = q

FileInv ==
  /\ TypeInv
  /\ Whole(main)
  /\ \A p \in Proc : Steady(proc[p], temp[proc[p].stamp])
  /\ Apart
  /\ InThePast
  /\ Serial => Alone

LEMMA IdleSteady == \A f : Steady(Idle, f)
BY DEF Steady, Idle

LEMMA InitFile == Init => FileInv
<1>. SUFFICES ASSUME Init
              PROVE  FileInv
  OBVIOUS
<1>1. TypeInv /\ Whole(main)
  BY InitType, Contents DEF Init, Data
<1>2. \A p \in Proc : proc[p] = Idle
  BY DEF Init
<1>. QED  BY <1>1, <1>2, IdleSteady, Members
          DEF FileInv, Apart, InThePast, Alone, Writing, Idle

\* A step of one caller that touches no temp file but its own.
LEMMA OneCaller ==
  ASSUME FileInv, TypeInv', NEW p \in Proc,
         \A q \in Proc \ {p} : proc'[q] = proc[q],
         \A s \in Stamp : s # proc[p].stamp \/ ~Writing(p) => temp'[s] = temp[s],
         clock' >= clock,
         Whole(main'),
         Steady(proc'[p], temp'[proc'[p].stamp]),
         proc'[p].pc \in WritePC =>
           \/ Writing(p) /\ proc'[p].stamp = proc[p].stamp
           \/ /\ proc'[p].stamp <= clock'
              /\ \A q \in Proc \ {p} : Writing(q) => proc'[p].stamp # proc[q].stamp,
         Serial /\ proc'[p].update # NoUpdate =>
           \A q \in Proc \ {p} : proc[q].update = NoUpdate
  PROVE  FileInv'
<1>0. /\ clock \in Nat /\ clock' \in Nat
      /\ \A q \in Proc : proc[q].stamp \in Stamp /\ proc[q].stamp \in Nat
  BY Fields, Numbers, StampAssumption DEF FileInv, TypeInv, TypeOK, Stamp
<1>1. ASSUME NEW q \in Proc \ {p}
      PROVE  Steady(proc'[q], temp'[proc'[q].stamp])
  <2>1. Steady(proc[q], temp[proc[q].stamp])
    BY DEF FileInv
  <2>2. proc[q].pc \in {"write", "rename"} => temp'[proc[q].stamp] = temp[proc[q].stamp]
    BY <1>0, Members DEF FileInv, Apart, Writing
  <2>. QED  BY <2>1, <2>2 DEF Steady
<1>2. \A q \in Proc \ {p} : Writing(q)' => Writing(q)
  BY DEF Writing
<1>3. Apart'
  BY <1>2 DEF FileInv, Apart, Writing
<1>4. InThePast'
  BY <1>0, <1>2 DEF FileInv, InThePast, Writing
<1>5. Serial => Alone'
  BY DEF FileInv, Alone
<1>. QED  BY <1>1, <1>3, <1>4, <1>5 DEF FileInv

\* A caller that has read the file is done, or enters atomicWriteJson with a
\* stamp that no other writer has.
LEMMA ReadStep ==
  ASSUME Distinct \/ Serial, FileInv, TypeInv', NEW p \in Proc, ReadMain(p)
  PROVE  FileInv'
<1>0. /\ proc \in [Proc -> ProcState] /\ clock \in Nat
      /\ proc[p].update \in Update \cup {NoUpdate} /\ proc[p].pc = "read"
  BY Fields, StampAssumption DEF FileInv, TypeInv, TypeOK, ReadMain, At
<1>1. UNCHANGED <<main, temp, bak, done>>
  BY DEF ReadMain
<1>2. ~Writing(p)
  BY <1>0, Members DEF Writing
<1>3. CASE proc' = [proc EXCEPT ![p] = Idle] /\ UNCHANGED clock
  <2>1. proc'[p] = Idle /\ \A q \in Proc \ {p} : proc'[q] = proc[q]
    BY <1>0, <1>3
  <2>2. Idle.pc \notin WritePC /\ Idle.update = NoUpdate
    BY Members DEF Idle
  <2>. QED  BY <1>0, <1>1, <1>3, <2>1, <2>2, IdleSteady, OneCaller DEF FileInv
<1>4. ASSUME NEW s \in Stamp, proc[p].update # NoUpdate,
             NextStamp(s), clock' = s,
             proc' = Enters(proc, p, main, s)
      PROVE  FileInv'
  <2>1. /\ proc'[p].pc \in {"open", "rotate"} /\ proc'[p].stamp = s
        /\ proc'[p].update = proc[p].update
        /\ \A q \in Proc \ {p} : proc'[q] = proc[q]
    BY <1>0, <1>4 DEF Idle, Enters
  <2>2. Steady(proc'[p], temp'[proc'[p].stamp])
    BY <2>1, Members DEF Steady
  <2>3. s \in Nat /\ clock' >= clock
    BY <1>0, <1>4, StampAssumption DEF Stamp, NextStamp
  <2>4. Serial => \A q \in Proc \ {p} : proc[q].update = NoUpdate
    BY <1>4 DEF FileInv, Alone
  <2>5. ASSUME NEW q \in Proc \ {p}, Writing(q)
        PROVE  s # proc[q].stamp
    <3>1. CASE Distinct
      <4>1. proc[q].stamp <= clock /\ s = clock + 1 /\ proc[q].stamp \in Nat
        BY <1>4, <2>5, <3>1, Fields, StampAssumption
           DEF FileInv, InThePast, TypeInv, Stamp, NextStamp
      <4>. QED  BY <1>0, <2>3, <4>1
    <3>2. CASE Serial
      <4>1. proc[q].update \in Update
        BY <2>5 DEF FileInv, TypeInv, Indexed, CallerOK, Writing
      <4>. QED  BY <2>4, <3>2, <4>1, UpdateAssumption
    <3>. QED  BY <3>1, <3>2
  <2>6. s <= clock'
    BY <1>4, <2>3
  <2>. QED  BY <1>1, <1>2, <2>1, <2>2, <2>3, <2>4, <2>5, <2>6, OneCaller DEF FileInv
<1>5. CASE Goto(p, "scan") /\ UNCHANGED clock
  <2>1. /\ proc'[p].pc = "scan" /\ proc'[p].update = proc[p].update
        /\ \A q \in Proc \ {p} : proc'[q] = proc[q]
    BY <1>0, <1>5, Fields DEF Goto, FileInv, TypeInv, ProcState
  <2>2. Serial /\ proc[p].update # NoUpdate =>
          \A q \in Proc \ {p} : proc[q].update = NoUpdate
    BY DEF FileInv, Alone
  <2>3. Steady(proc'[p], temp'[proc'[p].stamp]) /\ proc'[p].pc \notin WritePC
    BY <2>1, Members DEF Steady
  <2>. QED  BY <1>0, <1>1, <1>5, <2>1, <2>2, <2>3, OneCaller DEF FileInv
<1>. QED  BY <1>3, <1>4, <1>5 DEF Got, ReadMain

\* A recovery falls back on another document, or it has changed nothing yet.
LEMMA RecoveryStep ==
  ASSUME FileInv, TypeInv', NEW p \in Proc, Recovery(p)
  PROVE  \/ recovered'
         \/ FileInv' /\ UNCHANGED <<main, done, history>> /\ ~Writing(p)'
            /\ \A q \in Proc \ {p} : proc'[q] = proc[q]
<1>0. /\ proc \in [Proc -> ProcState] /\ proc[p] \in ProcState /\ clock \in Nat
  BY Fields, StampAssumption DEF FileInv, TypeInv, TypeOK
<1>1. CASE RestoreTemp(p) \/ RestoreBackup(p)
  BY <1>1 DEF RestoreTemp, RestoreBackup, FallsBackOn
<1>2. CASE ReadDir(p) \/ ReadTemp(p) \/ NoTemps(p) \/ ReadBackup(p) \/ NothingToRead(p)
  <2>1. UNCHANGED <<main, temp, clock, done, history>>
    BY <1>2 DEF ReadDir, ReadTemp, NoTemps, ReadBackup, NothingToRead
  <2>2. /\ proc'[p].pc \in {"temp", "restoreTemp", "bak", "restoreBak", "idle"}
        /\ proc'[p].update \in {proc[p].update, NoUpdate}
        /\ \A q \in Proc \ {p} : proc'[q] = proc[q]
    <3>1. CASE ReadDir(p)
      BY <1>0, <3>1 DEF ReadDir, ProcState
    <3>2. CASE ReadTemp(p)
      BY <1>0, <3>2 DEF ReadTemp, ProcState, At
    <3>3. CASE NoTemps(p)
      BY <1>0, <3>3 DEF NoTemps, ProcState
    <3>4. CASE ReadBackup(p)
      BY <1>0, <3>4 DEF ReadBackup, ProcState, At
    <3>5. CASE NothingToRead(p)
      BY <1>0, <3>5 DEF NothingToRead, Idle
    <3>. QED  BY <1>2, <3>1, <3>2, <3>3, <3>4, <3>5
  <2>3. Serial /\ proc[p].update # NoUpdate =>
          \A q \in Proc \ {p} : proc[q].update = NoUpdate
    BY DEF FileInv, Alone
  <2>4. Steady(proc'[p], temp'[proc'[p].stamp]) /\ proc'[p].pc \notin WritePC
    BY <2>2, Members DEF Steady
  <2>5. FileInv'
    BY <1>0, <2>1, <2>2, <2>3, <2>4, OneCaller DEF FileInv
  <2>. QED  BY <2>1, <2>2, <2>4, <2>5 DEF Writing
<1>. QED  BY <1>1, <1>2 DEF Recovery

\* The steps of atomicWriteJson.
LEMMA WriteStep ==
  ASSUME FileInv, TypeInv', NEW p \in Proc, AtomicWrite(p)
  PROVE  FileInv'
<1>. DEFINE s == proc[p].stamp
<1>0. /\ proc \in [Proc -> ProcState] /\ proc[p] \in ProcState /\ s \in Stamp
      /\ temp \in [Stamp -> Content] /\ clock \in Nat
      /\ Whole(main) /\ Steady(proc[p], temp[s])
      /\ proc[p].data \in Data /\ Whole(proc[p].data)
  BY Fields, Contents, StampAssumption DEF FileInv, TypeInv, TypeOK
<1>1. Serial /\ proc[p].update # NoUpdate =>
        \A q \in Proc \ {p} : proc[q].update = NoUpdate
  BY DEF FileInv, Alone
<1>2. Writing(p)
  BY Members DEF AtomicWrite, NoRotation, Rotate, CopyBackup, Open, Write, Rename,
     WriteFails, At, Writing
<1>3. ASSUME NEW q \in Proc \ {p}, proc[q].pc = "write"
      PROVE  proc[q].place = "temp" /\ proc[q].stamp # s
  BY <1>2, <1>3, Members DEF FileInv, Steady, Apart, Writing
<1>4. ASSUME proc'[p] = Idle, \A q \in Proc \ {p} : proc'[q] = proc[q],
             \A t \in Stamp : t # s => temp'[t] = temp[t],
             Whole(main'), UNCHANGED clock
      PROVE  FileInv'
  <2>1. Idle.pc \notin WritePC /\ Idle.update = NoUpdate
    BY Members DEF Idle
  <2>. QED  BY <1>0, <1>2, <1>4, <2>1, IdleSteady, OneCaller
<1>5. ASSUME NEW pc \in WritePC, proc'[p].pc = pc, proc'[p].stamp = s,
             proc'[p].update = proc[p].update,
             \A q \in Proc \ {p} : proc'[q] = proc[q],
             \A t \in Stamp : t # s => temp'[t] = temp[t],
             Whole(main'), UNCHANGED clock, Steady(proc'[p], temp'[s])
      PROVE  FileInv'
  BY <1>0, <1>1, <1>2, <1>5, OneCaller
<1>6. CASE Rotate(p)
  <2>1. PICK pc \in {"copy", "rotate"} :
          /\ proc'[p].pc = pc /\ proc'[p].stamp = s
          /\ proc'[p].update = proc[p].update
    BY <1>0, <1>6 DEF Rotate, ProcState
  <2>2. \A q \in Proc \ {p} : proc'[q] = proc[q]
    BY <1>0, <1>6 DEF Rotate
  <2>3. Steady(proc'[p], temp'[s])
    BY <2>1, Members DEF Steady
  <2>. QED  BY <1>0, <1>5, <1>6, <2>1, <2>2, <2>3, Members DEF Rotate
<1>7. CASE NoRotation(p) \/ CopyBackup(p)
  <2>1. /\ proc'[p].pc = "open" /\ proc'[p].stamp = s
        /\ proc'[p].update = proc[p].update
        /\ \A q \in Proc \ {p} : proc'[q] = proc[q]
    BY <1>0, <1>7 DEF NoRotation, CopyBackup, Goto, ProcState
  <2>2. Steady(proc'[p], temp'[s])
    BY <2>1, Members DEF Steady
  <2>3. UNCHANGED <<main, temp, clock>>
    BY <1>7 DEF NoRotation, CopyBackup
  <2>. QED  BY <1>0, <1>5, <2>1, <2>2, <2>3, Members
<1>8. CASE Open(p)
  <2>1. /\ proc'[p].pc = "write" /\ proc'[p].stamp = s /\ proc'[p].place = "temp"
        /\ proc'[p].update = proc[p].update
        /\ \A q \in Proc \ {p} : proc'[q] = proc[q]
    BY <1>0, <1>8 DEF Open, ProcState
  <2>2. temp'[s] = Torn /\ \A t \in Stamp : t # s => temp'[t] = temp[t]
    BY <1>0, <1>8 DEF Open
  <2>3. Steady(proc'[p], temp'[s])
    BY <2>1, <2>2, Members DEF Steady
  <2>. QED  BY <1>0, <1>5, <1>8, <2>1, <2>2, <2>3, Members DEF Open
<1>9. CASE Write(p)
  <2>1. proc[p].place = "temp" /\ temp[s] = Torn
    BY <1>0, <1>9 DEF Write, At, Steady
  <2>2. /\ temp' = [temp EXCEPT ![s] = proc[p].data]
        /\ UNCHANGED <<main, clock>>
    BY <1>9, <2>1 DEF Write, Written
  <2>3. /\ proc'[p].pc = "rename" /\ proc'[p].stamp = s
        /\ proc'[p].update = proc[p].update /\ proc'[p].data = proc[p].data
        /\ \A q \in Proc \ {p} : proc'[q] = proc[q]
    BY <1>0, <1>9 DEF Write, ProcState
  <2>4. Steady(proc'[p], temp'[s])
    BY <1>0, <2>2, <2>3, Members DEF Steady
  <2>. QED  BY <1>0, <1>5, <2>2, <2>3, <2>4, Members
<1>10. CASE Rename(p)
  <2>1. temp[s] = proc[p].data
    BY <1>0, <1>10 DEF Rename, At, Steady
  <2>2. temp[s] # None
    BY <1>0, <2>1 DEF Whole
  <2>3. /\ main' = temp[s] /\ temp' = [temp EXCEPT ![s] = None] /\ UNCHANGED clock
        /\ proc' = [Moved(proc, s) EXCEPT ![p] = Idle]
    BY <1>10, <2>2 DEF Rename
  <2>4. \A q \in Proc \ {p} : Moved(proc, s)[q] = proc[q]
    BY <1>3 DEF Moved
  <2>5. proc'[p] = Idle /\ \A q \in Proc \ {p} : proc'[q] = proc[q]
    BY <1>0, <2>3, <2>4, MovedType
  <2>. QED  BY <1>0, <1>4, <2>1, <2>3, <2>5
<1>11. CASE WriteFails(p)
  <2>1. proc'[p] = Idle /\ \A q \in Proc \ {p} : proc'[q] = proc[q]
    BY <1>0, <1>3, <1>11 DEF WriteFails
  <2>2. \A t \in Stamp : t # s => temp'[t] = temp[t]
    BY <1>0, <1>11 DEF WriteFails
  <2>. QED  BY <1>0, <1>4, <1>11, <2>1, <2>2 DEF WriteFails
<1>. QED  BY <1>6, <1>7, <1>8, <1>9, <1>10, <1>11 DEF AtomicWrite

LEMMA NextFile ==
  ASSUME Distinct \/ Serial, "corrupt" \notin Faults
  PROVE  FileInv /\ [Next]_vars => FileInv' \/ recovered'
<1>. SUFFICES ASSUME FileInv, [Next]_vars
              PROVE  FileInv' \/ recovered'
  OBVIOUS
<1>0. TypeInv' /\ proc \in [Proc -> ProcState] /\ clock \in Nat
  BY NextType, StampAssumption DEF FileInv, TypeInv, TypeOK
<1>1. ASSUME NEW p \in Proc, NEW u \in Update \cup {NoUpdate}, Call(p, u)
      PROVE  FileInv'
  <2>1. /\ proc'[p].pc = "read" /\ proc'[p].update = u
        /\ \A q \in Proc \ {p} : proc'[q] = proc[q]
    BY <1>0, <1>1 DEF Call, Idle
  <2>2. Steady(proc'[p], temp'[proc'[p].stamp])
    BY <2>1, Members DEF Steady
  <2>3. Serial /\ u # NoUpdate => \A q \in Proc : proc[q].update = NoUpdate
    BY <1>1 DEF Call
  <2>4. UNCHANGED <<main, temp, clock>>
    BY <1>1 DEF Call
  <2>. QED  BY <1>0, <2>1, <2>2, <2>3, <2>4, Members, OneCaller DEF FileInv
<1>2. ASSUME NEW p \in Proc, ReadMain(p)
      PROVE  FileInv'
  BY <1>0, <1>2, ReadStep
<1>3. ASSUME NEW p \in Proc, Recovery(p)
      PROVE  FileInv' \/ recovered'
  BY <1>0, <1>3, RecoveryStep
<1>4. ASSUME NEW p \in Proc, AtomicWrite(p)
      PROVE  FileInv'
  BY <1>0, <1>4, WriteStep
<1>5. CASE Crash
  <2>1. UNCHANGED main \/ recovered'
    BY <1>5 DEF Crash
  <2>2. \A p \in Proc : proc'[p] = Idle
    BY <1>5 DEF Crash
  <2>3. ~\E p \in Proc : Writing(p)'
    BY <2>2, Members DEF Writing, Idle
  <2>4. Apart' /\ InThePast'
    BY <2>3 DEF Apart, InThePast
  <2>5. Alone'
    BY <2>2 DEF Alone, Idle
  <2>6. \A p \in Proc : Steady(proc'[p], temp'[proc'[p].stamp])
    BY <2>2, IdleSteady
  <2>. QED  BY <1>0, <2>1, <2>4, <2>5, <2>6 DEF FileInv
<1>6. CASE Corrupt
  BY <1>6 DEF Corrupt, MayFail
<1>7. CASE UNCHANGED vars
  BY <1>0, <1>7 DEF vars, FileInv, Apart, InThePast, Alone, Writing
<1>. QED  BY <1>1, <1>2, <1>3, <1>4, <1>5, <1>6, <1>7 DEF Next

\* What a recovery has done stays on record.
LEMMA RecoveredStays == recovered /\ [Next]_vars => recovered'
<1>. SUFFICES ASSUME recovered, [Next]_vars
              PROVE  recovered'
  OBVIOUS
<1>1. ASSUME NEW p \in Proc, AtomicWrite(p)
      PROVE  recovered'
  BY <1>1 DEF AtomicWrite, NoRotation, Rotate, CopyBackup, Open, Write, Rename, WriteFails
<1>2. ASSUME NEW p \in Proc, ReadMain(p) \/ Recovery(p)
      PROVE  recovered'
  BY <1>2 DEF ReadMain, Recovery, ReadDir, ReadTemp, NoTemps, RestoreTemp, ReadBackup,
     RestoreBackup, NothingToRead, FallsBackOn
<1>3. ASSUME NEW p \in Proc, NEW u \in Update \cup {NoUpdate}, Call(p, u)
      PROVE  recovered'
  BY <1>3 DEF Call
<1>4. CASE Crash \/ Corrupt \/ UNCHANGED vars
  BY <1>4 DEF Crash, Corrupt, vars
<1>. QED  BY <1>1, <1>2, <1>3, <1>4 DEF Next

\* Unless outsiders damage it, the file is a whole document at any time, also
\* after crashes, failed writes and reads that fail, if writes have stamps of their
\* own or callers wait for each other: until a recovery falls back on another
\* document.
THEOREM WritesAreAtomic ==
  ASSUME Distinct \/ Serial, "corrupt" \notin Faults
  PROVE  Spec => []MainComplete
<1>. DEFINE Inv == FileInv \/ recovered
<1>1. Inv => MainComplete
  BY DEF FileInv, MainComplete
<1>2. Init => Inv
  BY InitFile
<1>3. Inv /\ [Next]_vars => Inv'
  BY NextFile, RecoveredStays
<1>. QED  BY <1>1, <1>2, <1>3, PTL DEF Spec

-----------------------------------------------------------------------------
(***************************************************************************)
(* With one update at a time the file is the shared record until a         *)
(* recovery falls back on another document: the data that a writer holds   *)
(* is still the file with its update, so that the rename applies that      *)
(* update and loses none.                                                  *)
(***************************************************************************)
RecordInv ==
  /\ FileInv
  /\ done \subseteq main
  /\ \A p \in Proc : Writing(p) => proc[p].data = main \cup {proc[p].update}

\* A step after which each writer either was one before, with the same data, or
\* has just read the file.
LEMMA RecordKept ==
  ASSUME RecordInv, FileInv', UNCHANGED <<main, done>>,
         \A p \in Proc : Writing(p)' =>
           \/ /\ Writing(p) /\ proc'[p].data = proc[p].data
              /\ proc'[p].update = proc[p].update
           \/ proc'[p].data = main \cup {proc'[p].update}
  PROVE  RecordInv'
BY DEF RecordInv

\* The steps of the write before the rename.
LEMMA WriteKeepsData ==
  ASSUME FileInv, NEW p \in Proc,
         NoRotation(p) \/ Rotate(p) \/ CopyBackup(p) \/ Open(p) \/ Write(p)
           \/ WriteFails(p)
  PROVE  /\ UNCHANGED <<main, done, history>>
         /\ \A q \in Proc : Writing(q)' =>
              /\ Writing(q) /\ proc'[q].data = proc[q].data
              /\ proc'[q].update = proc[q].update
<1>. DEFINE Kept(q) == /\ proc'[q].data = proc[q].data
                       /\ proc'[q].update = proc[q].update
<1>0. /\ proc \in [Proc -> ProcState] /\ proc[p] \in ProcState
      /\ Steady(proc[p], temp[proc[p].stamp])
  BY Fields DEF FileInv, TypeInv, TypeOK
<1>1. Writing(p)
  BY Members DEF NoRotation, Rotate, CopyBackup, Open, Write, WriteFails, At, Writing
<1>2. UNCHANGED <<main, done, history>>
  BY <1>0 DEF NoRotation, Rotate, CopyBackup, Open, Write, WriteFails, At, Steady
<1>3. CASE NoRotation(p) \/ Rotate(p) \/ CopyBackup(p) \/ Open(p) \/ Write(p)
  <2>1. Kept(p) /\ \A q \in Proc \ {p} : proc'[q] = proc[q]
    BY <1>0, <1>3 DEF NoRotation, Rotate, CopyBackup, Open, Write, Goto, ProcState
  <2>. QED  BY <1>1, <1>2, <2>1 DEF Writing
<1>4. CASE WriteFails(p)
  <2>1. ASSUME NEW q \in Proc, Writing(q)'
        PROVE  Writing(q) /\ Kept(q)
    <3>1. proc[q] \in ProcState
      BY <1>0
    <3>2. q # p
      BY <1>0, <1>4, <2>1, Members DEF WriteFails, Writing, Idle
    <3>3. proc'[q] \in {proc[q], [proc[q] EXCEPT !.place = "gone"]}
      BY <1>0, <1>4, <3>2 DEF WriteFails
    <3>. QED  BY <2>1, <3>1, <3>3 DEF Writing, ProcState
  <2>. QED  BY <1>2, <2>1
<1>. QED  BY <1>3, <1>4

\* The rename applies the update of the caller: it is the only one.
LEMMA RenameApplies ==
  ASSUME Serial, RecordInv, NEW p \in Proc, Rename(p)
  PROVE  /\ main' = main \cup {proc[p].update}
         /\ done' = done \cup {proc[p].update}
         /\ proc[p].update \in Update
         /\ \A q \in Proc : ~Writing(q)'
<1>0. /\ proc \in [Proc -> ProcState] /\ proc[p].data \in Data
      /\ Steady(proc[p], temp[proc[p].stamp])
  BY Fields DEF RecordInv, FileInv, TypeInv, TypeOK
<1>1. Writing(p)
  BY Members DEF Rename, At, Writing
<1>2. temp[proc[p].stamp] = main \cup {proc[p].update}
  BY <1>0, <1>1 DEF RecordInv, Rename, At, Steady
<1>3. temp[proc[p].stamp] # None
  BY <1>0, Contents DEF Rename, At, Steady
<1>4. proc[p].update \in Update
  BY <1>1 DEF RecordInv, FileInv, TypeInv, Indexed, CallerOK, Writing
<1>5. ASSUME NEW q \in Proc
      PROVE  ~Writing(q)'
  <2>1. proc' = [Moved(proc, proc[p].stamp) EXCEPT ![p] = Idle]
    BY <1>3 DEF Rename
  <2>2. CASE q = p
    BY <1>0, <2>1, <2>2, MovedType, Members DEF Writing, Idle
  <2>3. CASE q # p
    <3>1. proc[q].update = NoUpdate
      BY <1>4, <2>3, UpdateAssumption DEF RecordInv, FileInv, Alone
    <3>2. proc[q].pc \notin WritePC
      BY <3>1, UpdateAssumption DEF RecordInv, FileInv, TypeInv, Indexed, CallerOK
    <3>3. proc'[q] = Moved(proc, proc[p].stamp)[q]
      BY <1>0, <2>1, <2>3, MovedType
    <3>. QED  BY <1>0, <3>2, <3>3, MovedType DEF Writing
  <2>. QED  BY <2>2, <2>3
<1>. QED  BY <1>2, <1>3, <1>4, <1>5 DEF Rename

LEMMA InitRecord == Init => RecordInv
BY InitFile, Members DEF Init, RecordInv, Writing, Idle

\* A caller that writes after its read has added its update to what it read.
LEMMA GotData ==
  ASSUME proc \in [Proc -> ProcState], NEW p \in Proc, NEW d, Got(proc, p, d),
         NEW q \in Proc, Writing(q)'
  PROVE  \/ proc'[q] = proc[q] /\ Writing(q)
         \/ proc'[q].data = d \cup {proc'[q].update}
<1>1. CASE proc' = [proc EXCEPT ![p] = Idle]
  <2>1. q # p
    BY <1>1, Members DEF Writing, Idle
  <2>. QED  BY <1>1, <2>1 DEF Writing
<1>2. ASSUME NEW s \in Stamp,
             proc' = Enters(proc, p, d, s)
      PROVE  \/ proc'[q] = proc[q] /\ Writing(q)
             \/ proc'[q].data = d \cup {proc'[q].update}
  <2>1. CASE q = p
    BY <1>2, <2>1 DEF Idle, Enters
  <2>2. CASE q # p
    <3>1. proc'[q] = proc[q]
      BY <1>2, <2>2 DEF Enters
    <3>. QED  BY <3>1 DEF Writing
  <2>. QED  BY <2>1, <2>2
<1>. QED  BY <1>1, <1>2 DEF Got

LEMMA NextRecord ==
  ASSUME Serial, "corrupt" \notin Faults
  PROVE  RecordInv /\ [Next]_vars =>
           \/ recovered'
           \/ /\ RecordInv' /\ UNCHANGED recovered
              /\ \/ UNCHANGED main
                 \/ \E u \in Update : main' = main \cup {u}
<1>. SUFFICES ASSUME RecordInv, [Next]_vars, ~recovered'
              PROVE  /\ RecordInv'
                     /\ UNCHANGED main \/ \E u \in Update : main' = main \cup {u}
                     /\ UNCHANGED recovered
  OBVIOUS
<1>0. FileInv /\ FileInv' /\ proc \in [Proc -> ProcState] /\ recovered \in BOOLEAN
      /\ recovered' \in BOOLEAN
  BY NextFile, NextType DEF RecordInv, FileInv, TypeInv, TypeOK
<1>00. UNCHANGED recovered
  BY <1>0, RecoveredStays
<1>1. ASSUME NEW p \in Proc, NEW u \in Update \cup {NoUpdate}, Call(p, u)
      PROVE  RecordInv' /\ UNCHANGED main
  <2>1. \A q \in Proc : Writing(q)' => proc'[q] = proc[q] /\ Writing(q)
    BY <1>0, <1>1, Members DEF Call, Writing, Idle
  <2>2. UNCHANGED <<main, done>>
    BY <1>1 DEF Call
  <2>. QED  BY <1>0, <2>1, <2>2, RecordKept
<1>2. ASSUME NEW p \in Proc, ReadMain(p)
      PROVE  RecordInv' /\ UNCHANGED main
  <2>1. UNCHANGED <<main, done>> /\ (Got(proc, p, main) \/ Goto(p, "scan"))
    BY <1>0, <1>2 DEF FileInv, ReadMain
  <2>2. ASSUME NEW q \in Proc, Writing(q)'
        PROVE  \/ proc'[q] = proc[q] /\ Writing(q)
               \/ proc'[q].data = main \cup {proc'[q].update}
    <3>1. CASE Got(proc, p, main)
      BY <1>0, <2>2, <3>1, GotData
    <3>2. CASE Goto(p, "scan")
      <4>1. proc'[p].pc = "scan" /\ \A r \in Proc \ {p} : proc'[r] = proc[r]
        BY <1>0, <3>2, Fields DEF Goto, FileInv, TypeInv, ProcState
      <4>. QED  BY <2>2, <4>1, Members DEF Writing
    <3>. QED  BY <2>1, <3>1, <3>2
  <2>. QED  BY <1>0, <2>1, <2>2, RecordKept
<1>3. ASSUME NEW p \in Proc, Recovery(p)
      PROVE  RecordInv' /\ UNCHANGED main
  <2>1. /\ UNCHANGED <<main, done>> /\ ~Writing(p)'
        /\ \A q \in Proc \ {p} : proc'[q] = proc[q]
    BY <1>0, <1>3, RecoveryStep, NextType DEF FileInv
  <2>2. \A q \in Proc : Writing(q)' => proc'[q] = proc[q] /\ Writing(q)
    BY <2>1 DEF Writing
  <2>. QED  BY <1>0, <2>1, <2>2, RecordKept
<1>4. ASSUME NEW p \in Proc,
             NoRotation(p) \/ Rotate(p) \/ CopyBackup(p) \/ Open(p) \/ Write(p)
               \/ WriteFails(p)
      PROVE  RecordInv' /\ UNCHANGED main
  BY <1>0, <1>4, WriteKeepsData, RecordKept
<1>5. ASSUME NEW p \in Proc, Rename(p)
      PROVE  RecordInv' /\ \E u \in Update : main' = main \cup {u}
  <2>1. /\ main' = main \cup {proc[p].update} /\ done' = done \cup {proc[p].update}
        /\ proc[p].update \in Update /\ \A q \in Proc : ~Writing(q)'
    BY <1>5, RenameApplies
  <2>2. RecordInv'
    BY <1>0, <2>1 DEF RecordInv
  <2>. QED  BY <2>1, <2>2
<1>6. CASE Crash
  <2>1. UNCHANGED <<main, done>>
    BY <1>6 DEF Crash
  <2>2. \A q \in Proc : ~Writing(q)'
    BY <1>6, Members DEF Crash, Writing, Idle
  <2>. QED  BY <1>0, <1>00, <2>1, <2>2, RecordKept
<1>7. CASE Corrupt
  BY <1>7 DEF Corrupt, MayFail
<1>8. CASE UNCHANGED vars
  BY <1>0, <1>8 DEF vars, RecordInv, Writing
<1>. QED  BY <1>00, <1>1, <1>2, <1>3, <1>4, <1>5, <1>6, <1>7, <1>8 DEF Next, AtomicWrite

\* With one update at a time the file implements the record that its callers
\* take it for: the rename is where the update happens.  That ends when a recovery
\* falls back on another document.
THEOREM FileImplementsRecord ==
  ASSUME Serial, "corrupt" \notin Faults
  PROVE  Spec => ImplementsRecord
<1>. DEFINE Inv == TypeInv /\ (RecordInv \/ recovered)
<1>1. Init => Record!Init
  BY DEF Init, Record!Init
<1>2. Init => Inv
  BY InitRecord, InitType
<1>3. Inv /\ [Next]_vars => Inv'
  BY NextRecord, NextType, RecoveredStays
<1>4. Inv /\ [Next]_vars => [Record!Next]_<<main, ~recovered>>
  <2>. SUFFICES ASSUME Inv, [Next]_vars
                PROVE  Record!Next \/ UNCHANGED <<main, recovered>>
    OBVIOUS
  <2>1. CASE recovered'
    BY <2>1 DEF Record!Next, Record!FallBack
  <2>2. CASE ~recovered'
    <3>1. ~recovered /\ RecordInv
      BY <2>2, RecoveredStays
    <3>2. UNCHANGED recovered /\ (UNCHANGED main \/ \E u \in Update : main' = main \cup {u})
      BY <2>2, <3>1, NextRecord
    <3>. QED  BY <3>1, <3>2 DEF Record!Next, Record!Apply
  <2>. QED  BY <2>1, <2>2
<1>. QED  BY <1>1, <1>2, <1>3, <1>4, PTL DEF Spec, ImplementsRecord, Record!Spec

-----------------------------------------------------------------------------
(***************************************************************************)
(* What is lost with one update at a time: only what a recovery has found  *)
(* a document without, whatever goes wrong.                                *)
(***************************************************************************)
\* The document of a writer: it has its update, what else is not in it a recovery
\* has undone, and what the writer renames is what it wrote.
Carries(p) ==
  Writing(p) =>
    /\ proc[p].update \in proc[p].data
    /\ done \subseteq proc[p].data \cup undone
    /\ At(p, "write") =>
         temp[proc[p].stamp] = IF proc[p].place = "temp" THEN Torn ELSE None
    /\ At(p, "rename") => temp[proc[p].stamp] \in {None, proc[p].data}

UndoneInv ==
  /\ TypeInv
  /\ Alone
  /\ NoUpdateLost
  /\ \A p \in Proc : Carries(p)

\* There is one writer at most.
LEMMA OneWriter ==
  ASSUME TypeInv, Alone, NEW p \in Proc, NEW q \in Proc, Writing(p), Writing(q)
  PROVE  p = q
<1>1. proc[p].update # NoUpdate /\ proc[q].update # NoUpdate
  BY UpdateAssumption DEF TypeInv, Indexed, CallerOK, Writing
<1>. QED  BY <1>1 DEF Alone

\* Alone is kept by every step that gives nobody an update.
LEMMA AloneKept ==
  ASSUME Alone, \A q \in Proc : proc'[q].update \in {proc[q].update, NoUpdate}
  PROVE  Alone'
BY DEF Alone

\* No step but Call gives anybody an update.
LEMMA UpdateKept ==
  ASSUME TypeInv, NEW p \in Proc, ReadMain(p) \/ Recovery(p) \/ AtomicWrite(p)
  PROVE  \A q \in Proc : proc'[q].update \in {proc[q].update, NoUpdate}
<1>0. /\ proc \in [Proc -> ProcState] /\ \A q \in Proc : proc[q] \in ProcState
      /\ Idle.update = NoUpdate
  BY DEF TypeInv, TypeOK, Idle
<1>1. ASSUME NEW procs \in [Proc -> ProcState], NEW d, Got(procs, p, d),
             \A q \in Proc : procs[q].update = proc[q].update
      PROVE  \A q \in Proc : proc'[q].update \in {proc[q].update, NoUpdate}
  <2>1. CASE proc' = [procs EXCEPT ![p] = Idle]
    BY <1>0, <1>1, <2>1
  <2>2. ASSUME NEW s \in Stamp, proc' = Enters(procs, p, d, s)
        PROVE  \A q \in Proc : proc'[q].update \in {proc[q].update, NoUpdate}
    BY <1>1, <2>2 DEF Enters, Idle
  <2>. QED  BY <1>1, <2>1, <2>2 DEF Got
<1>2. CASE \E d : Got(proc, p, d)
  BY <1>0, <1>1, <1>2
<1>3. CASE RestoreTemp(p)
  <2>. DEFINE moved == Moved(proc, proc[p].stamp)
  <2>1. moved \in [Proc -> ProcState] /\ \A q \in Proc : moved[q].update = proc[q].update
    BY <1>0, MovedType
  <2>2. Got(moved, p, proc[p].data) \/ Got(proc, p, proc[p].data)
    BY <1>3 DEF RestoreTemp
  <2>. HIDE DEF moved
  <2>. QED  BY <1>0, <1>1, <2>1, <2>2
<1>4. CASE Rename(p)
  BY <1>0, <1>4, MovedType DEF Rename
<1>5. CASE WriteFails(p)
  <2>1. \A q \in Proc : proc'[q] \in {proc[q], Idle, [proc[q] EXCEPT !.place = "gone"]}
    BY <1>0, <1>5 DEF WriteFails
  <2>2. \A q \in Proc : [proc[q] EXCEPT !.place = "gone"].update = proc[q].update
    BY <1>0 DEF ProcState
  <2>. QED  BY <1>0, <2>1, <2>2
<1>6. CASE (ReadMain(p) /\ ~\E d : Got(proc, p, d)) \/ ReadDir(p) \/ ReadTemp(p) \/ NoTemps(p)
           \/ ReadBackup(p) \/ NothingToRead(p) \/ NoRotation(p) \/ Rotate(p)
           \/ CopyBackup(p) \/ Open(p) \/ Write(p)
  <2>1. \A q \in Proc \ {p} : proc'[q] = proc[q]
    BY <1>0, <1>6 DEF ReadMain, ReadDir, ReadTemp, NoTemps, ReadBackup, NothingToRead,
       NoRotation, Rotate, CopyBackup, Open, Write, Goto
  <2>2. proc'[p].update \in {proc[p].update, NoUpdate}
    BY <1>0, <1>6 DEF ProcState, ReadMain, ReadDir, ReadTemp, NoTemps, ReadBackup,
       NothingToRead, NoRotation, Rotate, CopyBackup, Open, Write, Goto
  <2>. QED  BY <2>1, <2>2
<1>. QED  BY <1>2, <1>3, <1>4, <1>5, <1>6 DEF Recovery, AtomicWrite, RestoreBackup

\* A caller that enters atomicWriteJson with document d carries it.
LEMMA GotCarries ==
  ASSUME NEW p \in Proc, NEW procs \in [Proc -> ProcState], NEW d,
         Got(procs, p, d), UNCHANGED done, done \subseteq d \cup undone'
  PROVE  Carries(p)' /\ \A q \in Proc \ {p} : proc'[q] = procs[q]
<1>1. CASE proc' = [procs EXCEPT ![p] = Idle]
  <2>1. proc'[p].pc = "idle"
    BY <1>1 DEF Idle
  <2>. QED  BY <1>1, <2>1, Members DEF Carries, Writing
<1>2. ASSUME NEW s \in Stamp, proc' = Enters(procs, p, d, s)
      PROVE  Carries(p)' /\ \A q \in Proc \ {p} : proc'[q] = procs[q]
  <2>1. /\ proc'[p].pc \in {"open", "rotate"} /\ proc'[p].update = proc[p].update
        /\ proc'[p].data = d \cup {proc[p].update}
        /\ \A q \in Proc \ {p} : proc'[q] = procs[q]
    BY <1>2 DEF Enters, Idle
  <2>. QED  BY <2>1 DEF Carries, At
<1>. QED  BY <1>1, <1>2 DEF Got

\* The other writer, if there is one, when a caller reads the file.
LEMMA ReadCarries ==
  ASSUME UndoneInv, TypeInv', NEW p \in Proc, ReadMain(p) \/ Recovery(p)
  PROVE  UndoneInv'
<1>0. /\ proc \in [Proc -> ProcState] /\ proc[p] \in ProcState /\ TypeInv
      /\ proc[p].stamp \in Stamp /\ temp \in [Stamp -> Content]
      /\ \A q \in Proc : Carries(q) /\ proc[q].stamp \in Stamp
  BY Fields DEF UndoneInv, TypeInv, TypeOK
<1>1. Alone'
  BY <1>0, UpdateKept, AloneKept DEF UndoneInv
<1>2. ~Writing(p)
  BY Members DEF ReadMain, Recovery, ReadDir, ReadTemp, NoTemps, RestoreTemp, ReadBackup,
     RestoreBackup, NothingToRead, At, Writing
<1>3. ASSUME NEW q \in Proc, proc'[q] = proc[q], UNCHANGED <<temp, done>>,
             undone \subseteq undone'
      PROVE  Carries(q)'
  BY <1>0, <1>3 DEF Carries, Writing, At
<1>4. ASSUME UNCHANGED <<main, done, undone>>
      PROVE  NoUpdateLost'
  BY <1>4 DEF UndoneInv, NoUpdateLost, Whole
<1>5. CASE ReadMain(p)
  <2>1. UNCHANGED <<main, temp, done, undone>>
    BY <1>5 DEF ReadMain
  <2>2. CASE Whole(main) /\ Got(proc, p, main)
    <3>1. done \subseteq main \cup undone'
      BY <2>1, <2>2 DEF UndoneInv, NoUpdateLost
    <3>2. Carries(p)' /\ \A q \in Proc \ {p} : proc'[q] = proc[q]
      BY <1>0, <2>1, <2>2, <3>1, GotCarries
    <3>. QED  BY <1>1, <1>3, <1>4, <2>1, <3>2 DEF UndoneInv
  <2>3. CASE Goto(p, "scan")
    <3>1. proc'[p].pc = "scan" /\ \A q \in Proc \ {p} : proc'[q] = proc[q]
      BY <1>0, <2>3 DEF Goto, ProcState
    <3>2. Carries(p)'
      BY <3>1, Members DEF Carries, Writing
    <3>. QED  BY <1>1, <1>3, <1>4, <2>1, <3>1, <3>2 DEF UndoneInv
  <2>. QED  BY <1>5, <2>2, <2>3 DEF ReadMain
<1>6. CASE ReadDir(p) \/ ReadTemp(p) \/ NoTemps(p) \/ ReadBackup(p) \/ NothingToRead(p)
  <2>1. UNCHANGED <<main, temp, done, undone>>
    BY <1>6 DEF ReadDir, ReadTemp, NoTemps, ReadBackup, NothingToRead
  <2>2. /\ proc'[p].pc \in {"temp", "restoreTemp", "bak", "restoreBak", "idle"}
        /\ \A q \in Proc \ {p} : proc'[q] = proc[q]
    <3>1. CASE ReadDir(p) \/ NoTemps(p) \/ NothingToRead(p)
      BY <1>0, <3>1 DEF ReadDir, NoTemps, NothingToRead, Idle, ProcState
    <3>2. CASE ReadTemp(p) \/ ReadBackup(p)
      BY <1>0, <3>2 DEF ReadTemp, ReadBackup, ProcState, At
    <3>. QED  BY <1>6, <3>1, <3>2
  <2>3. Carries(p)'
    BY <2>2, Members DEF Carries, Writing
  <2>. QED  BY <1>1, <1>3, <1>4, <2>1, <2>2, <2>3 DEF UndoneInv
\* The caller falls back on the document d.
<1>7. ASSUME FallsBackOn(proc[p].data), UNCHANGED done
      PROVE  /\ undone \subseteq undone' /\ done \subseteq proc[p].data \cup undone'
             /\ NoUpdateLost'
  BY <1>7 DEF FallsBackOn, NoUpdateLost
<1>8. CASE RestoreTemp(p) /\ UNCHANGED temp /\ Got(proc, p, proc[p].data)
  <2>1. FallsBackOn(proc[p].data) /\ UNCHANGED done
    BY <1>8 DEF RestoreTemp
  <2>2. Carries(p)' /\ \A q \in Proc \ {p} : proc'[q] = proc[q]
    BY <1>0, <1>7, <1>8, <2>1, GotCarries
  <2>. QED  BY <1>1, <1>3, <1>7, <1>8, <2>1, <2>2 DEF UndoneInv
<1>9. ASSUME RestoreTemp(p), temp' = [temp EXCEPT ![proc[p].stamp] = None],
             Got(Moved(proc, proc[p].stamp), p, proc[p].data)
      PROVE  UndoneInv'
  <2>. DEFINE s == proc[p].stamp
              moved == Moved(proc, s)
  <2>1. FallsBackOn(proc[p].data) /\ UNCHANGED done
    BY <1>9 DEF RestoreTemp
  <2>2. moved \in [Proc -> ProcState]
    BY <1>0, MovedType
  <2>3. Carries(p)' /\ \A q \in Proc \ {p} : proc'[q] = moved[q]
    <3>. HIDE DEF moved
    <3>. QED  BY <1>7, <1>9, <2>1, <2>2, GotCarries DEF moved
  <2>4. ASSUME NEW q \in Proc \ {p}, Writing(q)'
        PROVE  Carries(q)'
    <3>1. /\ moved[q].pc = proc[q].pc /\ moved[q].data = proc[q].data
          /\ moved[q].update = proc[q].update /\ moved[q].stamp = proc[q].stamp
          /\ moved[q].pc = "write" =>
               (moved[q].place = "temp" <=> proc[q].place = "temp" /\ proc[q].stamp # s)
      <4>0. proc[q] \in ProcState
        BY <1>0
      <4>. QED  BY <4>0 DEF Moved, ProcState
    <3>2. Carries(q) /\ Writing(q) /\ proc[q].stamp \in Stamp
      BY <1>0, <2>3, <2>4, <3>1 DEF Writing
    <3>3. temp'[proc[q].stamp] = IF proc[q].stamp = s THEN None ELSE temp[proc[q].stamp]
      BY <1>0, <1>9, <3>2
    <3>4. proc'[q] = moved[q]
      BY <2>3
    <3>. HIDE DEF moved, s
    <3>. QED  BY <1>7, <2>1, <3>1, <3>2, <3>3, <3>4 DEF Carries, At, Writing
  <2>5. \A q \in Proc : Carries(q)'
    BY <2>3, <2>4 DEF Carries
  <2>. QED  BY <1>1, <1>7, <2>1, <2>5 DEF UndoneInv
<1>10. CASE RestoreBackup(p)
  <2>1. /\ FallsBackOn(proc[p].data) /\ UNCHANGED <<temp, done>>
        /\ Got(proc, p, proc[p].data)
    BY <1>10 DEF RestoreBackup
  <2>2. Carries(p)' /\ \A q \in Proc \ {p} : proc'[q] = proc[q]
    BY <1>0, <1>7, <2>1, GotCarries
  <2>. QED  BY <1>1, <1>3, <1>7, <2>1, <2>2 DEF UndoneInv
<1>11. CASE RestoreTemp(p)
  BY <1>8, <1>9, <1>11 DEF RestoreTemp
<1>. QED  BY <1>5, <1>6, <1>10, <1>11 DEF Recovery

\* The writer is the only one.
LEMMA WriteCarries ==
  ASSUME UndoneInv, TypeInv', NEW p \in Proc, AtomicWrite(p)
  PROVE  UndoneInv'
<1>. DEFINE s == proc[p].stamp
<1>0. /\ proc \in [Proc -> ProcState] /\ proc[p] \in ProcState /\ TypeInv
      /\ s \in Stamp /\ temp \in [Stamp -> Content] /\ Carries(p)
  BY Fields DEF UndoneInv, TypeInv, TypeOK
<1>1. Alone'
  BY <1>0, UpdateKept, AloneKept DEF UndoneInv
<1>2. Writing(p) /\ UNCHANGED undone
  BY Members DEF AtomicWrite, NoRotation, Rotate, CopyBackup, Open, Write, Rename,
     WriteFails, At, Writing
<1>3. \A q \in Proc \ {p} : ~Writing(q)
  BY <1>0, <1>2, OneWriter DEF UndoneInv
<1>4. /\ proc[p].update \in proc[p].data /\ done \subseteq proc[p].data \cup undone
  BY <1>0, <1>2 DEF Carries
<1>5. ASSUME Carries(p)', NoUpdateLost', \A q \in Proc \ {p} : proc'[q].pc = proc[q].pc
      PROVE  UndoneInv'
  <2>1. \A q \in Proc \ {p} : ~Writing(q)'
    BY <1>3, <1>5 DEF Writing
  <2>2. \A q \in Proc : Carries(q)'
    BY <1>5, <2>1 DEF Carries
  <2>. QED  BY <1>1, <1>5, <2>2 DEF UndoneInv
<1>6. ASSUME UNCHANGED <<main, done>>
      PROVE  NoUpdateLost'
  BY <1>2, <1>6 DEF UndoneInv, NoUpdateLost, Whole
<1>7. CASE NoRotation(p) \/ Rotate(p) \/ CopyBackup(p)
  <2>1. /\ proc'[p].pc \in {"open", "copy", "rotate"} /\ proc'[p].data = proc[p].data
        /\ proc'[p].update = proc[p].update
        /\ \A q \in Proc \ {p} : proc'[q] = proc[q]
    BY <1>0, <1>7 DEF NoRotation, Rotate, CopyBackup, Goto, ProcState
  <2>2. UNCHANGED <<main, done>>
    BY <1>7 DEF NoRotation, Rotate, CopyBackup
  <2>3. Carries(p)'
    BY <1>2, <1>4, <2>1, <2>2 DEF Carries, At
  <2>. QED  BY <1>5, <1>6, <2>1, <2>2, <2>3
<1>8. CASE Open(p)
  <2>1. /\ proc'[p].pc = "write" /\ proc'[p].data = proc[p].data /\ proc'[p].stamp = s
        /\ proc'[p].update = proc[p].update /\ proc'[p].place = "temp"
        /\ \A q \in Proc \ {p} : proc'[q] = proc[q]
    BY <1>0, <1>8 DEF Open, ProcState
  <2>2. temp'[s] = Torn /\ UNCHANGED <<main, done>>
    BY <1>0, <1>8 DEF Open
  <2>3. Carries(p)'
    BY <1>2, <1>4, <2>1, <2>2 DEF Carries, At
  <2>. QED  BY <1>5, <1>6, <2>1, <2>2, <2>3
<1>9. CASE Write(p)
  <2>1. /\ proc'[p].pc = "rename" /\ proc'[p].data = proc[p].data /\ proc'[p].stamp = s
        /\ proc'[p].update = proc[p].update /\ UNCHANGED done /\ proc[p].pc = "write"
        /\ \A q \in Proc \ {p} : proc'[q] = proc[q]
    BY <1>0, <1>9 DEF Write, At, ProcState
  <2>2. CASE proc[p].place = "temp"
    <3>1. temp[s] = Torn
      BY <1>0, <1>2, <2>1, <2>2 DEF Carries, At
    <3>2. temp' = [temp EXCEPT ![s] = proc[p].data] /\ UNCHANGED main
      BY <1>9, <2>2, <3>1 DEF Write, Written
    <3>3. Carries(p)'
      BY <1>0, <1>2, <1>4, <2>1, <3>2 DEF Carries, At
    <3>. QED  BY <1>5, <1>6, <2>1, <3>2, <3>3
  <2>3. CASE proc[p].place # "temp"
    <3>1. UNCHANGED temp /\ (UNCHANGED main \/ main' \in {proc[p].data, Torn})
      BY <1>9, <2>3 DEF Write, Written
    <3>2. temp'[s] = None
      BY <1>0, <1>2, <2>1, <2>3, <3>1 DEF Carries, At
    <3>3. Carries(p)'
      BY <1>2, <1>4, <2>1, <3>2 DEF Carries, At
    <3>4. NoUpdateLost'
      <4>1. CASE UNCHANGED main
        BY <1>6, <2>1, <4>1
      <4>2. CASE main' = proc[p].data
        BY <1>2, <1>4, <2>1, <4>2 DEF NoUpdateLost
      <4>3. CASE main' = Torn
        BY <4>3 DEF NoUpdateLost, Whole
      <4>. QED  BY <3>1, <4>1, <4>2, <4>3
    <3>. QED  BY <1>5, <2>1, <3>3, <3>4
  <2>. QED  BY <2>2, <2>3
<1>10. CASE Rename(p)
  <2>1. proc[p].pc = "rename" /\ temp[s] \in {None, proc[p].data}
    BY <1>0, <1>2, <1>10 DEF Rename, Carries, At
  <2>2. /\ proc'[p] = Idle /\ \A q \in Proc \ {p} : proc'[q].pc = proc[q].pc
    BY <1>0, <1>10, MovedType DEF Rename
  <2>3. Carries(p)'
    BY <2>2, Members DEF Carries, Writing, Idle
  <2>4. NoUpdateLost'
    <3>1. CASE temp[s] = None
      BY <1>6, <1>10, <3>1 DEF Rename
    <3>2. CASE temp[s] # None
      <4>1. main' = proc[p].data /\ done' = done \cup {proc[p].update}
        BY <1>10, <2>1, <3>2 DEF Rename
      <4>. QED  BY <1>2, <1>4, <4>1 DEF NoUpdateLost
    <3>. QED  BY <3>1, <3>2
  <2>. QED  BY <1>5, <2>2, <2>3, <2>4
<1>11. CASE WriteFails(p)
  <2>1. proc'[p] = Idle /\ \A q \in Proc \ {p} : proc'[q].pc = proc[q].pc
    <3>1. ASSUME NEW q \in Proc
          PROVE  [proc[q] EXCEPT !.place = "gone"].pc = proc[q].pc
      <4>1. proc[q] \in ProcState
        BY <1>0
      <4>. QED  BY <4>1 DEF ProcState
    <3>2. \A q \in Proc \ {p} : proc'[q] \in {proc[q], [proc[q] EXCEPT !.place = "gone"]}
      BY <1>0, <1>11 DEF WriteFails
    <3>3. proc'[p] = Idle
      BY <1>0, <1>11 DEF WriteFails
    <3>. QED  BY <3>1, <3>2, <3>3
  <2>2. Carries(p)'
    BY <2>1, Members DEF Carries, Writing, Idle
  <2>3. UNCHANGED <<main, done>>
    BY <1>11 DEF WriteFails
  <2>. QED  BY <1>5, <1>6, <2>1, <2>2, <2>3
<1>. QED  BY <1>7, <1>8, <1>9, <1>10, <1>11 DEF AtomicWrite

LEMMA NextUndone ==
  ASSUME Serial
  PROVE  UndoneInv /\ [Next]_vars => UndoneInv'
<1>. SUFFICES ASSUME UndoneInv, [Next]_vars
              PROVE  UndoneInv'
  OBVIOUS
<1>0. /\ TypeInv' /\ proc \in [Proc -> ProcState] /\ \A p \in Proc : Carries(p)
  BY NextType DEF UndoneInv, TypeInv, TypeOK
<1>1. ASSUME NEW p \in Proc, NEW u \in Update \cup {NoUpdate}, Call(p, u)
      PROVE  UndoneInv'
  <2>1. /\ proc'[p].pc = "read" /\ proc'[p].update = u
        /\ \A q \in Proc \ {p} : proc'[q] = proc[q]
    BY <1>0, <1>1 DEF Call, Idle
  <2>2. UNCHANGED <<main, temp, done, undone>>
    BY <1>1 DEF Call
  <2>3. u # NoUpdate => \A q \in Proc : proc[q].update = NoUpdate
    BY <1>1 DEF Call
  <2>4. Alone'
    BY <2>1, <2>3 DEF UndoneInv, Alone
  <2>5. Carries(p)'
    BY <2>1, Members DEF Carries, Writing
  <2>6. \A q \in Proc : Carries(q)'
    BY <1>0, <2>1, <2>2, <2>5 DEF Carries, Writing, At
  <2>7. NoUpdateLost'
    BY <2>2 DEF UndoneInv, NoUpdateLost, Whole
  <2>. QED  BY <1>0, <2>4, <2>6, <2>7 DEF UndoneInv
<1>2. ASSUME NEW p \in Proc, ReadMain(p) \/ Recovery(p) \/ AtomicWrite(p)
      PROVE  UndoneInv'
  BY <1>0, <1>2, ReadCarries, WriteCarries
<1>3. CASE Crash
  <2>1. \A p \in Proc : proc'[p] = Idle
    BY <1>3 DEF Crash
  <2>2. Alone' /\ \A p \in Proc : Carries(p)'
    BY <2>1, Members DEF Alone, Carries, Writing, Idle
  <2>3. UNCHANGED <<done, undone>> /\ (UNCHANGED main \/ main' = Torn)
    BY <1>3 DEF Crash
  <2>4. NoUpdateLost'
    BY <2>3 DEF UndoneInv, NoUpdateLost, Whole
  <2>. QED  BY <1>0, <2>2, <2>4 DEF UndoneInv
<1>4. CASE Corrupt
  <2>1. UNCHANGED proc /\ (\A p \in Proc : ~Writing(p)) /\ main' = Torn
    BY <1>4 DEF Corrupt
  <2>2. Alone' /\ \A p \in Proc : Carries(p)'
    BY <2>1 DEF UndoneInv, Alone, Carries, Writing
  <2>3. NoUpdateLost'
    BY <2>1 DEF NoUpdateLost, Whole
  <2>. QED  BY <1>0, <2>2, <2>3 DEF UndoneInv
<1>5. CASE UNCHANGED vars
  <2>1. UNCHANGED <<main, temp, proc, done, undone>>
    BY <1>5 DEF vars
  <2>. QED  BY <1>0, <2>1 DEF UndoneInv, Alone, NoUpdateLost, Whole, Carries, Writing, At
<1>. QED  BY <1>1, <1>2, <1>3, <1>4, <1>5 DEF Next

LEMMA InitUndone == Init => UndoneInv
<1>. SUFFICES ASSUME Init
              PROVE  UndoneInv
  OBVIOUS
<1>1. \A p \in Proc : proc[p].pc = "idle" /\ proc[p].update = NoUpdate
  BY DEF Init, Idle
<1>2. Alone /\ \A p \in Proc : Carries(p)
  BY <1>1, Members DEF Alone, Carries, Writing
<1>3. NoUpdateLost
  BY DEF Init, NoUpdateLost
<1>. QED  BY <1>2, <1>3, InitType DEF UndoneInv

\* With one update at a time an acknowledged update is in the file unless a recovery
\* has gone back to a document without it, whatever reads and writes fail, whoever
\* damages the file and whenever the server crashes.
THEOREM SerialUpdatesStay ==
  ASSUME Serial
  PROVE  Spec => []NoUpdateLost
<1>1. UndoneInv => NoUpdateLost
  BY DEF UndoneInv
<1>2. UndoneInv /\ [Next]_vars => UndoneInv'
  BY NextUndone
<1>. QED  BY <1>1, <1>2, InitUndone, PTL DEF Spec

-----------------------------------------------------------------------------
(***************************************************************************)
(* Whatever goes wrong, a rename never puts half a document in the place   *)
(* of a whole one, as long as each write has a stamp of its own.           *)
(***************************************************************************)
\* A caller that has a stamp and has not yet written its temp file, and one that
\* has a temp file in mind, its own or one that it restores.
Begun(s) == s.pc \in {"rotate", "copy", "open", "write"}
Holding(s) == s.pc \in WritePC \cup {"restoreTemp"}

\* What the temp file f of a caller looks like.
Sound(s, f) ==
  /\ s.pc \in {"rotate", "copy", "open"} => f = None
  /\ s.pc = "write" => s.place = "temp" /\ f = Torn
  /\ s.pc \in {"rename", "restoreTemp"} => f # Torn

TempInv ==
  /\ TypeInv
  /\ \A p \in Proc : Sound(proc[p], temp[proc[p].stamp])
  /\ \A p, q \in Proc :
       p # q /\ Begun(proc[p]) /\ Holding(proc[q]) => proc[p].stamp # proc[q].stamp
  /\ \A p \in Proc : Holding(proc[p]) => proc[p].stamp <= clock
  /\ \A s \in Stamp : temp[s] # None => s <= clock

LEMMA PlacesOfCallers ==
  /\ \A s : Begun(s) => Holding(s)
  /\ \A s : s.pc \in {"idle", "read", "scan", "temp", "bak", "restoreBak"} => ~Holding(s)
  /\ \A s : Holding(s) /\ ~Begun(s) => s.pc \in {"rename", "restoreTemp"}
BY Members DEF Begun, Holding

\* A step of one caller.
LEMMA OneHolder ==
  ASSUME TempInv, TypeInv', NEW p \in Proc,
         \A q \in Proc \ {p} : /\ proc'[q] = proc[q]
                               /\ Sound(proc[q], temp'[proc[q].stamp]),
         Sound(proc'[p], temp'[proc'[p].stamp]),
         clock' >= clock,
         \A s \in Stamp : temp'[s] # None => s <= clock',
         Holding(proc'[p]) =>
           /\ proc'[p].stamp <= clock'
           /\ \A q \in Proc \ {p} : Begun(proc[q]) => proc'[p].stamp # proc[q].stamp,
         Begun(proc'[p]) =>
           \A q \in Proc \ {p} : Holding(proc[q]) => proc'[p].stamp # proc[q].stamp
  PROVE  TempInv'
<1>1. clock \in Nat /\ clock' \in Nat /\ \A q \in Proc : proc[q].stamp \in Nat
  BY Fields, Numbers, StampAssumption DEF TempInv, TypeInv, TypeOK, Stamp
<1>2. \A q \in Proc : Sound(proc'[q], temp'[proc'[q].stamp])
  OBVIOUS
<1>3. \A q, r \in Proc :
        q # r /\ Begun(proc'[q]) /\ Holding(proc'[r]) => proc'[q].stamp # proc'[r].stamp
  BY DEF TempInv
<1>4. \A q \in Proc : Holding(proc'[q]) => proc'[q].stamp <= clock'
  BY <1>1 DEF TempInv
<1>. QED  BY <1>2, <1>3, <1>4 DEF TempInv, Sound, Begun, Holding

\* A caller that has no temp file in mind any more, nor has it changed any.
LEMMA LetGo ==
  ASSUME TempInv, TypeInv', NEW p \in Proc, \A q \in Proc \ {p} : proc'[q] = proc[q],
         ~Holding(proc'[p]), UNCHANGED <<temp, clock>>
  PROVE  TempInv'
<1>1. Sound(proc'[p], temp'[proc'[p].stamp]) /\ ~Begun(proc'[p])
  BY PlacesOfCallers, Members DEF Sound, Holding, Begun
<1>2. clock' >= clock
  BY StampAssumption DEF TempInv, TypeInv, TypeOK
<1>. QED  BY <1>1, <1>2, OneHolder DEF TempInv

\* A caller that has its document: it is done, or gets a stamp that is new.  The
\* temp files may have changed before, as long as those that others have in mind
\* are sound.
LEMMA GotHolder ==
  ASSUME Distinct, TempInv, TypeInv', NEW p \in Proc, NEW d, Got(proc, p, d),
         \A s \in Stamp : temp'[s] \in {temp[s], None},
         \A q \in Proc \ {p} : Sound(proc[q], temp'[proc[q].stamp])
  PROVE  TempInv'
<1>0. /\ proc \in [Proc -> ProcState] /\ clock \in Nat
      /\ \A s \in Stamp : s \in Nat
      /\ \A q \in Proc : Holding(proc[q]) => proc[q].stamp <= clock
      /\ \A q \in Proc : proc[q].stamp \in Nat
      /\ \A s \in Stamp : temp[s] # None => s <= clock
  BY Fields, StampAssumption DEF TempInv, TypeInv, TypeOK, Stamp
<1>1. CASE proc' = [proc EXCEPT ![p] = Idle] /\ UNCHANGED clock
  <2>1. proc'[p] = Idle /\ \A q \in Proc \ {p} : proc'[q] = proc[q]
    BY <1>0, <1>1
  <2>2. Idle.pc = "idle"
    BY DEF Idle
  <2>3. ~Holding(Idle) /\ ~Begun(Idle) /\ \A f : Sound(Idle, f)
    BY <2>2, PlacesOfCallers DEF Sound
  <2>4. \A s \in Stamp : temp'[s] # None => s <= clock'
    BY <1>0, <1>1
  <2>5. clock' >= clock
    BY <1>0, <1>1
  <2>. QED  BY <2>1, <2>3, <2>4, <2>5, OneHolder
<1>2. ASSUME NEW s \in Stamp, proc[p].update # NoUpdate,
             NextStamp(s), clock' = s,
             proc' = Enters(proc, p, d, s)
      PROVE  TempInv'
  <2>1. /\ proc'[p].pc \in {"open", "rotate"} /\ proc'[p].stamp = s
        /\ \A q \in Proc \ {p} : proc'[q] = proc[q]
    BY <1>0, <1>2 DEF Enters, Idle
  <2>2. s > clock /\ clock' >= clock /\ s <= clock'
    BY <1>0, <1>2 DEF NextStamp
  <2>3. temp'[s] = None
    BY <1>0, <2>2
  <2>4. Sound(proc'[p], temp'[proc'[p].stamp])
    BY <2>1, <2>3 DEF Sound
  <2>5. ASSUME NEW t \in Stamp, temp'[t] # None
        PROVE  t <= clock'
    <3>1. temp[t] # None
      BY <2>5
    <3>2. t <= clock /\ t \in Nat /\ clock' \in Nat
      BY <1>0, <1>2, <3>1
    <3>. QED  BY <1>0, <2>2, <3>2
  <2>6. \A q \in Proc : Holding(proc[q]) => s # proc[q].stamp
    BY <1>0, <2>2
  <2>7. \A q \in Proc : Begun(proc[q]) => s # proc[q].stamp
    BY <2>6, PlacesOfCallers
  <2>. QED  BY <2>1, <2>2, <2>4, <2>5, <2>6, <2>7, OneHolder
<1>. QED  BY <1>1, <1>2 DEF Got

\* A temp file that can be read is not being written.
LEMMA ReadableTemp ==
  ASSUME TempInv, NEW s \in Stamp, Whole(temp[s]), NEW q \in Proc, Begun(proc[q])
  PROVE  proc[q].stamp # s
BY DEF TempInv, Begun, Sound, Whole

\* The files that a rename moves are not being written by anybody else.
LEMMA NobodyMoved ==
  ASSUME TempInv, NEW p \in Proc, Holding(proc[p])
  PROVE  \A q \in Proc \ {p} : /\ Moved(proc, proc[p].stamp)[q] = proc[q]
                               /\ Begun(proc[q]) => proc[q].stamp # proc[p].stamp
<1>1. ASSUME NEW q \in Proc \ {p}
      PROVE  Begun(proc[q]) => proc[q].stamp # proc[p].stamp
  BY DEF TempInv
<1>2. ASSUME NEW q \in Proc \ {p}
      PROVE  Moved(proc, proc[p].stamp)[q] = proc[q]
  <2>1. proc[q].pc = "write" => proc[q].place = "temp" /\ proc[q].stamp # proc[p].stamp
    BY <1>1 DEF TempInv, Sound, Begun
  <2>. QED  BY <2>1 DEF Moved
<1>. QED  BY <1>1, <1>2

\* The temp file of a caller vanishes.
LEMMA TempGone ==
  ASSUME TempInv, NEW p \in Proc, Holding(proc[p]),
         temp' = [temp EXCEPT ![proc[p].stamp] = None]
  PROVE  /\ \A s \in Stamp : temp'[s] \in {temp[s], None}
         /\ \A q \in Proc \ {p} : Sound(proc[q], temp'[proc[q].stamp])
<1>1. /\ temp \in [Stamp -> Content]
      /\ \A q \in Proc : proc[q].stamp \in Stamp /\ Sound(proc[q], temp[proc[q].stamp])
  BY Fields DEF TempInv, TypeInv, TypeOK
<1>2. \A s \in Stamp : temp'[s] = IF s = proc[p].stamp THEN None ELSE temp[s]
  BY <1>1
<1>3. ASSUME NEW q \in Proc \ {p}
      PROVE  Sound(proc[q], temp'[proc[q].stamp])
  <2>1. CASE proc[q].stamp = proc[p].stamp
    <3>1. ~Begun(proc[q])
      BY <2>1 DEF TempInv
    <3>. QED  BY <1>1, <1>2, <2>1, <3>1, Contents DEF Begun, Sound
  <2>2. CASE proc[q].stamp # proc[p].stamp
    BY <1>1, <1>2, <2>2
  <2>. QED  BY <2>1, <2>2
<1>. QED  BY <1>2, <1>3

LEMMA RecoverySound ==
  ASSUME Distinct, TempInv, TypeInv', NEW p \in Proc, ReadMain(p) \/ Recovery(p)
  PROVE  TempInv'
<1>0. /\ proc \in [Proc -> ProcState] /\ proc[p] \in ProcState
      /\ \A q \in Proc : Sound(proc[q], temp[proc[q].stamp])
  BY Fields DEF TempInv, TypeInv, TypeOK
<1>1. ASSUME NEW d, Got(proc, p, d), UNCHANGED temp
      PROVE  TempInv'
  BY <1>0, <1>1, GotHolder
<1>2. ASSUME proc'[p].pc \in {"idle", "scan", "temp", "bak", "restoreBak"},
             \A q \in Proc \ {p} : proc'[q] = proc[q], UNCHANGED <<temp, clock>>
      PROVE  TempInv'
  BY <1>2, PlacesOfCallers, LetGo
<1>3. CASE ReadMain(p)
  <2>1. CASE Got(proc, p, main)
    BY <1>1, <1>3, <2>1 DEF ReadMain
  <2>2. CASE Goto(p, "scan") /\ UNCHANGED clock
    <3>1. proc'[p].pc = "scan" /\ \A q \in Proc \ {p} : proc'[q] = proc[q]
      BY <1>0, <2>2 DEF Goto, ProcState
    <3>. QED  BY <1>2, <1>3, <2>2, <3>1 DEF ReadMain
  <2>. QED  BY <1>3, <2>1, <2>2 DEF ReadMain
<1>4. CASE ReadDir(p) \/ NoTemps(p)
  <2>1. /\ proc'[p].pc \in {"temp", "bak"} /\ \A q \in Proc \ {p} : proc'[q] = proc[q]
        /\ UNCHANGED <<temp, clock>>
    BY <1>0, <1>4 DEF ReadDir, NoTemps, ProcState
  <2>. QED  BY <1>2, <2>1
<1>5. CASE ReadTemp(p)
  <2>. DEFINE s == Newest(proc[p].todo)
  <2>1. s \in Stamp /\ UNCHANGED <<temp, clock>>
    BY <1>5, NewestMember, Fields DEF ReadTemp, TempInv, TypeInv
  <2>2. ASSUME Whole(temp[s]), proc' = [proc EXCEPT ![p].pc = "restoreTemp",
                 ![p].data = temp[s], ![p].stamp = s, ![p].todo = {}]
        PROVE  TempInv'
    <3>. HIDE DEF s
    <3>2. /\ proc'[p].pc = "restoreTemp" /\ proc'[p].stamp = s
          /\ \A q \in Proc \ {p} : proc'[q] = proc[q]
      BY <1>0, <2>2 DEF ProcState
    <3>3. temp[s] # Torn /\ temp[s] # None /\ s <= clock
      BY <2>1, <2>2 DEF Whole, TempInv
    <3>4. Sound(proc'[p], temp'[proc'[p].stamp])
      BY <2>1, <3>2, <3>3 DEF Sound
    <3>5. \A q \in Proc \ {p} : Begun(proc[q]) => proc[q].stamp # s
      BY <2>1, <2>2, ReadableTemp
    <3>6. ~Begun(proc'[p]) /\ clock' >= clock
      BY <2>1, <3>2, StampAssumption DEF Begun, TempInv, TypeInv, TypeOK
    <3>. QED  BY <1>0, <2>1, <3>2, <3>3, <3>4, <3>5, <3>6, OneHolder DEF TempInv
  <2>3. ASSUME proc' = [proc EXCEPT ![p].todo = @ \ {s}]
        PROVE  TempInv'
    <3>1. proc[p].pc = "temp"
      BY <1>5 DEF ReadTemp, At
    <3>2. proc'[p].pc = "temp" /\ \A q \in Proc \ {p} : proc'[q] = proc[q]
      BY <1>0, <2>3, <3>1 DEF ProcState
    <3>. QED  BY <1>2, <2>1, <3>2
  <2>. QED  BY <1>5, <2>2, <2>3 DEF ReadTemp
<1>6. CASE RestoreTemp(p)
  <2>1. Holding(proc[p])
    BY <1>6 DEF RestoreTemp, At, Holding
  <2>2. CASE UNCHANGED temp /\ Got(proc, p, proc[p].data)
    BY <1>1, <2>2
  <2>3. CASE /\ temp' = [temp EXCEPT ![proc[p].stamp] = None]
             /\ Got(Moved(proc, proc[p].stamp), p, proc[p].data)
    <3>2. Moved(proc, proc[p].stamp) = proc
      <4>1. Moved(proc, proc[p].stamp)[p] = proc[p]
        BY <1>6 DEF Moved, RestoreTemp, At
      <4>2. \A q \in Proc : Moved(proc, proc[p].stamp)[q] = proc[q]
        BY <2>1, <4>1, NobodyMoved
      <4>. QED  BY <1>0, <4>2, MovedType
    <3>. QED  BY <2>1, <2>3, <3>2, TempGone, GotHolder
  <2>. QED  BY <1>6, <2>2, <2>3 DEF RestoreTemp
<1>7. CASE ReadBackup(p)
  <2>1. /\ proc'[p].pc \in {"restoreBak", "bak"} /\ \A q \in Proc \ {p} : proc'[q] = proc[q]
        /\ UNCHANGED <<temp, clock>>
    BY <1>0, <1>7 DEF ReadBackup, At, ProcState
  <2>. QED  BY <1>2, <2>1
<1>8. CASE RestoreBackup(p)
  BY <1>1, <1>8 DEF RestoreBackup
<1>9. CASE NothingToRead(p)
  BY <1>0, <1>2, <1>9 DEF NothingToRead, Idle
<1>. QED  BY <1>3, <1>4, <1>5, <1>6, <1>7, <1>8, <1>9 DEF Recovery

LEMMA WriteSound ==
  ASSUME TempInv, TypeInv', NEW p \in Proc, AtomicWrite(p)
  PROVE  TempInv'
<1>. DEFINE s == proc[p].stamp
<1>0. /\ proc \in [Proc -> ProcState] /\ proc[p] \in ProcState /\ s \in Stamp
      /\ temp \in [Stamp -> Content] /\ clock \in Nat /\ proc[p].data \in Data
      /\ Sound(proc[p], temp[s]) /\ \A q \in Proc : Sound(proc[q], temp[proc[q].stamp])
      /\ \A t \in Stamp : temp[t] # None => t <= clock
  BY Fields, StampAssumption DEF TempInv, TypeInv, TypeOK
<1>1. Writing(p) /\ Holding(proc[p]) /\ s <= clock /\ UNCHANGED clock
  <2>1. Writing(p) /\ UNCHANGED clock
    BY Members DEF AtomicWrite, NoRotation, Rotate, CopyBackup, Open, Write, Rename,
       WriteFails, At, Writing
  <2>. QED  BY <2>1 DEF Writing, Holding, TempInv
<1>2. \A q \in Proc \ {p} : Begun(proc[q]) => s # proc[q].stamp
  BY <1>1 DEF TempInv
<1>3. Begun(proc[p]) => \A q \in Proc \ {p} : Holding(proc[q]) => s # proc[q].stamp
  BY DEF TempInv
\* The caller stays the one that writes the temp file, which it may have changed.
<1>4. ASSUME Begun(proc[p]), proc'[p].stamp = s, Sound(proc'[p], temp'[s]),
             \A q \in Proc \ {p} : proc'[q] = proc[q],
             \A t \in Stamp : t # s => temp'[t] = temp[t]
      PROVE  TempInv'
  <2>1. ASSUME NEW q \in Proc \ {p}
        PROVE  Sound(proc[q], temp'[proc[q].stamp])
    <3>1. CASE Holding(proc[q])
      <4>1. proc[q].stamp # s /\ proc[q].stamp \in Stamp
        BY <1>3, <1>4, <3>1, Fields DEF TempInv, TypeInv
      <4>. QED  BY <1>0, <1>4, <4>1
    <3>2. CASE ~Holding(proc[q])
      BY <3>2, Members DEF Holding, Sound
    <3>. QED  BY <3>1, <3>2
  <2>2. ASSUME NEW t \in Stamp, temp'[t] # None
        PROVE  t <= clock'
    BY <1>0, <1>1, <1>4, <2>2
  <2>3. clock' >= clock
    BY <1>0, <1>1
  <2>. QED  BY <1>1, <1>2, <1>3, <1>4, <2>1, <2>2, <2>3, OneHolder
\* The caller is done, and its temp file may be gone.
<1>5. ASSUME proc'[p] = Idle, \A q \in Proc \ {p} : proc'[q] = proc[q],
             UNCHANGED temp \/ temp' = [temp EXCEPT ![s] = None]
      PROVE  TempInv'
  <2>1. ~Holding(Idle) /\ ~Begun(Idle) /\ \A f : Sound(Idle, f)
    <3>1. Idle.pc = "idle"
      BY DEF Idle
    <3>. QED  BY <3>1, PlacesOfCallers DEF Sound
  <2>2. CASE UNCHANGED temp
    BY <1>1, <1>5, <2>1, <2>2, LetGo
  <2>3. CASE temp' = [temp EXCEPT ![s] = None]
    <3>1. /\ \A t \in Stamp : temp'[t] \in {temp[t], None}
          /\ \A q \in Proc \ {p} : Sound(proc[q], temp'[proc[q].stamp])
      BY <1>1, <2>3, TempGone
    <3>2. ASSUME NEW t \in Stamp, temp'[t] # None
          PROVE  t <= clock'
      BY <1>0, <1>1, <3>1, <3>2
    <3>3. clock' >= clock
      BY <1>0, <1>1
    <3>. QED  BY <1>5, <2>1, <3>1, <3>2, <3>3, OneHolder
  <2>. QED  BY <1>5, <2>2, <2>3
<1>6. CASE NoRotation(p) \/ Rotate(p)
  <2>1. /\ proc'[p].pc \in {"open", "copy", "rotate"} /\ proc'[p].stamp = s
        /\ \A q \in Proc \ {p} : proc'[q] = proc[q]
        /\ UNCHANGED temp /\ proc[p].pc = "rotate"
    BY <1>0, <1>6 DEF NoRotation, Rotate, Goto, At, ProcState
  <2>. QED  BY <1>0, <1>4, <2>1 DEF Sound, Begun
<1>7. CASE CopyBackup(p)
  <2>1. /\ proc'[p].pc = "open" /\ proc'[p].stamp = s
        /\ \A q \in Proc \ {p} : proc'[q] = proc[q]
        /\ UNCHANGED temp /\ proc[p].pc = "copy"
    BY <1>0, <1>7 DEF CopyBackup, Goto, At, ProcState
  <2>. QED  BY <1>0, <1>4, <2>1 DEF Sound, Begun
<1>8. CASE Open(p)
  <2>1. /\ proc'[p].pc = "write" /\ proc'[p].stamp = s /\ proc'[p].place = "temp"
        /\ \A q \in Proc \ {p} : proc'[q] = proc[q]
        /\ proc[p].pc = "open"
    BY <1>0, <1>8 DEF Open, At, ProcState
  <2>2. temp'[s] = Torn /\ \A t \in Stamp : t # s => temp'[t] = temp[t]
    BY <1>0, <1>8 DEF Open
  <2>. QED  BY <1>4, <2>1, <2>2 DEF Sound, Begun
<1>9. CASE Write(p)
  <2>1. proc[p].place = "temp" /\ temp[s] = Torn /\ proc[p].pc = "write"
    BY <1>0, <1>9 DEF Write, At, Sound
  <2>2. temp' = [temp EXCEPT ![s] = proc[p].data]
    BY <1>9, <2>1 DEF Write, Written
  <2>3. /\ proc'[p].pc = "rename" /\ proc'[p].stamp = s
        /\ \A q \in Proc \ {p} : proc'[q] = proc[q]
    BY <1>0, <1>9 DEF Write, ProcState
  <2>4. temp'[s] # Torn /\ \A t \in Stamp : t # s => temp'[t] = temp[t]
    BY <1>0, <2>2, Contents
  <2>. QED  BY <1>4, <2>1, <2>3, <2>4 DEF Sound, Begun
<1>10. CASE Rename(p)
  <2>1. proc[p].pc = "rename"
    BY <1>10 DEF Rename, At
  <2>2. proc'[p] = Idle /\ \A q \in Proc \ {p} : proc'[q] = proc[q]
    BY <1>0, <1>1, <1>10, NobodyMoved, MovedType DEF Rename
  <2>. QED  BY <1>5, <1>10, <2>2 DEF Rename
<1>11. CASE WriteFails(p)
  <2>1. ASSUME NEW q \in Proc \ {p}, proc[q].pc = "write"
        PROVE  proc[q].stamp # s
    BY <1>2, <2>1 DEF Begun
  <2>2. proc'[p] = Idle /\ \A q \in Proc \ {p} : proc'[q] = proc[q]
    BY <1>0, <1>11, <2>1 DEF WriteFails
  <2>. QED  BY <1>5, <1>11, <2>2 DEF WriteFails
<1>. QED  BY <1>6, <1>7, <1>8, <1>9, <1>10, <1>11 DEF AtomicWrite

LEMMA NextTemp ==
  ASSUME Distinct
  PROVE  TempInv /\ [Next]_vars => TempInv'
<1>. SUFFICES ASSUME TempInv, [Next]_vars
              PROVE  TempInv'
  OBVIOUS
<1>0. TypeInv' /\ proc \in [Proc -> ProcState] /\ clock \in Nat
  BY NextType, StampAssumption DEF TempInv, TypeInv, TypeOK
<1>1. ASSUME NEW p \in Proc, NEW u \in Update \cup {NoUpdate}, Call(p, u)
      PROVE  TempInv'
  <2>1. proc'[p].pc = "read" /\ \A q \in Proc \ {p} : proc'[q] = proc[q]
    BY <1>0, <1>1 DEF Call, Idle
  <2>2. UNCHANGED <<temp, clock>>
    BY <1>1 DEF Call
  <2>. QED  BY <1>0, <2>1, <2>2, PlacesOfCallers, LetGo
<1>2. ASSUME NEW p \in Proc, ReadMain(p) \/ Recovery(p) \/ AtomicWrite(p)
      PROVE  TempInv'
  BY <1>0, <1>2, RecoverySound, WriteSound
<1>3. CASE Crash
  <2>1. \A p \in Proc : proc'[p] = Idle
    BY <1>3 DEF Crash
  <2>2. Idle.pc = "idle"
    BY DEF Idle
  <2>3. \A p \in Proc : ~Holding(proc'[p]) /\ ~Begun(proc'[p]) /\ \A f : Sound(proc'[p], f)
    BY <2>1, <2>2, PlacesOfCallers DEF Sound
  <2>4. UNCHANGED <<temp, clock>>
    BY <1>3 DEF Crash
  <2>. QED  BY <1>0, <2>3, <2>4 DEF TempInv, Holding, Begun, Sound
<1>4. CASE UNCHANGED <<temp, clock, proc>>
  <2>1. temp' = temp /\ clock' = clock /\ proc' = proc
    BY <1>4
  <2>. QED  BY <1>0, <2>1 DEF TempInv
<1>. QED  BY <1>1, <1>2, <1>3, <1>4 DEF Next, Corrupt, vars

LEMMA InitTemp == Init => TempInv
<1>. SUFFICES ASSUME Init
              PROVE  TempInv
  OBVIOUS
<1>1. \A p \in Proc : proc[p] = Idle
  BY DEF Init
<1>2. Idle.pc = "idle"
  BY DEF Idle
<1>3. ~Holding(Idle) /\ ~Begun(Idle) /\ \A f : Sound(Idle, f)
  BY <1>2, PlacesOfCallers DEF Sound
<1>4. \A s \in Stamp : temp[s] = None
  BY DEF Init
<1>. QED  BY <1>1, <1>3, <1>4, InitType DEF TempInv

\* Neither a write nor the restoring of a temp file ever turns a whole file into half
\* a one, whatever goes wrong and whoever else writes and recovers meanwhile, if
\* writes have stamps of their own.
THEOREM RenamesKeepWhole ==
  ASSUME Distinct
  PROVE  Spec => WritesKeepWhole
<1>1. ASSUME TempInv, [Next]_vars
      PROVE  [(\E p \in Proc : RestoreTemp(p) \/ AtomicWrite(p)) /\ Whole(main)
                => Whole(main')]_vars
  <2>. SUFFICES ASSUME NEW p \in Proc, RestoreTemp(p) \/ AtomicWrite(p), Whole(main)
                PROVE  Whole(main')
    OBVIOUS
  <2>1. Sound(proc[p], temp[proc[p].stamp])
    BY <1>1 DEF TempInv
  <2>2. CASE RestoreTemp(p)
    BY <2>1, <2>2 DEF RestoreTemp, At, Sound, Whole
  <2>3. CASE Rename(p)
    BY <2>1, <2>3 DEF Rename, At, Sound, Whole
  <2>4. CASE Write(p)
    BY <2>1, <2>4 DEF Write, At, Sound
  <2>5. CASE NoRotation(p) \/ Rotate(p) \/ CopyBackup(p) \/ Open(p) \/ WriteFails(p)
    BY <2>5 DEF NoRotation, Rotate, CopyBackup, Open, WriteFails
  <2>. QED  BY <2>2, <2>3, <2>4, <2>5 DEF AtomicWrite
<1>. QED  BY <1>1, InitTemp, NextTemp, PTL DEF Spec, WritesKeepWhole

-----------------------------------------------------------------------------
(***************************************************************************)
(* The backups of a file that one caller updates, while outsiders damage   *)
(* it between the writes.  The last backup is the first one or, between    *)
(* the turn of the rotation that moves that and the copy, the second.      *)
(***************************************************************************)
LastBackup(s) == IF s.pc = "copy" THEN bak[2] ELSE bak[1]

\* A temp file is there only while it is written and renamed.
TempsPass(s) ==
  /\ \A t \in Stamp : temp[t] # None => s.pc \in {"write", "rename"} /\ t = s.stamp
  /\ s.pc = "write" => s.place = "temp" /\ temp[s.stamp] = Torn
  /\ s.pc = "rename" => temp[s.stamp] = s.data
  /\ s.pc # "restoreTemp"
  /\ s.pc = "temp" => s.todo = {}

\* The recovery takes the last backup, if an update is owed to anybody.
RecoveryTrails(s) ==
  /\ s.pc \in {"scan", "temp", "bak", "restoreBak"} => ~Whole(main)
  /\ s.pc = "restoreBak" => bak[s.next] = s.data
  /\ s.pc \in {"bak", "restoreBak"} /\ done # {} => s.next = 1

\* The write adds its update to the file, of which it has made a backup.
WriteTrails(s) ==
  /\ s.pc \in WritePC => Whole(main) /\ s.data = main \cup {s.update}
  /\ s.pc = "copy" => bak[1] = None
  /\ s.pc \in {"open", "write", "rename"} => bak[1] = main

\* The last backup lacks one update at most, and none when the file is damaged.
LastTrails(s) ==
  done # {} =>
    /\ Whole(LastBackup(s))
    /\ \E u \in Update : done \ LastBackup(s) \subseteq {u}
    /\ ~Whole(main) => done \subseteq LastBackup(s)

TrailInv(w) ==
  /\ TypeInv
  /\ TempsPass(proc[w]) /\ RecoveryTrails(proc[w]) /\ WriteTrails(proc[w])
  /\ LastTrails(proc[w])
  /\ \A i \in Backup : bak[i] # Torn
  /\ Whole(main) => done \subseteq main

LEMMA TrailFacts ==
  ASSUME NEW w, Proc = {w}, MaxBackups >= 2, TrailInv(w)
  PROVE  /\ proc = [p \in Proc |-> proc[p]] /\ w \in Proc /\ proc[w] \in ProcState
         /\ proc \in [Proc -> ProcState]
         /\ temp \in [Stamp -> Content] /\ bak \in [Backup -> Content] /\ main \in Content
         /\ done \in Data /\ MaxBackups \in Nat /\ 1 \in Backup /\ 2 \in Backup
         /\ proc[w].stamp \in Stamp /\ proc[w].data \in Data /\ CallerOK(proc[w])
  BY Fields, BackupsAssumption DEF TrailInv, TypeInv, TypeOK, Backup, Indexed

\* A caller that has its document.
LEMMA GotTrails ==
  ASSUME NEW w, Proc = {w}, MaxBackups >= 2, TrailInv(w), TypeInv',
         Got(proc, w, main'), Whole(main'), done \subseteq main', ~Writing(w),
         UNCHANGED <<temp, bak, done>>
  PROVE  TrailInv(w)'
<1>. USE TrailFacts
<1>1. LastBackup(proc[w]) = bak[1] /\ \A t \in Stamp : temp[t] = None
  BY Members DEF LastBackup, Writing, TrailInv, TempsPass
<1>2. proc'[w].pc \in {"idle", "rotate"}
      /\ (proc'[w].pc = "rotate" => proc'[w].data = main' \cup {proc'[w].update})
  <2>1. CASE proc' = [proc EXCEPT ![w] = Idle]
    <3>1. proc'[w] = Idle
      BY <2>1
    <3>. QED  BY <3>1 DEF Idle
  <2>2. ASSUME NEW s \in Stamp,
               proc' = Enters(proc, w, main', s)
        PROVE  /\ proc'[w].pc = "rotate"
               /\ proc'[w].data = main' \cup {proc'[w].update}
    <3>1. MaxBackups # 0
      OBVIOUS
    <3>2. proc'[w] = [Idle EXCEPT !.pc = "rotate", !.update = proc[w].update,
                                  !.data = main' \cup {proc[w].update},
                                  !.stamp = s, !.next = MaxBackups]
      BY <2>2, <3>1 DEF Enters
    <3>. QED  BY <3>2 DEF Idle
  <2>. QED  BY <2>1, <2>2 DEF Got
<1>3. TempsPass(proc[w])'
  BY <1>1, <1>2 DEF TempsPass
<1>4. RecoveryTrails(proc[w])' /\ WriteTrails(proc[w])'
  BY <1>2, Members DEF RecoveryTrails, WriteTrails
<1>5. LastBackup(proc[w])' = bak[1]
  BY <1>2 DEF LastBackup
<1>6. LastTrails(proc[w])'
  BY <1>1, <1>5 DEF TrailInv, LastTrails
<1>. QED  BY <1>3, <1>4, <1>6 DEF TrailInv

\* A step of the recovery that changes only where the caller is.
LEMMA RecoveryMoves ==
  ASSUME NEW w, Proc = {w}, MaxBackups >= 2, TrailInv(w), TypeInv', ~Writing(w),
         UNCHANGED <<main, temp, bak, done>>,
         proc'[w].pc \in {"idle", "read", "scan", "temp", "bak", "restoreBak"},
         proc'[w].pc = "temp" => proc'[w].todo = {},
         RecoveryTrails(proc[w])'
  PROVE  TrailInv(w)'
<1>1. LastBackup(proc[w]) = bak[1] /\ \A t \in Stamp : temp[t] = None
  BY Members DEF LastBackup, Writing, TrailInv, TempsPass
<1>2. LastBackup(proc[w])' = bak[1]
  BY DEF LastBackup
<1>3. TempsPass(proc[w])' /\ WriteTrails(proc[w])'
  BY <1>1, Members DEF TempsPass, WriteTrails
<1>4. LastTrails(proc[w])'
  BY <1>1, <1>2 DEF TrailInv, LastTrails
<1>. QED  BY <1>3, <1>4 DEF TrailInv

LEMMA ReadTrails ==
  ASSUME NEW w, Proc = {w}, MaxBackups >= 2, TrailInv(w), TypeInv',
         Faults \cap {"readFails", "ignoredFails"} = {}, ReadMain(w) \/ Recovery(w)
  PROVE  TrailInv(w)'
<1>. USE DEF MayFail
<1>0. ~Writing(w)
  BY Members DEF Writing, At, ReadMain, Recovery, ReadDir, ReadTemp, NoTemps, RestoreTemp,
     ReadBackup, RestoreBackup, NothingToRead
<1>00. \A t \in Stamp : temp[t] = None
  BY <1>0, Members DEF Writing, TrailInv, TempsPass
<1>1. CASE ReadMain(w)
  <2>1. CASE Whole(main) /\ Got(proc, w, main)
    <3>1. main' = main /\ UNCHANGED <<temp, bak, done>>
      BY <1>1 DEF ReadMain
    <3>. QED  BY <1>0, <2>1, <3>1, GotTrails DEF TrailInv
  <2>2. CASE ~Whole(main) /\ Goto(w, "scan")
    <3>1. proc'[w].pc = "scan" /\ UNCHANGED <<main, temp, bak, done>>
      BY <1>1, <2>2, TrailFacts DEF ReadMain, Goto, ProcState
    <3>2. RecoveryTrails(proc[w])'
      BY <2>2, <3>1 DEF RecoveryTrails
    <3>. QED  BY <1>0, <3>1, <3>2, RecoveryMoves
  <2>. QED  BY <1>1, <2>1, <2>2 DEF ReadMain
<1>2. CASE ReadDir(w)
  <2>1. /\ proc'[w].pc = "temp" /\ proc'[w].todo = {s \in Stamp : temp[s] # None}
        /\ UNCHANGED <<main, temp, bak, done>>
    BY <1>2, TrailFacts DEF ReadDir, ProcState
  <2>2. ~Whole(main)
    BY <1>2 DEF ReadDir, At, TrailInv, RecoveryTrails
  <2>3. RecoveryTrails(proc[w])' /\ proc'[w].todo = {}
    BY <1>00, <2>1, <2>2 DEF RecoveryTrails
  <2>. QED  BY <1>0, <2>1, <2>3, RecoveryMoves
<1>3. ~ReadTemp(w) /\ ~RestoreTemp(w)
  BY DEF ReadTemp, RestoreTemp, At, TrailInv, TempsPass
<1>4. CASE NoTemps(w)
  <2>1. /\ proc'[w].pc = "bak" /\ proc'[w].next = 1 /\ UNCHANGED <<main, temp, bak, done>>
    BY <1>4, TrailFacts DEF NoTemps, ProcState
  <2>2. ~Whole(main)
    BY <1>4 DEF NoTemps, At, TrailInv, RecoveryTrails
  <2>3. RecoveryTrails(proc[w])'
    BY <2>1, <2>2 DEF RecoveryTrails
  <2>. QED  BY <1>0, <2>1, <2>3, RecoveryMoves
<1>5. CASE ReadBackup(w)
  <2>. DEFINE i == proc[w].next
  <2>0. proc[w].pc = "bak" /\ UNCHANGED <<main, temp, bak, done>> /\ ~Whole(main)
    BY <1>5 DEF ReadBackup, At, TrailInv, RecoveryTrails
  <2>1. CASE Whole(bak[i])
    <3>1. proc'[w].pc = "restoreBak" /\ proc'[w].data = bak[i] /\ proc'[w].next = i
      BY <1>5, <2>1, TrailFacts DEF ReadBackup, ProcState
    <3>2. RecoveryTrails(proc[w])'
      BY <2>0, <3>1 DEF RecoveryTrails, TrailInv
    <3>. QED  BY <1>0, <2>0, <3>1, <3>2, RecoveryMoves
  <2>2. CASE ~Whole(bak[i])
    <3>1. proc'[w].pc = "bak" /\ proc[w].pc = "bak"
      BY <1>5, <2>2, TrailFacts DEF ReadBackup, At, ProcState
    <3>2. done = {}
      <4>1. done # {} => i = 1 /\ Whole(bak[1])
        BY <3>1 DEF TrailInv, RecoveryTrails, LastTrails, LastBackup
      <4>. QED  BY <2>2, <4>1
    <3>3. RecoveryTrails(proc[w])'
      BY <2>0, <3>1, <3>2 DEF RecoveryTrails
    <3>. QED  BY <1>0, <2>0, <3>1, <3>3, RecoveryMoves
  <2>. QED  BY <2>1, <2>2
<1>6. CASE RestoreBackup(w)
  <2>. DEFINE i == proc[w].next
  <2>1. bak[i] = proc[w].data /\ proc[w].pc = "restoreBak"
    BY <1>6 DEF RestoreBackup, At, TrailInv, RecoveryTrails
  <2>2. Whole(bak[i]) /\ bak[i] # None
    BY <2>1, TrailFacts, Contents DEF Whole
  <2>3. main' = bak[i] /\ Got(proc, w, main') /\ UNCHANGED <<temp, bak, done>>
    BY <1>6, <2>1, <2>2 DEF RestoreBackup
  <2>4. done \subseteq bak[i]
    <3>1. done # {} => i = 1 /\ done \subseteq bak[1]
      BY <2>1 DEF TrailInv, RecoveryTrails, LastTrails, LastBackup
    <3>. QED  BY <3>1
  <2>. QED  BY <1>0, <2>2, <2>3, <2>4, GotTrails
<1>7. CASE NothingToRead(w)
  <2>1. proc'[w].pc = "idle" /\ UNCHANGED <<main, temp, bak, done>>
    BY <1>7, TrailFacts DEF NothingToRead, Idle
  <2>2. RecoveryTrails(proc[w])'
    BY <2>1 DEF RecoveryTrails
  <2>. QED  BY <1>0, <2>1, <2>2, RecoveryMoves
<1>. QED  BY <1>1, <1>2, <1>3, <1>4, <1>5, <1>6, <1>7 DEF Recovery

LEMMA WritesTrail ==
  ASSUME NEW w, Proc = {w}, MaxBackups >= 2, "ignoredFails" \notin Faults, TrailInv(w),
         TypeInv', AtomicWrite(w)
  PROVE  TrailInv(w)'
<1>. USE TrailFacts DEF MayFail
<1>. DEFINE s == proc[w].stamp
<1>0. Writing(w)
  BY Members DEF AtomicWrite, NoRotation, Rotate, CopyBackup, Open, Write, Rename, WriteFails,
     At, Writing
<1>1. /\ Whole(main) /\ proc[w].data = main \cup {proc[w].update} /\ done \subseteq main
      /\ proc[w].update \in Update
  BY <1>0 DEF Writing, TrailInv, WriteTrails, CallerOK
<1>02. ~NoRotation(w)
  BY <1>1 DEF NoRotation, Whole
<1>2. CASE Rotate(w)
  <2>. DEFINE i == proc[w].next
  <2>0. /\ proc[w].pc = "rotate" /\ i \in Backup /\ i \in Nat /\ i >= 1
        /\ UNCHANGED <<main, temp, done>>
    BY <1>2 DEF Rotate, At, CallerOK, Backup
  <2>1. /\ proc'[w].pc = IF i = 1 THEN "copy" ELSE "rotate"
        /\ proc'[w].data = proc[w].data /\ proc'[w].update = proc[w].update
    BY <1>2 DEF Rotate, ProcState
  <2>2. \/ bak'[IF i = 1 THEN 2 ELSE 1] = bak[1] /\ (i = 1 => bak'[1] = None)
        \/ i = 1 /\ bak[1] = None /\ bak' = bak
    <3>1. CASE i = MaxBackups
      BY <1>2, <2>0, <3>1 DEF Rotate
    <3>2. CASE i # MaxBackups /\ bak[i] = None
      BY <1>2, <2>0, <3>2 DEF Rotate
    <3>3. CASE i # MaxBackups /\ bak[i] # None
      <4>1. bak' = [bak EXCEPT ![i + 1] = bak[i], ![i] = None] /\ i + 1 # 1 /\ i + 1 # i
        BY <1>2, <2>0, <3>3 DEF Rotate
      <4>. QED  BY <2>0, <4>1
    <3>. QED  BY <3>1, <3>2, <3>3
  <2>3. \A j \in Backup : bak'[j] # Torn
    <3>1. bak' \in {[bak EXCEPT ![i] = None], bak,
                    [bak EXCEPT ![i + 1] = bak[i], ![i] = None]}
      BY <1>2 DEF Rotate
    <3>. QED  BY <2>0, <3>1, Contents DEF TrailInv
  <2>4. TempsPass(proc[w])'
    BY <2>0, <2>1 DEF TrailInv, TempsPass
  <2>5. RecoveryTrails(proc[w])'
    BY <2>1 DEF RecoveryTrails
  <2>6. WriteTrails(proc[w])'
    BY <1>1, <2>0, <2>1, <2>2 DEF WriteTrails
  <2>7. LastTrails(proc[w])'
    <3>1. LastBackup(proc[w]) = bak[1]
      BY <2>0 DEF LastBackup
    <3>2. done # {} => Whole(bak[1]) /\ bak[1] # None
      BY <3>1, Contents DEF TrailInv, LastTrails, Whole
    <3>3. done # {} => LastBackup(proc[w])' = bak[1]
      BY <2>1, <2>2, <3>2 DEF LastBackup
    <3>. QED  BY <2>0, <3>1, <3>3 DEF TrailInv, LastTrails
  <2>. QED  BY <1>1, <2>0, <2>3, <2>4, <2>5, <2>6, <2>7 DEF TrailInv
<1>3. CASE CopyBackup(w)
  <2>1. /\ proc'[w].pc = "open" /\ proc'[w].data = proc[w].data
        /\ proc'[w].update = proc[w].update /\ proc[w].pc = "copy"
    BY <1>3 DEF CopyBackup, Goto, At, ProcState
  <2>2. bak' = [bak EXCEPT ![1] = main] /\ UNCHANGED <<main, temp, done>>
    BY <1>1, <1>3 DEF CopyBackup, Whole
  <2>3. bak'[1] = main /\ \A j \in Backup : bak'[j] # Torn
    BY <1>1, <2>2, Contents DEF TrailInv, Whole
  <2>4. TempsPass(proc[w])' /\ RecoveryTrails(proc[w])' /\ WriteTrails(proc[w])'
    BY <1>1, <2>1, <2>2, <2>3, Members DEF TrailInv, TempsPass, RecoveryTrails, WriteTrails
  <2>5. LastBackup(proc[w])' = main
    BY <2>1, <2>3 DEF LastBackup
  <2>6. LastTrails(proc[w])'
    BY <1>1, <2>2, <2>5 DEF LastTrails
  <2>. QED  BY <1>1, <2>2, <2>3, <2>4, <2>6 DEF TrailInv
\* From here to the rename the last backup is the file.
<1>4. ASSUME proc[w].pc \in {"open", "write", "rename"}
      PROVE  bak[1] = main /\ LastBackup(proc[w]) = main
  BY <1>4 DEF TrailInv, WriteTrails, LastBackup
<1>5. CASE Open(w) \/ Write(w)
  <2>1. /\ proc[w].pc \in {"open", "write"} /\ proc'[w].pc \in {"write", "rename"}
        /\ proc'[w].data = proc[w].data /\ proc'[w].stamp = s
        /\ proc'[w].update = proc[w].update
        /\ Open(w) => proc'[w].pc = "write" /\ proc'[w].place = "temp"
        /\ Write(w) => proc[w].pc = "write" /\ proc'[w].pc = "rename"
    BY <1>5 DEF Open, Write, Goto, At, ProcState
  <2>2. UNCHANGED <<main, bak, done>>
    BY <1>5, <2>1 DEF Open, Write, TrailInv, TempsPass
  <2>3. CASE Open(w)
    <3>1. temp' = [temp EXCEPT ![s] = Torn]
      BY <2>3 DEF Open
    <3>. HIDE DEF s
    <3>2. TempsPass(proc[w])'
      BY <2>1, <2>3, <3>1 DEF TrailInv, TempsPass, s
    <3>. QED
      BY <1>1, <1>4, <2>1, <2>2, <3>2
         DEF TrailInv, RecoveryTrails, WriteTrails, LastTrails, LastBackup
  <2>4. CASE Write(w)
    <3>1. temp' = [temp EXCEPT ![s] = proc[w].data]
      BY <2>1, <2>4 DEF Write, Written, TrailInv, TempsPass
    <3>2. TempsPass(proc[w])'
      BY <2>1, <2>4, <3>1 DEF TrailInv, TempsPass
    <3>. QED
      BY <1>1, <1>4, <2>1, <2>2, <3>2
         DEF TrailInv, RecoveryTrails, WriteTrails, LastTrails, LastBackup
  <2>. QED  BY <1>5, <2>3, <2>4
\* A write that has come to its end, in one way or another.
<1>6. ASSUME proc'[w] = Idle, temp' = [temp EXCEPT ![s] = None], UNCHANGED bak,
             proc[w].pc \in {"open", "write", "rename"},
             main' \in {main, proc[w].data} /\ done' \subseteq main',
             done' \subseteq done \cup {proc[w].update}
      PROVE  TrailInv(w)'
  <2>1. proc'[w].pc = "idle"
    BY <1>6 DEF Idle
  <2>2. TempsPass(proc[w])'
    BY <1>6, <2>1 DEF TrailInv, TempsPass
  <2>3. RecoveryTrails(proc[w])' /\ WriteTrails(proc[w])'
    BY <2>1, Members DEF RecoveryTrails, WriteTrails
  <2>4. LastBackup(proc[w])' = main /\ Whole(main')
    BY <1>1, <1>4, <1>6, <2>1, Contents DEF LastBackup
  <2>5. LastTrails(proc[w])'
    BY <1>1, <1>6, <2>4 DEF LastTrails
  <2>. QED  BY <1>6, <2>2, <2>3, <2>5 DEF TrailInv
<1>7. CASE Rename(w)
  <2>1. proc[w].pc = "rename" /\ temp[s] = proc[w].data /\ temp[s] # None
    BY <1>1, <1>7, Contents DEF Rename, At, TrailInv, TempsPass, Whole
  <2>2. /\ main' = proc[w].data /\ temp' = [temp EXCEPT ![s] = None]
        /\ proc' = [Moved(proc, s) EXCEPT ![w] = Idle] /\ done' = done \cup {proc[w].update}
        /\ UNCHANGED bak
    BY <1>7, <2>1 DEF Rename
  <2>3. proc'[w] = Idle
    BY <2>2, MovedType
  <2>. QED  BY <1>1, <1>6, <2>1, <2>2, <2>3
<1>8. CASE WriteFails(w)
  BY <1>1, <1>6, <1>8 DEF WriteFails
<1>. QED  BY <1>02, <1>2, <1>3, <1>5, <1>7, <1>8 DEF AtomicWrite

LEMMA InitTrail == \A w : Proc = {w} => (Init => TrailInv(w))
<1>. SUFFICES ASSUME NEW w, Proc = {w}, Init
              PROVE  TrailInv(w)
  OBVIOUS
<1>1. proc[w] = Idle /\ Idle.pc = "idle"
  BY DEF Init, Idle
<1>2. done = {} /\ main = {} /\ \A i \in Backup : bak[i] = None
  BY DEF Init
<1>3. TempsPass(proc[w]) /\ RecoveryTrails(proc[w]) /\ WriteTrails(proc[w])
  BY <1>1, Members DEF Init, TempsPass, RecoveryTrails, WriteTrails
<1>. QED  BY <1>2, <1>3, InitType, Contents DEF TrailInv, LastTrails

LEMMA NextTrail ==
  ASSUME NEW w, Proc = {w}, MaxBackups >= 2,
         Faults \cap {"crash", "readFails", "ignoredFails"} = {}
  PROVE  TrailInv(w) /\ [Next]_vars => TrailInv(w)'
<1>. SUFFICES ASSUME TrailInv(w), [Next]_vars
              PROVE  TrailInv(w)'
  OBVIOUS
<1>0. TypeInv'
  BY NextType DEF TrailInv
<1>. USE TrailFacts
<1>1. ASSUME NEW u \in Update \cup {NoUpdate}, Call(w, u)
      PROVE  TrailInv(w)'
  <2>1. /\ proc'[w].pc = "read" /\ UNCHANGED <<main, temp, bak, done>> /\ ~Writing(w)
    BY <1>1, Members DEF Call, Idle, At, Writing
  <2>2. RecoveryTrails(proc[w])'
    BY <2>1 DEF RecoveryTrails
  <2>. QED  BY <1>0, <2>1, <2>2, RecoveryMoves
<1>2. CASE ReadMain(w) \/ Recovery(w)
  BY <1>0, <1>2, ReadTrails
<1>3. CASE AtomicWrite(w)
  BY <1>0, <1>3, WritesTrail
<1>4. CASE Corrupt
  <2>1. /\ ~Writing(w) /\ Whole(main) /\ main' = Torn /\ UNCHANGED <<temp, bak, proc>>
        /\ done' = IF Recoverable = None THEN {} ELSE done \cap Recoverable
    BY <1>4 DEF Corrupt
  <2>2. /\ LastBackup(proc[w]) = bak[1] /\ LastBackup(proc[w])' = bak[1]
        /\ \A t \in Stamp : temp[t] = None
    BY <2>1, Members DEF Writing, LastBackup, TrailInv, TempsPass
  <2>3. done' # {} => Whole(bak[1]) /\ done' \subseteq bak[1]
    <3>. SUFFICES ASSUME done' # {}
                  PROVE  Whole(bak[1]) /\ done' \subseteq bak[1]
      OBVIOUS
    <3>1. done # {} /\ done' = done \cap Recoverable
      BY <2>1
    <3>2. Whole(bak[1])
      BY <2>2, <3>1 DEF TrailInv, LastTrails
    <3>. DEFINE baks == {i \in Backup : Whole(bak[i])}
    <3>3. 1 \in baks /\ \A i \in baks : i \in Nat /\ 1 <= i
      BY <3>2, BackupsAssumption DEF Backup
    <3>4. {t \in Stamp : Whole(temp[t])} = {}
      BY <2>2, Contents
    <3>5. Recoverable = bak[CHOOSE i \in baks : \A j \in baks : i <= j]
      BY <3>3, <3>4 DEF Recoverable
    <3>6. (CHOOSE i \in baks : \A j \in baks : i <= j) = 1
      <4>. HIDE DEF baks
      <4>. QED  BY <3>3
    <3>. QED  BY <3>1, <3>2, <3>5, <3>6
  <2>4. ~Whole(main') /\ done' \subseteq done
    BY <2>1, Contents
  <2>5. TempsPass(proc[w])'
    BY <2>1 DEF TrailInv, TempsPass
  <2>6. RecoveryTrails(proc[w])' /\ WriteTrails(proc[w])'
    BY <2>1, <2>4, Members DEF TrailInv, RecoveryTrails, WriteTrails, Writing
  <2>7. LastTrails(proc[w])'
    <3>1. done' # {} => \E u \in Update : done' \ bak[1] \subseteq {u}
      <4>1. done' # {} => done # {}
        BY <2>4
      <4>. QED  BY <2>3, <4>1 DEF TrailInv, LastTrails
    <3>. QED  BY <2>2, <2>3, <3>1 DEF LastTrails
  <2>. QED  BY <1>0, <2>1, <2>4, <2>5, <2>6, <2>7 DEF TrailInv
<1>5. CASE UNCHANGED vars
  <2>1. UNCHANGED <<main, temp, bak, proc, done>>
    BY <1>5 DEF vars
  <2>. QED
    BY <1>0, <2>1 DEF TrailInv, TempsPass, RecoveryTrails, WriteTrails, LastTrails, LastBackup
<1>6. ~Crash
  BY DEF Crash, MayFail
<1>. QED  BY <1>1, <1>2, <1>3, <1>4, <1>5, <1>6 DEF Next

\* What the recovery would return is the document of the write that is about to be
\* renamed, or else the last backup.
LEMMA WhatIsRecovered ==
  ASSUME NEW w, Proc = {w}, MaxBackups >= 2, TrailInv(w), done # {}
  PROVE  Whole(Recoverable) /\ \E u \in Update : done \ Recoverable \subseteq {u}
<1>. USE TrailFacts
<1>. DEFINE temps == {t \in Stamp : Whole(temp[t])}
            baks == {i \in Backup : Whole(bak[i])}
            s == proc[w].stamp
<1>0. Whole(LastBackup(proc[w])) /\ \E u \in Update : done \ LastBackup(proc[w]) \subseteq {u}
  BY DEF TrailInv, LastTrails
<1>1. CASE temps # {}
  <2>1. PICK t \in Stamp : Whole(temp[t])
    BY <1>1
  <2>2. proc[w].pc = "rename" /\ temps = {s} /\ temp[s] = proc[w].data
    <3>1. proc[w].pc \in {"write", "rename"} /\ t = s
      BY <2>1, Contents DEF TrailInv, TempsPass
    <3>2. proc[w].pc # "write"
      BY <2>1, <3>1, Contents DEF TrailInv, TempsPass
    <3>3. \A r \in Stamp : Whole(temp[r]) => r = s
      BY Contents DEF TrailInv, TempsPass
    <3>. QED  BY <2>1, <3>1, <3>2, <3>3 DEF TrailInv, TempsPass
  <2>3. Newest(temps) = s
    <3>. HIDE DEF s
    <3>. QED  BY <1>1, <2>2, NewestMember
  <2>4. Recoverable = proc[w].data
    <3>1. Recoverable = temp[Newest(temps)]
      BY <1>1 DEF Recoverable
    <3>. HIDE DEF temps, s
    <3>. QED  BY <2>2, <2>3, <3>1
  <2>5. done \subseteq proc[w].data
    BY <2>2 DEF TrailInv, WriteTrails, WritePC
  <2>. QED  BY <1>0, <2>4, <2>5, Contents
<1>2. CASE temps = {}
  <2>1. /\ \A i \in baks : i \in Nat /\ 1 <= i
        /\ LastBackup(proc[w]) = IF proc[w].pc = "copy" THEN bak[2] ELSE bak[1]
    BY DEF Backup, LastBackup
  <2>2. PICK i \in {1, 2} : LastBackup(proc[w]) = bak[i] /\ i \in baks /\ \A j \in baks : i <= j
    <3>1. CASE proc[w].pc = "copy"
      <4>1. 2 \in baks /\ 1 \notin baks
        BY <1>0, <2>1, <3>1, Contents DEF TrailInv, WriteTrails
      <4>. QED  BY <2>1, <3>1, <4>1
    <3>2. CASE proc[w].pc # "copy"
      <4>1. 1 \in baks
        BY <1>0, <2>1, <3>2
      <4>. QED  BY <2>1, <3>2, <4>1
    <3>. QED  BY <3>1, <3>2
  <2>3. (CHOOSE j \in baks : \A k \in baks : j <= k) = i
    <3>. HIDE DEF baks
    <3>. QED  BY <2>1, <2>2
  <2>4. Recoverable = bak[CHOOSE j \in baks : \A k \in baks : j <= k]
    BY <1>2, <2>2 DEF Recoverable
  <2>5. Recoverable = LastBackup(proc[w])
    BY <2>2, <2>3, <2>4
  <2>. QED  BY <1>0, <2>5
<1>. QED  BY <1>1, <1>2

\* Should the file become unreadable at any time, the recovery returns a document
\* that lacks one completed update at most, as long as there is one caller, at
\* least two backups, and no crash, no read that fails and no failure that the
\* code ignores.
THEOREM BackupsAlwaysTrail ==
  ASSUME NEW w, Proc = {w}, MaxBackups >= 2,
         Faults \cap {"crash", "readFails", "ignoredFails"} = {}
  PROVE  Spec => []BackupsTrail
<1>1. ASSUME TrailInv(w)
      PROVE  BackupsTrail
  <2>. SUFFICES ASSUME done # {}
                PROVE  Whole(Recoverable) /\ Cardinality(done \ Recoverable) <= 1
    BY DEF BackupsTrail
  <2>1. Whole(Recoverable)
    BY <1>1, WhatIsRecovered
  <2>2. PICK u \in Update : done \ Recoverable \subseteq {u}
    BY <1>1, WhatIsRecovered
  <2>3. IsFiniteSet({u}) /\ Cardinality({u}) = 1
    BY FS_Singleton
  <2>4. Cardinality(done \ Recoverable) <= Cardinality({u})
    BY <2>2, <2>3, FS_Subset
  <2>. QED  BY <2>1, <2>3, <2>4
<1>2. (Init => TrailInv(w)) /\ (TrailInv(w) /\ [Next]_vars => TrailInv(w)')
  BY InitTrail, NextTrail
<1>. QED  BY <1>1, <1>2, PTL DEF Spec
=============================================================================
