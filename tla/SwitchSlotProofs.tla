-------------------------- MODULE SwitchSlotProofs --------------------------
(***************************************************************************)
(* Proofs about SwitchSlot, for any number of storages, pairs, partition   *)
(* types, write errors and runs, and any contents of the tables.           *)
(***************************************************************************)
EXTENDS SwitchSlot, FiniteSetTheorems, TLAPS

USE DEF Copy, Part, Slot

\* The arrays in memory have the shape of the storage they were read from
\* while a run is past loading.
Busy == {"detect", "switch", "confirm", "commit", "bootlu", "rollback", "success"}

Loaded ==
  pc \in Busy => \A d \in loaded, c \in Copy :
                   mem[d][c] \in Table(d) /\ orig[d][c] \in Table(d)

\* The loops stand on a modified storage, and those are loaded ones.
LoopsInRange ==
  /\ pc \in Busy => modified \subseteq loaded
  /\ Writing => at \in modified
  /\ pc = "load" => modified = {}

TypeInv == TypeOK /\ Loaded /\ LoopsInRange

-----------------------------------------------------------------------------
\* A write stores a table of the storage, so the storage stays typed.
LEMMA PutTyped ==
  ASSUME ConstantsAssumption, TypedDisk, at \in Disk, step \in 1..FlushStep,
         NEW x \in Table(at) \union {Torn}
  PROVE  /\ Put(x) \in [Disk -> [Copy -> [Part -> Tables \union {Torn}]]]
         /\ \A d \in Disk, c \in Copy, p \in Part :
              Put(x)[d][c][p] \in Table(d) \union {Torn}
<1>1. CopyAt(step) \in Copy /\ PartAt(step) \in Part
  BY DEF CopyAt, PartAt
<1>2. x \in Tables \union {Torn}
  BY DEF Tables
<1>3. Put(x) \in [Disk -> [Copy -> [Part -> Tables \union {Torn}]]]
  BY <1>1, <1>2 DEF Put, TypedDisk
<1>4. ASSUME NEW d \in Disk, NEW c \in Copy, NEW p \in Part
      PROVE  Put(x)[d][c][p] \in Table(d) \union {Torn}
  <2>1. CASE d = at /\ c = CopyAt(step) /\ p = PartAt(step)
    BY <2>1 DEF Put, TypedDisk
  <2>2. CASE ~(d = at /\ c = CopyAt(step) /\ p = PartAt(step))
    <3>1. Put(x)[d][c][p] = disk[d][c][p]
      BY <1>1, <2>2 DEF Put, TypedDisk
    <3>2. QED  BY <3>1 DEF TypedDisk
  <2>3. QED  BY <2>1, <2>2
<1>5. QED  BY <1>3, <1>4

\* What CommitGptDisk is about to write is a table of the storage.
LEMMA GoalTyped ==
  ASSUME ConstantsAssumption, TypeInv, Writing
  PROVE  \A c \in Copy : Goal(at)[c] \in Table(at)
BY DEF TypeInv, Loaded, LoopsInRange, Writing, Goal, Busy

LEMMA InterruptedTyped ==
  ASSUME ConstantsAssumption, TypeInv, Writing, disk' \in Interrupted
  PROVE  TypedDisk'
<1>1. TypedDisk /\ at \in Disk /\ step \in 1..FlushStep
  BY DEF TypeInv, TypeOK
<1>2. Goal(at)[CopyAt(step)] \in Table(at)
  BY GoalTyped DEF CopyAt
<1>3. disk' = disk \/ \E x \in Table(at) \union {Torn} : disk' = Put(x)
  BY <1>2 DEF Interrupted
<1>4. QED
  BY <1>1, <1>3, PutTyped DEF TypedDisk

\* The pairs SwitchAllGptPairs changes have both partitions in memory, so
\* the new entries are well-formed.
LEMMA SwitchedTyped ==
  ASSUME ConstantsAssumption, TypeInv, pc = "switch",
         NEW d \in loaded, NEW c \in Copy
  PROVE  [e \in EntriesOn(d) |-> SwitchEntry(e, mem[d][c][e])] \in Table(d)
<1> SUFFICES ASSUME NEW e \in EntriesOn(d)
             PROVE  SwitchEntry(e, mem[d][c][e]) \in Partition
  BY DEF Table
<1>1. e[1] \in Pairs /\ e[2] \in Slot /\ Other(e[2]) \in Slot
  BY DEF EntriesOn, Entry, Other
<1>2. mem[d][c][e] \in Partition
  BY DEF TypeInv, Loaded, Busy, Table
<1>3. CASE e[1] \in Switched
  <2> DEFINE home == Home[e[1]][Other(e[2])]
             twin == <<e[1], Other(e[2])>>
  <2>1. home \in loaded /\ home \in Disk
    BY <1>1, <1>3 DEF Switched, PairLoaded, ConstantsAssumption
  <2>2. twin \in EntriesOn(home)
    BY <1>1 DEF EntriesOn, Entry, HomeOf
  <2>3. mem[home]["primary"] \in Table(home)
    BY <2>1 DEF TypeInv, Loaded, Busy
  <2>4. Primary(e[1], Other(e[2])).type \in Guids
    BY <2>2, <2>3 DEF Primary, Table, Partition
  <2>5. QED
    BY <1>2, <1>3, <2>4 DEF SwitchEntry, Partition
<1>4. CASE e[1] \notin Switched
  BY <1>2, <1>4 DEF SwitchEntry
<1>5. QED  BY <1>3, <1>4

LEMMA LoadTyped ==
  ASSUME ConstantsAssumption, TypedDisk, NEW S \in SUBSET Disk,
         \A d \in S : BothValid(d)
  PROVE  /\ TypedImage([d \in Disk |-> [c \in Copy |->
                 IF d \in S THEN disk[d][c]["entries"] ELSE NoTable]])
         /\ \A d \in S, c \in Copy : disk[d][c]["entries"] \in Table(d)
<1>1. \A d \in S, c \in Copy : disk[d][c]["entries"] \in Table(d)
  BY DEF TypedDisk, BothValid, Valid
<1>2. \A d \in S, c \in Copy : disk[d][c]["entries"] \in Tables
  BY <1>1 DEF Tables
<1>3. QED
  BY <1>1, <1>2 DEF TypedImage

LEMMA NoTablesTyped == TypedImage(NoTables)
BY DEF TypedImage, NoTables

LEMMA RestoredTyped ==
  ASSUME ConstantsAssumption, TypedDisk, NEW d \in Disk, Readable(d)
  PROVE  View(d) \in Table(d) /\ View(d) \in Tables
<1>1. View(d) \in Table(d)
  BY DEF View, Readable, Valid, TypedDisk
<1>2. QED  BY <1>1 DEF Tables

LEMMA DiskInNat == Disk \subseteq Nat
BY DEF Disk

LEMMA Bounds == 1 \in Disk /\ 0 \in 0..MaxFaults
BY ConstantsAssumption DEF ConstantsAssumption, Disk

LEMMA InitTypeInv == Init => TypeInv
<1> SUFFICES ASSUME Init PROVE TypeInv
  OBVIOUS
<1>1. TypedDisk
  <2>1. PICK tables \in InitialTables :
          disk = [d \in Disk |-> [c \in Copy |-> [p \in Part |-> tables[d][c]]]]
    BY DEF Init
  <2>2. \A d \in Disk, c \in Copy : tables[d][c] \in Table(d) /\ tables[d][c] \in Tables
    BY <2>1, ConstantsAssumption DEF Tables
  <2>3. QED  BY <2>1, <2>2 DEF TypedDisk
<1>2. TypeOK
  <2>1. TypedImage(mem) /\ TypedImage(orig)
    BY NoTablesTyped DEF Init
  <2>2. at \in Disk /\ faults \in 0..MaxFaults
    BY Bounds DEF Init
  <2>3. rbFailed \in BOOLEAN
    BY DEF Init
  <2>4. QED  BY <1>1, <2>1, <2>2, <2>3 DEF Init, TypeOK, Phase, Idle, FlushStep
<1>3. QED
  BY <1>2 DEF Init, TypeInv, Loaded, LoopsInRange, Busy, Writing

LEMMA NextTypeInv == TypeInv /\ [Next]_vars => TypeInv'
<1> SUFFICES ASSUME TypeInv, [Next]_vars PROVE TypeInv'
  OBVIOUS
<1> USE ConstantsAssumption
<1>1. ASSUME NEW unreadable \in SUBSET Disk, LoadGptDisks(unreadable)
      PROVE  TypeInv'
  <2> DEFINE S == {d \in Disk \ unreadable : BothValid(d)}
  <2>1. /\ TypedImage([d \in Disk |-> [c \in Copy |->
                 IF d \in S THEN disk[d][c]["entries"] ELSE NoTable]])
        /\ \A d \in S, c \in Copy : disk[d][c]["entries"] \in Table(d)
    <3> HIDE DEF S
    <3>1. S \in SUBSET Disk /\ \A d \in S : BothValid(d)
      BY DEF S
    <3>2. QED  BY <3>1, LoadTyped DEF TypeInv, TypeOK
  <2>2. TypedImage(mem)' /\ TypedImage(orig)'
    BY <1>1, <2>1 DEF LoadGptDisks, TypedImage
  <2>3. TypeOK'
    BY <1>1, <2>2 DEF LoadGptDisks, storage, TypeInv, TypeOK, TypedDisk, Phase, Idle
  <2>4. Loaded'
    BY <1>1, <2>1 DEF LoadGptDisks, Loaded
  <2>5. LoopsInRange'
    <3>1. modified = {}
      BY <1>1 DEF LoadGptDisks, TypeInv, LoopsInRange
    <3>2. QED  BY <1>1, <3>1 DEF LoadGptDisks, LoopsInRange, Writing
  <2>6. QED  BY <2>3, <2>4, <2>5 DEF TypeInv
<1>2. CASE LoadOutOfMemory
  BY <1>2 DEF LoadOutOfMemory, storage, memory, TypeInv, TypeOK, TypedDisk,
              TypedImage, Loaded, LoopsInRange, Busy, Writing, Phase, Idle
<1>3. CASE DetectActiveSlot
  BY <1>3 DEF DetectActiveSlot, storage, TypeInv, TypeOK, TypedDisk,
              TypedImage, Loaded, LoopsInRange, Busy, Writing, Phase, Idle
<1>4. CASE SwitchAllGptPairs
  <2>1. CASE pc' = "confirm"
    <3>1. \A d \in loaded, c \in Copy :
            mem'[d][c] \in Table(d) /\ mem'[d][c] \in Tables
      <4> TAKE d \in loaded, c \in Copy
      <4>1. mem'[d][c] = [e \in EntriesOn(d) |-> SwitchEntry(e, mem[d][c][e])]
        BY <1>4, <2>1 DEF SwitchAllGptPairs, TypeInv, TypeOK
      <4>2. mem'[d][c] \in Table(d)
        <5>1. pc = "switch"
          BY <1>4 DEF SwitchAllGptPairs
        <5>2. [e \in EntriesOn(d) |-> SwitchEntry(e, mem[d][c][e])] \in Table(d)
          BY <5>1, SwitchedTyped
        <5>3. QED  BY <4>1, <5>2
      <4>3. QED  BY <4>2 DEF Tables, TypeInv, TypeOK
    <3>2. TypedImage(mem')
      BY <1>4, <2>1, <3>1 DEF SwitchAllGptPairs, TypedImage
    <3>3. modified' \subseteq loaded
      <4>1. modified' = TouchedDisks
        BY <1>4, <2>1 DEF SwitchAllGptPairs
      <4>2. TouchedDisks \subseteq loaded
        BY DEF TouchedDisks, Switched, PairLoaded
      <4>3. QED  BY <4>1, <4>2
    <3>4. QED
      BY <1>4, <2>1, <3>1, <3>2, <3>3
         DEF SwitchAllGptPairs, storage, TypeInv, TypeOK, TypedDisk, TypedImage,
             Loaded, LoopsInRange, Busy, Writing, Phase, Idle
  <2>2. CASE pc' = "failed" /\ UNCHANGED <<mem, modified>>
    BY <1>4, <2>2 DEF SwitchAllGptPairs, storage, TypeInv, TypeOK, TypedDisk,
              TypedImage, Loaded, LoopsInRange, Busy, Writing, Phase, Idle
  <2>3. QED  BY <1>4, <2>1, <2>2 DEF SwitchAllGptPairs
<1>5. CASE Confirm
  BY <1>5 DEF Confirm, First, storage, memory, TypeInv, TypeOK, TypedDisk,
              TypedImage, Loaded, LoopsInRange, Busy, Writing, Phase, Idle, FlushStep
<1>6. CASE Cancel
  BY <1>6 DEF Cancel, storage, memory, TypeInv, TypeOK, TypedDisk,
              TypedImage, Loaded, LoopsInRange, Busy, Writing, Phase, Idle
<1>7. CASE WriteRegion
  <2>1. TypedDisk'
    BY <1>7, InterruptedTyped DEF WriteRegion, Interrupted, FlushStep, TypeInv, TypeOK
  <2>2. QED
    BY <1>7, <2>1 DEF WriteRegion, memory, TypeInv, TypeOK,
              TypedImage, Loaded, LoopsInRange, Busy, Writing, Phase, Idle, FlushStep
<1>8. CASE FlushBlocks
  BY <1>8 DEF FlushBlocks, NextDisk, Remaining, First, storage, memory, TypeInv,
              TypeOK, TypedDisk, TypedImage, Loaded, LoopsInRange, Busy, Writing,
              Phase, Idle, FlushStep
<1>9. CASE CommitFails
  <2>1. TypedDisk'
    BY <1>9, InterruptedTyped DEF CommitFails, Writing
  <2>2. QED
    BY <1>9, <2>1 DEF CommitFails, StartRollback, First, memory, TypeInv, TypeOK,
              TypedImage, Loaded, LoopsInRange, Busy, Writing, Phase, Idle, FlushStep
<1>10. CASE RollbackFails
  <2>1. TypedDisk'
    BY <1>10, InterruptedTyped DEF RollbackFails, Writing
  <2>2. QED
    BY <1>10, <2>1 DEF RollbackFails, NextDisk, Remaining, First, TypeInv, TypeOK,
              TypedImage, Loaded, LoopsInRange, Busy, Writing, Phase, Idle, FlushStep
<1>11. CASE SetUfsBootLu
  BY <1>11 DEF SetUfsBootLu, Target, Other, memory, TypeInv, TypeOK, TypedDisk,
              TypedImage, Loaded, LoopsInRange, Busy, Writing, Phase, Idle
<1>12. CASE SetUfsBootLuFails
  BY <1>12 DEF SetUfsBootLuFails, StartRollback, First, storage, memory, TypeInv,
              TypeOK, TypedDisk, TypedImage, Loaded, LoopsInRange, Busy, Writing,
              Phase, Idle, FlushStep
<1>13. CASE PowerCut
  <2>1. TypedDisk'
    BY <1>13, InterruptedTyped DEF PowerCut, TypeInv, TypeOK, TypedDisk
  <2>2. QED
    BY <1>13, <2>1 DEF PowerCut, memory, TypeInv, TypeOK,
              TypedImage, Loaded, LoopsInRange, Busy, Writing, Phase, Idle
<1>14. CASE StartAgain
  <2>1. TypedImage(mem)' /\ TypedImage(orig)'
    BY <1>14, NoTablesTyped DEF StartAgain, Forget, TypedImage
  <2>2. at' \in Disk
    BY <1>14, Bounds DEF StartAgain, Forget
  <2>3. rbFailed' \in BOOLEAN
    BY <1>14 DEF StartAgain, Forget
  <2>4. QED
    BY <1>14, <2>1, <2>2, <2>3 DEF StartAgain, Forget, storage, TypeInv, TypeOK, TypedDisk,
              TypedImage, Loaded, LoopsInRange, Busy, Writing, Phase, Idle, FlushStep
<1>15. ASSUME NEW repaired \in SUBSET Damaged, PowerOn(repaired)
       PROVE  TypeInv'
  <2>1. \A d \in repaired : d \in Disk /\ View(d) \in Table(d) /\ View(d) \in Tables
    BY RestoredTyped DEF Damaged, TypeInv, TypeOK
  <2>2. TypedDisk'
    BY <1>15, <2>1 DEF PowerOn, RestoreGpt, TypedDisk, TypeInv, TypeOK
  <2>3. TypedImage(mem)' /\ TypedImage(orig)'
    BY <1>15, NoTablesTyped DEF PowerOn, Forget, TypedImage
  <2>4. at' \in Disk
    BY <1>15, Bounds DEF PowerOn, Forget
  <2>5. rbFailed' \in BOOLEAN
    BY <1>15 DEF PowerOn, Forget
  <2>6. QED
    BY <1>15, <2>2, <2>3, <2>4, <2>5 DEF PowerOn, Forget, TypeInv, TypeOK,
              TypedImage, Loaded, LoopsInRange, Busy, Writing, Phase, Idle, FlushStep
<1>16. CASE UNCHANGED vars
  BY <1>16 DEF vars, TypeInv, TypeOK, TypedDisk,
              TypedImage, Loaded, LoopsInRange, Busy, Writing
<1>17. QED
  BY <1>1, <1>2, <1>3, <1>4, <1>5, <1>6, <1>7, <1>8, <1>9, <1>10, <1>11, <1>12,
     <1>13, <1>14, <1>15, <1>16 DEF Next, Program, Environment

(***************************************************************************)
(* The variables keep their types: in particular CommitGptDisk only ever   *)
(* writes a table of the storage it writes to.                             *)
(***************************************************************************)
THEOREM TypeCorrect == Spec => []TypeOK
<1>1. Spec => []TypeInv
  BY InitTypeInv, NextTypeInv, PTL DEF Spec
<1>2. TypeInv => TypeOK
  BY DEF TypeInv
<1>3. QED  BY <1>1, <1>2, PTL

-----------------------------------------------------------------------------
(***************************************************************************)
(* Power cuts.  Without a write error, a storage that is not being written *)
(* has both copies valid, and the one being written has the copy valid     *)
(* that its writes do not touch.  That is inductive and leaves a readable  *)
(* copy at every point of CommitGptDisk.                                   *)
(***************************************************************************)
OtherCopyIsValid ==
  /\ step \in {1, 2} => Valid(disk[at]["primary"])
  /\ step \in {1, 3, 4, 5} => Valid(disk[at]["backup"])
  /\ step = 5 => Valid(disk[at]["primary"])

EntriesAreWritten ==
  /\ step = 2 => disk[at]["backup"]["entries"] = Goal(at)["backup"]
  /\ step = 4 => disk[at]["primary"]["entries"] = Goal(at)["primary"]

MediumInv ==
  faults = 0 =>
    /\ \A d \in Disk : Readable(d)
    /\ pc \in Busy => \A d \in loaded : (Writing /\ d = at) \/ BothValid(d)
    /\ Writing => OtherCopyIsValid /\ EntriesAreWritten

LEMMA PutValue ==
  ASSUME TypeInv, NEW x
  PROVE  \A d \in Disk, c \in Copy, p \in Part :
           Put(x)[d][c][p] = IF d = at /\ c = CopyAt(step) /\ p = PartAt(step)
                             THEN x ELSE disk[d][c][p]
BY DEF TypeInv, TypeOK, TypedDisk, Put, CopyAt, PartAt

\* The copy that the current write does not touch.
LEMMA InterruptedKeepsCopy ==
  ASSUME TypeInv, NEW new \in Interrupted
  PROVE  /\ \A d \in Disk \ {at}, c \in Copy : Valid(new[d][c]) <=> Valid(disk[d][c])
         /\ \A c \in Copy \ {CopyAt(step)} : Valid(new[at][c]) <=> Valid(disk[at][c])
<1>1. new = disk \/ \E x : new = Put(x)
  BY DEF Interrupted
<1>2. ASSUME NEW x, new = Put(x), NEW d \in Disk, NEW c \in Copy,
             ~(d = at /\ c = CopyAt(step))
      PROVE  Valid(new[d][c]) <=> Valid(disk[d][c])
  BY <1>2, PutValue DEF Valid
<1>3. at \in Disk
  BY DEF TypeInv, TypeOK
<1>4. QED  BY <1>1, <1>2, <1>3

LEMMA InitMediumInv == Init => MediumInv
<1> SUFFICES ASSUME Init PROVE MediumInv
  OBVIOUS
<1>1. PICK tables \in InitialTables :
        disk = [d \in Disk |-> [c \in Copy |-> [p \in Part |-> tables[d][c]]]]
  BY DEF Init
<1>2. \A d \in Disk, c \in Copy : tables[d][c] # Torn
  BY <1>1, ConstantsAssumption DEF Tables
<1>3. \A d \in Disk : Readable(d)
  BY <1>1, <1>2 DEF Readable, Valid
<1>4. QED
  BY <1>3 DEF Init, MediumInv, Busy, Writing

LEMMA NextMediumInv == TypeInv /\ MediumInv /\ [Next]_vars => MediumInv'
<1> SUFFICES ASSUME TypeInv, MediumInv, [Next]_vars, faults' = 0 PROVE MediumInv'
  BY DEF MediumInv
<1> USE ConstantsAssumption
<1>1. faults = 0
  BY DEF TypeInv, TypeOK, Next, Program, Environment, vars, LoadGptDisks,
         LoadOutOfMemory, DetectActiveSlot, SwitchAllGptPairs, WriteRegion,
         FlushBlocks, CommitFails, RollbackFails, SetUfsBootLu, SetUfsBootLuFails,
         Confirm, Cancel, PowerCut, StartAgain, PowerOn
<1>2. /\ \A d \in Disk : Readable(d)
      /\ pc \in Busy => \A d \in loaded : (Writing /\ d = at) \/ BothValid(d)
      /\ Writing => OtherCopyIsValid /\ EntriesAreWritten
  BY <1>1 DEF MediumInv
<1>3. loaded \subseteq Disk /\ modified \subseteq Disk /\ at \in Disk /\ step \in 1..5
  BY DEF TypeInv, TypeOK, FlushStep
<1>0. ASSUME UNCHANGED disk
      PROVE  \A d \in Disk : Readable(d)' /\ (BothValid(d)' <=> BothValid(d))
  BY <1>2, <1>0 DEF Readable, BothValid
<1>4. ASSUME NEW unreadable \in SUBSET Disk, LoadGptDisks(unreadable)
      PROVE  MediumInv'
  BY <1>0, <1>3, <1>4 DEF LoadGptDisks, storage, MediumInv, Writing
<1>5. CASE LoadOutOfMemory \/ Cancel \/ SetUfsBootLu \/ StartAgain
  <2>1. CASE SetUfsBootLu
    <3>1. pc = "bootlu" /\ pc' = "success" /\ UNCHANGED <<disk, loaded>>
      BY <2>1 DEF SetUfsBootLu, memory
    <3>2. \A d \in loaded : BothValid(d)
      BY <1>2, <3>1 DEF Busy, Writing
    <3>3. QED  BY <1>0, <1>3, <3>1, <3>2 DEF MediumInv, Writing
  <2>2. CASE LoadOutOfMemory \/ Cancel \/ StartAgain
    BY <1>0, <1>3, <2>2 DEF LoadOutOfMemory, Cancel, StartAgain, storage, MediumInv, Writing, Busy
  <2>3. QED  BY <1>5, <2>1, <2>2
<1>6. CASE DetectActiveSlot
  BY <1>2, <1>0, <1>3, <1>6 DEF DetectActiveSlot, storage, MediumInv, Writing, Busy
<1>7. CASE SwitchAllGptPairs
  BY <1>2, <1>0, <1>3, <1>7 DEF SwitchAllGptPairs, storage, MediumInv, Writing, Busy
<1>8. CASE Confirm \/ SetUfsBootLuFails
  <2>1. at' \in modified /\ modified \subseteq loaded /\ step' = 1 /\ UNCHANGED <<disk, loaded>>
    BY <1>8 DEF Confirm, SetUfsBootLuFails, StartRollback, First, storage, memory,
                TypeInv, LoopsInRange, Busy
  <2>2. \A d \in loaded : BothValid(d)
    BY <1>2, <1>8 DEF Confirm, SetUfsBootLuFails, Writing, Busy
  <2>3. OtherCopyIsValid' /\ EntriesAreWritten'
    BY <2>1, <2>2 DEF OtherCopyIsValid, EntriesAreWritten, BothValid
  <2>4. QED
    BY <1>0, <1>3, <2>1, <2>2, <2>3 DEF MediumInv
<1>9. CASE WriteRegion
  <2>1. /\ disk' = Put(Goal(at)[CopyAt(step)]) /\ step' = step + 1 /\ step \in 1..4
        /\ UNCHANGED <<at, pc, loaded, modified, mem, orig>> /\ Writing /\ Writing'
    BY <1>9 DEF WriteRegion, FlushStep, memory, TypeInv, TypeOK, Writing
  <2>2. \A d \in Disk, c \in Copy, p \in Part :
           disk'[d][c][p] = IF d = at /\ c = CopyAt(step) /\ p = PartAt(step)
                            THEN Goal(at)[CopyAt(step)] ELSE disk[d][c][p]
    BY <2>1, PutValue
  <2>3. at \in Disk /\ Goal(at)' = Goal(at)
    BY <2>1 DEF TypeInv, TypeOK, Goal
  <2>4. \A c \in Copy : Goal(at)[c] # Torn
    BY <2>1, <2>3, GoalTyped DEF ConstantsAssumption, Tables
  <2>5. OtherCopyIsValid /\ EntriesAreWritten
    BY <1>2, <2>1
  <2>6. EntriesAreWritten'
    BY <2>1, <2>2, <2>3 DEF EntriesAreWritten, CopyAt, PartAt
  <2>7. OtherCopyIsValid'
    <3>1. CASE step = 1
      BY <3>1, <2>1, <2>2, <2>3, <2>5 DEF OtherCopyIsValid, CopyAt, PartAt, Valid
    <3>2. CASE step = 2
      BY <3>2, <2>1, <2>2, <2>3, <2>4, <2>5
         DEF OtherCopyIsValid, EntriesAreWritten, CopyAt, PartAt, Valid
    <3>3. CASE step = 3
      BY <3>3, <2>1, <2>2, <2>3, <2>5 DEF OtherCopyIsValid, CopyAt, PartAt, Valid
    <3>4. CASE step = 4
      BY <3>4, <2>1, <2>2, <2>3, <2>4, <2>5
         DEF OtherCopyIsValid, EntriesAreWritten, CopyAt, PartAt, Valid
    <3>5. QED  BY <2>1, <3>1, <3>2, <3>3, <3>4
  <2>8. \A d \in Disk \ {at} : Readable(d)' /\ (BothValid(d)' <=> BothValid(d))
    BY <1>2, <2>2 DEF Readable, BothValid, Valid
  <2>9. Readable(at)'
    BY <2>1, <2>7 DEF OtherCopyIsValid, Readable
  <2>10. QED
    BY <1>2, <2>1, <2>6, <2>7, <2>8, <2>9 DEF MediumInv, TypeInv, TypeOK
<1>10. CASE FlushBlocks
  <2>1. UNCHANGED <<disk, loaded, modified>> /\ Writing /\ step = 5
    BY <1>10 DEF FlushBlocks, FlushStep, storage, memory
  <2>2. \A d \in loaded : BothValid(d)
    BY <1>2, <2>1 DEF OtherCopyIsValid, BothValid, Writing, Busy
  <2>3. CASE Remaining # {}
    <3>1. at' \in modified /\ modified \subseteq loaded /\ step' = 1 /\ pc' = pc
      BY <1>10, <2>3 DEF FlushBlocks, NextDisk, Remaining, First, TypeInv,
                         LoopsInRange, Writing, Busy
    <3>2. OtherCopyIsValid' /\ EntriesAreWritten'
      BY <2>1, <2>2, <3>1 DEF OtherCopyIsValid, EntriesAreWritten, BothValid
    <3>3. QED  BY <1>0, <1>3, <2>1, <2>2, <3>2 DEF MediumInv
  <2>4. CASE Remaining = {}
    <3>1. ~Writing'
      BY <1>10, <2>4 DEF FlushBlocks, NextDisk, Writing
    <3>2. QED  BY <1>0, <1>3, <2>1, <2>2, <3>1 DEF MediumInv
  <2>5. QED  BY <2>3, <2>4
<1>11. CASE CommitFails \/ RollbackFails
  BY <1>1, <1>11 DEF CommitFails, RollbackFails
<1>12. CASE PowerCut
  <2>1. CASE Writing
    <3>1. disk' \in Interrupted
      BY <1>12, <2>1 DEF PowerCut
    <3>2. \A d \in Disk \ {at} : Readable(d)'
      BY <1>2, <3>1, InterruptedKeepsCopy DEF Readable
    <3>3. Readable(at)'
      <4>5. \A c \in Copy \ {CopyAt(step)} : Valid(disk[at][c]) => Valid(disk'[at][c])
        BY <3>1, InterruptedKeepsCopy
      <4>6. at' = at
        BY <1>12 DEF PowerCut
      <4>1. CASE step = FlushStep
        BY <1>2, <1>3, <3>1, <4>1, <4>6 DEF Interrupted, Readable
      <4>2. CASE step \in {1, 2}
        <5>1. "primary" \in Copy \ {CopyAt(step)}
          BY <4>2 DEF CopyAt
        <5>2. QED
          BY <1>2, <2>1, <4>2, <4>5, <4>6, <5>1
             DEF OtherCopyIsValid, Readable
      <4>3. CASE step \in {3, 4}
        <5>1. "backup" \in Copy \ {CopyAt(step)}
          BY <4>3 DEF CopyAt
        <5>2. QED
          BY <1>2, <2>1, <4>3, <4>5, <4>6, <5>1
             DEF OtherCopyIsValid, Readable
      <4>4. QED  BY <4>1, <4>2, <4>3 DEF TypeInv, TypeOK, FlushStep
    <3>4. QED
      BY <1>12, <3>2, <3>3 DEF PowerCut, memory, MediumInv, Busy, Writing
  <2>2. CASE ~Writing
    BY <1>0, <1>3, <1>12, <2>2 DEF PowerCut, MediumInv, Busy, Writing
  <2>3. QED  BY <2>1, <2>2
<1>13. ASSUME NEW repaired \in SUBSET Damaged, PowerOn(repaired)
       PROVE  MediumInv'
  <2>1. \A d \in Disk : disk'[d] = IF d \in repaired THEN RestoreGpt(d) ELSE disk[d]
    BY <1>13 DEF PowerOn
  <2>2. \A d \in repaired : View(d) # Torn /\ d \in Disk
    BY DEF Damaged, Readable, View, Valid
  <2>3. \A d \in Disk : Readable(d)'
    <3>1. ASSUME NEW d \in repaired PROVE Valid(disk'[d]["primary"])
      <4>1. d \in Disk /\ View(d) # Torn
        BY <2>2
      <4>2. disk'[d] = RestoreGpt(d)
        BY <2>1, <4>1
      <4>3. /\ disk'[d]["primary"]["header"] = View(d)
            /\ disk'[d]["primary"]["entries"] = View(d)
        BY <4>2 DEF RestoreGpt
      <4>4. QED  BY <4>1, <4>3 DEF Valid
    <3>2. ASSUME NEW d \in Disk \ repaired PROVE Readable(d)'
      BY <1>2, <2>1 DEF Readable
    <3>3. QED  BY <3>1, <3>2 DEF Readable
  <2>4. QED
    BY <1>13, <2>3 DEF PowerOn, MediumInv, Busy, Writing
<1>14. CASE UNCHANGED vars
  BY <1>14, <1>2 DEF vars, MediumInv, Readable, BothValid, Writing, Busy,
                     OtherCopyIsValid, EntriesAreWritten, Goal
<1>15. QED
  BY <1>4, <1>5, <1>6, <1>7, <1>8, <1>9, <1>10, <1>11, <1>12, <1>13, <1>14
     DEF Next, Program, Environment

(***************************************************************************)
(* As long as no write reports an error, every storage keeps a GPT that    *)
(* reads back, wherever the update, the rollback after a refused boot LUN, *)
(* or a second run is interrupted.                                         *)
(***************************************************************************)
THEOREM PowerCutSafe == Spec => []SurvivesPowerCut
<1>1. Spec => []TypeInv
  BY InitTypeInv, NextTypeInv, PTL DEF Spec
<1>2. Spec => []MediumInv
  BY <1>1, InitMediumInv, NextMediumInv, PTL DEF Spec
<1>3. MediumInv => SurvivesPowerCut
  BY DEF MediumInv, SurvivesPowerCut
<1>4. QED  BY <1>2, <1>3, PTL

-----------------------------------------------------------------------------
(***************************************************************************)
(* Rollback.  Between the writes of a loop, the storages before the one it *)
(* is at hold the tables the loop writes, and of that one the regions      *)
(* already written do.  A commit that fails says nothing of the medium:    *)
(* the rollback rewrites all of it.                                        *)
(***************************************************************************)
WriteIndex(c, p) ==
  (IF c = "backup" THEN 0 ELSE 2) + (IF p = "entries" THEN 1 ELSE 2)

Reached(d, c, p) == d < at \/ (d = at /\ WriteIndex(c, p) < step)

Written(image) ==
  \A d \in modified, c \in Copy, p \in Part :
    Reached(d, c, p) => disk[d][c][p] = image[d][c]

AllWritten(image) ==
  \A d \in modified, c \in Copy, p \in Part : disk[d][c][p] = image[d][c]

ProgressInv ==
  /\ pc = "commit" => Written(mem)
  /\ pc = "rollback" /\ ~rbFailed => Written(orig)
  /\ pc \in {"bootlu", "success"} => AllWritten(mem)
  /\ pc = "rolledback" /\ ~rbFailed => AllWritten(orig)

\* The current write is the one the index says.
LEMMA WriteIndexOfStep ==
  ASSUME NEW c \in Copy, NEW p \in Part
  PROVE  /\ WriteIndex(c, p) \in 1..4
         /\ \A n \in 1..4 : WriteIndex(c, p) = n <=> c = CopyAt(n) /\ p = PartAt(n)
BY DEF WriteIndex, CopyAt, PartAt

\* A loop that starts has nothing to show yet.
LEMMA LoopStart ==
  ASSUME TypeInv, at' \in First(modified), step' = 1, modified' = modified
  PROVE  \A d \in modified, c \in Copy, p \in Part : ~Reached(d, c, p)'
<1>1. \A d \in modified : d \in Nat /\ at' \in Nat /\ at' <= d
  BY DiskInNat DEF First, TypeInv, TypeOK
<1>2. \A c \in Copy, p \in Part : WriteIndex(c, p) \in 1..4
  BY WriteIndexOfStep
<1>3. QED  BY <1>1, <1>2 DEF Reached

\* Written holds again when one more region is.
LEMMA OneMore ==
  ASSUME ConstantsAssumption, TypeInv, WriteRegion,
         NEW image, Goal(at) = image[at], Written(image)
  PROVE  \A d \in modified, c \in Copy, p \in Part :
           Reached(d, c, p)' => disk'[d][c][p] = image[d][c]
<1> SUFFICES ASSUME NEW d \in modified, NEW c \in Copy, NEW p \in Part, Reached(d, c, p)'
             PROVE  disk'[d][c][p] = image[d][c]
  OBVIOUS
<1>0. d \in Disk /\ at \in Disk /\ step \in 1..5
  BY DEF TypeInv, TypeOK, FlushStep
<1>a. at' = at /\ step' = step + 1 /\ step < FlushStep
  BY DEF WriteRegion
<1>b. at \in Nat /\ d \in Nat
  BY <1>0, DiskInNat
<1>1. /\ at' = at /\ step' = step + 1 /\ step \in 1..4 /\ at \in Nat
      /\ d \in Disk /\ d \in Nat
  BY <1>0, <1>a, <1>b DEF FlushStep
<1>2. disk'[d][c][p] = IF d = at /\ c = CopyAt(step) /\ p = PartAt(step)
                       THEN Goal(at)[CopyAt(step)] ELSE disk[d][c][p]
  BY <1>1, PutValue DEF WriteRegion
<1>3. WriteIndex(c, p) \in 1..4
  BY WriteIndexOfStep
<1>4. CASE d = at /\ WriteIndex(c, p) = step
  BY <1>1, <1>2, <1>4, WriteIndexOfStep
<1>5. CASE ~(d = at /\ WriteIndex(c, p) = step)
  <2>1. Reached(d, c, p)
    BY <1>1, <1>3, <1>5 DEF Reached
  <2>2. disk'[d][c][p] = disk[d][c][p]
    BY <1>1, <1>2, <1>5, WriteIndexOfStep
  <2>3. QED  BY <2>1, <2>2 DEF Written
<1>6. QED  BY <1>4, <1>5

\* After the flush everything up to this storage is written.
LEMMA UpToHere ==
  ASSUME TypeInv, step = FlushStep, NEW image, Written(image)
  PROVE  \A d \in modified, c \in Copy, p \in Part :
           d <= at => disk[d][c][p] = image[d][c]
<1> SUFFICES ASSUME NEW d \in modified, NEW c \in Copy, NEW p \in Part, d <= at
             PROVE  disk[d][c][p] = image[d][c]
  OBVIOUS
<1>1. d \in Nat /\ at \in Nat
  BY DiskInNat DEF TypeInv, TypeOK
<1>2. WriteIndex(c, p) \in 1..4
  BY WriteIndexOfStep
<1>3. Reached(d, c, p)
  BY <1>1, <1>2 DEF Reached, FlushStep
<1>4. QED  BY <1>3 DEF Written

LEMMA FlushProgress ==
  ASSUME TypeInv, FlushBlocks, NEW image, Written(image)
  PROVE  IF Remaining = {}
         THEN \A d \in modified, c \in Copy, p \in Part : disk[d][c][p] = image[d][c]
         ELSE \A d \in modified, c \in Copy, p \in Part :
                Reached(d, c, p)' => disk[d][c][p] = image[d][c]
<1>1. \A d \in modified : d \in Nat /\ at \in Nat
  BY DiskInNat DEF TypeInv, TypeOK
<1>2. \A d \in modified, c \in Copy, p \in Part :
         d <= at => disk[d][c][p] = image[d][c]
  BY UpToHere DEF FlushBlocks
<1>3. CASE Remaining = {}
  <2>1. \A d \in modified : d <= at
    BY <1>1, <1>3 DEF Remaining
  <2>2. QED  BY <1>2, <1>3, <2>1
<1>4. CASE Remaining # {}
  <2>1. at' \in First(Remaining) /\ step' = 1
    BY <1>4 DEF FlushBlocks, NextDisk
  <2>2. ASSUME NEW d \in modified, NEW c \in Copy, NEW p \in Part, Reached(d, c, p)'
        PROVE  d <= at
    <3>1. WriteIndex(c, p) \in 1..4
      BY WriteIndexOfStep
    <3>2. at' \in Nat /\ d < at'
      BY <1>1, <2>1, <2>2, <3>1 DEF Reached, First, Remaining
    <3>3. QED  BY <1>1, <2>1, <3>2 DEF First, Remaining
  <2>3. QED  BY <1>2, <1>4, <2>2
<1>5. QED  BY <1>3, <1>4

LEMMA NextProgressInv == TypeInv /\ ProgressInv /\ [Next]_vars => ProgressInv'
<1> SUFFICES ASSUME TypeInv, ProgressInv, [Next]_vars PROVE ProgressInv'
  OBVIOUS
<1> USE ConstantsAssumption
<1>1. CASE pc' \notin {"commit", "rollback", "bootlu", "success", "rolledback"}
  BY <1>1 DEF ProgressInv
<1>2. CASE Confirm
  <2>1. pc' = "commit" /\ \A d \in modified, c \in Copy, p \in Part : ~Reached(d, c, p)'
    BY <1>2, LoopStart DEF Confirm, memory
  <2>2. QED  BY <1>2, <2>1 DEF Confirm, memory, ProgressInv, Written
<1>3. CASE SetUfsBootLuFails \/ CommitFails
  <2>1. pc' = "rollback" /\ \A d \in modified, c \in Copy, p \in Part : ~Reached(d, c, p)'
    BY <1>3, LoopStart DEF SetUfsBootLuFails, CommitFails, StartRollback, memory
  <2>2. QED
    BY <1>3, <2>1 DEF SetUfsBootLuFails, CommitFails, memory, ProgressInv, Written
<1>4. CASE WriteRegion
  <2>1. UNCHANGED <<pc, modified, mem, orig, rbFailed>> /\ Writing
    BY <1>4 DEF WriteRegion, memory
  <2>2. CASE pc = "commit"
    <3>1. Goal(at) = mem[at] /\ Written(mem)
      BY <2>2 DEF Goal, ProgressInv
    <3>2. QED
      BY <1>4, <2>1, <2>2, <3>1, OneMore DEF ProgressInv, Written
  <2>3. CASE pc = "rollback" /\ ~rbFailed
    <3>1. Goal(at) = orig[at] /\ Written(orig)
      BY <2>3 DEF Goal, ProgressInv
    <3>2. QED
      BY <1>4, <2>1, <2>3, <3>1, OneMore DEF ProgressInv, Written
  <2>4. CASE pc = "rollback" /\ rbFailed
    BY <2>1, <2>4 DEF ProgressInv
  <2>5. QED  BY <2>1, <2>2, <2>3, <2>4 DEF Writing
<1>5. CASE FlushBlocks
  <2>1. UNCHANGED <<disk, modified, mem, orig, rbFailed>> /\ Writing
    BY <1>5 DEF FlushBlocks, memory, storage
  <2>2. pc' = IF Remaining # {} THEN pc
              ELSE IF pc = "commit" THEN "bootlu" ELSE "rolledback"
    BY <1>5 DEF FlushBlocks, NextDisk
  <2>3. CASE pc = "commit"
    <3>1. Written(mem)
      BY <2>3 DEF ProgressInv
    <3>2. QED
      BY <1>5, <2>1, <2>2, <2>3, <3>1, FlushProgress DEF ProgressInv, Written, AllWritten
  <2>4. CASE pc = "rollback" /\ ~rbFailed
    <3>1. Written(orig)
      BY <2>4 DEF ProgressInv
    <3>2. QED
      BY <1>5, <2>1, <2>2, <2>4, <3>1, FlushProgress DEF ProgressInv, Written, AllWritten
  <2>5. CASE pc = "rollback" /\ rbFailed
    BY <2>1, <2>2, <2>5 DEF ProgressInv
  <2>6. QED  BY <2>1, <2>3, <2>4, <2>5 DEF Writing
<1>6. CASE RollbackFails
  BY <1>6 DEF RollbackFails, NextDisk, ProgressInv
<1>7. CASE SetUfsBootLu
  BY <1>7 DEF SetUfsBootLu, memory, ProgressInv, AllWritten
<1>8. CASE UNCHANGED vars
  BY <1>8 DEF vars, ProgressInv, Written, AllWritten, Reached
<1>9. CASE \/ LoadOutOfMemory \/ DetectActiveSlot \/ SwitchAllGptPairs \/ Cancel
           \/ PowerCut \/ StartAgain
           \/ \E unreadable \in SUBSET Disk : LoadGptDisks(unreadable)
           \/ \E repaired \in SUBSET Damaged : PowerOn(repaired)
  BY <1>1, <1>9 DEF LoadOutOfMemory, DetectActiveSlot, SwitchAllGptPairs, Cancel,
                    PowerCut, StartAgain, LoadGptDisks, PowerOn
<1>10. QED
  BY <1>2, <1>3, <1>4, <1>5, <1>6, <1>7, <1>8, <1>9 DEF Next, Program, Environment

(***************************************************************************)
(* A rollback that reports no storage has put back the original tables of  *)
(* all modified ones, whatever the failed commit had left on the medium.   *)
(***************************************************************************)
THEOREM RollbackIsExact == Spec => []RollbackRestores
<1>1. Spec => []TypeInv
  BY InitTypeInv, NextTypeInv, PTL DEF Spec
<1>2. Init => ProgressInv
  BY DEF Init, ProgressInv
<1>3. Spec => []ProgressInv
  BY <1>1, <1>2, NextProgressInv, PTL DEF Spec
<1>4. ProgressInv => RollbackRestores
  BY DEF ProgressInv, AllWritten, RollbackRestores
<1>5. QED  BY <1>3, <1>4, PTL

-----------------------------------------------------------------------------
(***************************************************************************)
(* Switching.  SwitchAllGptPairs goes on only if each loaded pair was      *)
(* active in the detected slot or in none, and from then on the tables in  *)
(* memory, and which storages are modified, are settled.                   *)
(***************************************************************************)
Settled == {"confirm", "commit", "bootlu", "rollback", "success"}

Uniform == \A p \in Pairs : PairLoaded(p) => OriginallyActive(p) \in {{}, {current}}

SwitchedPair(p) ==
  \A s \in Slot :
    /\ Home[p][s] \in modified
    /\ \A c \in Copy :
         /\ mem[Home[p][s]][c][<<p, s>>].active = (s = Target)
         /\ mem[Home[p][s]][c][<<p, s>>].type =
              orig[Home[p][Other(s)]]["primary"][<<p, Other(s)>>].type

SwitchInv ==
  /\ pc \in {"detect", "switch"} => mem = orig
  /\ pc \in Settled =>
       /\ Uniform
       /\ \A p \in Pairs : PairLoaded(p) => IF OriginallyActive(p) = {} THEN ActiveSlots(p) = {}
                                            ELSE SwitchedPair(p)
  /\ pc = "success" => bootLu = Target

\* The step that settles them.
LEMMA SwitchStep ==
  ASSUME ConstantsAssumption, TypeInv, SwitchInv, SwitchAllGptPairs, pc' = "confirm"
  PROVE  SwitchInv'
<1>1. /\ mem = orig /\ UNCHANGED <<orig, loaded, current>> /\ modified' = TouchedDisks
      /\ \A p \in Pairs : ~Refused(p)
      /\ mem' = [d \in Disk |-> [c \in Copy |->
                  IF d \in loaded THEN [e \in EntriesOn(d) |-> SwitchEntry(e, mem[d][c][e])]
                  ELSE NoTable]]
  BY DEF SwitchAllGptPairs, SwitchInv
<1>2. \A p \in Pairs : OriginallyActive(p) = ActiveSlots(p) /\ OriginallyActive(p)' = OriginallyActive(p)
  BY <1>1 DEF OriginallyActive, ActiveSlots, Primary
<1>3. \A p \in Pairs : PairLoaded(p)' <=> PairLoaded(p)
  BY <1>1 DEF PairLoaded
<1>4. Uniform'
  BY <1>1, <1>2, <1>3 DEF Uniform, Refused
<1>5. ASSUME NEW p \in Pairs, PairLoaded(p), NEW s \in Slot, NEW c \in Copy
      PROVE  /\ mem'[Home[p][s]][c][<<p, s>>] = SwitchEntry(<<p, s>>, mem[Home[p][s]][c][<<p, s>>])
             /\ mem[Home[p][s]][c][<<p, s>>] \in Partition
  <2>1. Home[p][s] \in Disk /\ Home[p][s] \in loaded
    BY <1>5 DEF PairLoaded, ConstantsAssumption
  <2>2. <<p, s>> \in EntriesOn(Home[p][s])
    BY <2>1 DEF EntriesOn, Entry, HomeOf
  <2>3. mem[Home[p][s]][c] \in Table(Home[p][s])
    BY <2>1 DEF TypeInv, Loaded, Busy, SwitchAllGptPairs
  <2>4. QED  BY <1>1, <2>1, <2>2, <2>3 DEF Table
<1>6. ASSUME NEW p \in Pairs, PairLoaded(p), ActiveSlots(p) = {}
      PROVE  ActiveSlots(p)' = {}
  <2>1. p \notin Switched
    BY <1>6 DEF Switched
  <2>2. \A s \in Slot : Primary(p, s)' = Primary(p, s)
    BY <1>5, <1>6, <2>1 DEF Primary, SwitchEntry
  <2>3. QED  BY <1>6, <2>2 DEF ActiveSlots
<1>7. ASSUME NEW p \in Pairs, PairLoaded(p), ActiveSlots(p) # {}
      PROVE  SwitchedPair(p)'
  <2>1. p \in Switched
    BY <1>7 DEF Switched
  <2>2. \A s \in Slot : Home[p][s] \in modified'
    BY <1>1, <2>1 DEF TouchedDisks
  <2>3. ASSUME NEW s \in Slot, NEW c \in Copy
        PROVE  /\ mem'[Home[p][s]][c][<<p, s>>].active = (s = Target)
               /\ mem'[Home[p][s]][c][<<p, s>>].type =
                    orig[Home[p][Other(s)]]["primary"][<<p, Other(s)>>].type
    <3> DEFINE old == mem[Home[p][s]][c][<<p, s>>]
    <3>1. old \in Partition
      BY <1>5, <1>7
    <3>2. SwitchEntry(<<p, s>>, old) =
            [old EXCEPT !.active = (s = Target), !.type = Primary(p, Other(s)).type]
      BY <2>1 DEF SwitchEntry
    <3>3. /\ SwitchEntry(<<p, s>>, old).active = (s = Target)
          /\ SwitchEntry(<<p, s>>, old).type = Primary(p, Other(s)).type
      BY <3>1, <3>2 DEF Partition
    <3>4. mem'[Home[p][s]][c][<<p, s>>] = SwitchEntry(<<p, s>>, old)
      BY <1>5, <1>7
    <3>5. Primary(p, Other(s)) = orig[Home[p][Other(s)]]["primary"][<<p, Other(s)>>]
      BY <1>1 DEF Primary
    <3>6. QED  BY <3>3, <3>4, <3>5
  <2>4. Target' = Target
    BY <1>1 DEF Target
  <2>5. QED  BY <1>1, <2>2, <2>3, <2>4 DEF SwitchedPair
<1>8. QED  BY <1>2, <1>3, <1>4, <1>6, <1>7 DEF SwitchInv

LEMMA NextSwitchInv == TypeInv /\ SwitchInv /\ [Next]_vars => SwitchInv'
<1> SUFFICES ASSUME TypeInv, SwitchInv, [Next]_vars PROVE SwitchInv'
  OBVIOUS
<1> USE ConstantsAssumption
<1>1. CASE pc' \notin Settled \union {"detect", "switch"}
  BY <1>1 DEF SwitchInv, Settled
<1>2. ASSUME NEW unreadable \in SUBSET Disk, LoadGptDisks(unreadable)
      PROVE  SwitchInv'
  BY <1>2 DEF LoadGptDisks, SwitchInv, Settled
<1>3. CASE DetectActiveSlot
  BY <1>3 DEF DetectActiveSlot, SwitchInv, Settled
<1>4. CASE SwitchAllGptPairs
  <2>1. pc' \in {"confirm", "failed"}
    BY <1>4 DEF SwitchAllGptPairs
  <2>2. QED  BY <1>1, <1>4, <2>1, SwitchStep DEF Settled
<1>5. ASSUME pc \in Settled, pc' \in Settled, UNCHANGED <<loaded, mem, orig, modified, current>>,
             pc' = "success" => bootLu' = Target
      PROVE  SwitchInv'
  <2>1. Uniform' <=> Uniform
    BY <1>5 DEF Uniform, PairLoaded, OriginallyActive
  <2>2. \A p \in Pairs :
          /\ PairLoaded(p)' <=> PairLoaded(p)
          /\ OriginallyActive(p)' = OriginallyActive(p)
          /\ ActiveSlots(p)' = ActiveSlots(p)
          /\ SwitchedPair(p)' <=> SwitchedPair(p)
    BY <1>5 DEF PairLoaded, OriginallyActive, ActiveSlots, Primary, SwitchedPair, Target
  <2>3. Target' = Target
    BY <1>5 DEF Target
  <2>4. QED  BY <1>5, <2>1, <2>2, <2>3 DEF SwitchInv, Settled
<1>6. CASE \/ Confirm \/ WriteRegion \/ FlushBlocks \/ CommitFails \/ RollbackFails
           \/ SetUfsBootLu \/ SetUfsBootLuFails
  <2>1. pc \in Settled /\ UNCHANGED <<loaded, mem, orig, modified, current>>
    BY <1>6 DEF Confirm, WriteRegion, FlushBlocks, CommitFails, RollbackFails, SetUfsBootLu,
       SetUfsBootLuFails, memory, Settled, Writing
  <2>2. pc' = "success" => bootLu' = Target
    BY <1>6 DEF Confirm, WriteRegion, FlushBlocks, CommitFails, RollbackFails, SetUfsBootLu,
       SetUfsBootLuFails, Writing, NextDisk, StartRollback
  <2>3. pc' \in Settled \/ pc' = "rolledback"
    BY <1>6 DEF Confirm, WriteRegion, FlushBlocks, CommitFails, RollbackFails, SetUfsBootLu,
       SetUfsBootLuFails, Writing, NextDisk, StartRollback, Settled
  <2>4. QED  BY <1>1, <1>5, <2>1, <2>2, <2>3 DEF Settled
<1>7. CASE UNCHANGED vars
  <2>1. pc \notin Settled => SwitchInv'
    BY <1>7 DEF vars, SwitchInv, Settled
  <2>2. pc \in Settled => SwitchInv'
    BY <1>5, <1>7 DEF vars, SwitchInv, Target
  <2>3. QED  BY <2>1, <2>2
<1>8. CASE LoadOutOfMemory \/ Cancel \/ PowerCut \/ StartAgain
           \/ \E repaired \in SUBSET Damaged : PowerOn(repaired)
  BY <1>1, <1>8 DEF LoadOutOfMemory, Cancel, PowerCut, StartAgain, PowerOn, Settled
<1>9. QED
  BY <1>2, <1>3, <1>4, <1>6, <1>7, <1>8 DEF Next, Program, Environment

LEMMA SwitchAlways == Spec => [](TypeInv /\ SwitchInv /\ ProgressInv)
<1>1. Init => SwitchInv /\ ProgressInv
  BY DEF Init, SwitchInv, ProgressInv, Settled
<1>2. QED
  BY <1>1, InitTypeInv, NextTypeInv, NextSwitchInv, NextProgressInv, PTL DEF Spec

\* A pair that was switched in memory had an active slot, and its two
\* storages are written.
LEMMA SwitchedWasActive ==
  ASSUME SwitchInv, pc \in Settled, NEW p \in Pairs, PairLoaded(p), ActiveSlots(p) # {}
  PROVE  OriginallyActive(p) = {current} /\ SwitchedPair(p)
BY DEF SwitchInv, Uniform

\* What success says: every pair of the loaded storages that had an active
\* slot has the other one now, in both copies, and so has the boot LUN.
THEOREM SuccessMeansAll == Spec => []SuccessIsComplete
<1>1. TypeInv /\ SwitchInv /\ ProgressInv => SuccessIsComplete
  <2> SUFFICES ASSUME TypeInv, SwitchInv, ProgressInv, pc = "success" PROVE SuccessIsComplete
    BY DEF SuccessIsComplete
  <2>1. bootLu = Target
    BY DEF SwitchInv
  <2>2. ASSUME NEW p \in Pairs, NEW s \in Slot, PairLoaded(p), ActiveSlots(p) # {}
        PROVE  EntryIsSwitched(p, s)
    <3> DEFINE home == Home[p][s]
               old  == orig[home]["primary"][<<p, s>>]
    <3>1. OriginallyActive(p) = {current} /\ SwitchedPair(p)
      BY <2>2, SwitchedWasActive DEF Settled
    <3>2. home \in Disk /\ home \in loaded /\ <<p, s>> \in EntriesOn(home)
      BY <2>2, ConstantsAssumption DEF PairLoaded, ConstantsAssumption, EntriesOn, Entry, HomeOf
    <3>3. old.active \in BOOLEAN
      <4>1. orig[home]["primary"] \in Table(home)
        BY <3>2 DEF TypeInv, Loaded, Busy
      <4>2. QED  BY <3>2, <4>1 DEF Table, Partition
    <3>4. (s = Target) = ~old.active
      <4>1. current \in Slot
        BY DEF TypeInv, TypeOK
      <4>2. old.active <=> s = current
        BY <3>1 DEF OriginallyActive
      <4>3. s = Target <=> s # current
        BY <4>1 DEF Target, Other
      <4>4. QED  BY <3>3, <4>2, <4>3
    <3>5. ASSUME NEW c \in Copy
          PROVE  /\ Valid(disk[home][c])
                 /\ disk[home][c]["entries"] = mem[home][c]
      <4>1. home \in modified
        BY <3>1 DEF SwitchedPair
      <4>2. disk[home][c]["header"] = mem[home][c] /\ disk[home][c]["entries"] = mem[home][c]
        BY <4>1 DEF ProgressInv, AllWritten
      <4>3. mem[home][c] \in Table(home)
        BY <3>2 DEF TypeInv, Loaded, Busy
      <4>4. mem[home][c] # Torn
        BY <3>2, <4>3, ConstantsAssumption DEF ConstantsAssumption, Tables
      <4>5. QED  BY <4>2, <4>4 DEF Valid
    <3> DEFINE twin == orig[Home[p][Other(s)]]["primary"][<<p, Other(s)>>]
    <3>6. ASSUME NEW c \in Copy
          PROVE  /\ mem[home][c][<<p, s>>].active = ~old.active
                 /\ mem[home][c][<<p, s>>].type = twin.type
      <4>1. /\ mem[home][c][<<p, s>>].active = (s = Target)
            /\ mem[home][c][<<p, s>>].type = twin.type
        BY <3>1 DEF SwitchedPair
      <4>2. QED  BY <3>4, <4>1
    <3>7. ASSUME NEW c \in Copy
          PROVE  /\ Valid(disk[home][c])
                 /\ disk[home][c]["entries"][<<p, s>>].active = ~old.active
                 /\ disk[home][c]["entries"][<<p, s>>].type = twin.type
      BY <3>5, <3>6
    <3>8. QED  BY <3>7 DEF EntryIsSwitched
  <2>3. QED  BY <2>1, <2>2 DEF SuccessIsComplete
<1>2. QED  BY SwitchAlways, <1>1, PTL

\* No write ever reaches a phone whose loaded pairs disagree about the active
\* slot, or have two of them.
THEOREM OnlyUniformPhones == Spec => WritesOnlyUniformPhones
<1>1. SwitchInv /\ Writing => \A p, q \in Pairs : PairLoaded(p) /\ PairLoaded(q) =>
         /\ Cardinality(OriginallyActive(p)) <= 1
         /\ {} \in {OriginallyActive(p), OriginallyActive(q)}
              \/ OriginallyActive(p) = OriginallyActive(q)
  <2> SUFFICES ASSUME SwitchInv, Writing, NEW p \in Pairs, NEW q \in Pairs,
                      PairLoaded(p), PairLoaded(q)
               PROVE  /\ Cardinality(OriginallyActive(p)) <= 1
                      /\ {} \in {OriginallyActive(p), OriginallyActive(q)}
                           \/ OriginallyActive(p) = OriginallyActive(q)
    OBVIOUS
  <2>1. OriginallyActive(p) \in {{}, {current}} /\ OriginallyActive(q) \in {{}, {current}}
    BY DEF SwitchInv, Uniform, Settled, Writing
  <2>2. Cardinality({}) = 0 /\ Cardinality({current}) = 1
    BY FS_EmptySet, FS_Singleton
  <2>3. Cardinality(OriginallyActive(p)) <= 1
    BY <2>1, <2>2
  <2>4. QED  BY <2>1, <2>3
<1>2. QED  BY SwitchAlways, <1>1, PTL DEF WritesOnlyUniformPhones

\* The boot LUN moves only when all storages to update hold their new tables.
THEOREM BootLuIsLast == Spec => BootLuMovesLast
<1>1. TypeInv /\ SwitchInv /\ ProgressInv /\ [Next]_vars =>
        (bootLu' # bootLu =>
           /\ bootLu' = Target
           /\ \A p \in Switched, s \in Slot, c \in Copy, r \in Part :
                disk[Home[p][s]][c][r] = mem[Home[p][s]][c])
  <2> SUFFICES ASSUME TypeInv, SwitchInv, ProgressInv, [Next]_vars, bootLu' # bootLu
               PROVE  /\ bootLu' = Target
                      /\ \A p \in Switched, s \in Slot, c \in Copy, r \in Part :
                           disk[Home[p][s]][c][r] = mem[Home[p][s]][c]
    OBVIOUS
  <2>1. SetUfsBootLu
    BY DEF Next, Program, Environment, LoadGptDisks, LoadOutOfMemory, DetectActiveSlot,
       SwitchAllGptPairs, WriteRegion, FlushBlocks, CommitFails, RollbackFails,
       SetUfsBootLuFails, Confirm, Cancel, PowerCut, StartAgain, PowerOn, vars, storage
  <2>2. pc = "bootlu" /\ bootLu' = Target
    BY <2>1 DEF SetUfsBootLu
  <2>3. ASSUME NEW p \in Switched, NEW s \in Slot, NEW c \in Copy, NEW r \in Part
        PROVE  disk[Home[p][s]][c][r] = mem[Home[p][s]][c]
    <3>1. SwitchedPair(p)
      BY <2>2, SwitchedWasActive DEF Switched, Settled
    <3>2. QED  BY <2>2, <3>1 DEF SwitchedPair, ProgressInv, AllWritten
  <2>4. QED  BY <2>2, <2>3
<1>2. QED  BY SwitchAlways, <1>1, PTL DEF Spec, BootLuMovesLast

-----------------------------------------------------------------------------
(***************************************************************************)
(* The boot loader's view.  Until the first write, the medium holds what   *)
(* was loaded; while a storage is written, its reader uses the copy that   *)
(* is not, and then the new primary or, as long as that one does not       *)
(* check, the backup that was written first.                               *)
(***************************************************************************)
Early == {"detect", "switch", "confirm"}

OrigInv ==
  /\ pc \in Early => \A d \in loaded : BothValid(d) /\ \A c \in Copy : disk[d][c]["entries"] = orig[d][c]
  /\ faults = 0 => ~rbFailed
  /\ faults \in Nat

LEMMA NextOrigInv == TypeInv /\ OrigInv /\ [Next]_vars => OrigInv'
<1> SUFFICES ASSUME TypeInv, OrigInv, [Next]_vars PROVE OrigInv'
  OBVIOUS
<1>0. MaxFaults \in Nat
  BY ConstantsAssumption DEF ConstantsAssumption
<1>1. ASSUME NEW unreadable \in SUBSET Disk, LoadGptDisks(unreadable)
      PROVE  OrigInv'
  <2>1. UNCHANGED <<disk, faults, rbFailed>>
    BY <1>1 DEF LoadGptDisks, storage
  <2>2. \A d \in loaded' : BothValid(d) /\ d \in Disk
    BY <1>1 DEF LoadGptDisks
  <2>3. \A d \in loaded', c \in Copy : orig'[d][c] = disk[d][c]["entries"]
    BY <1>1, <2>2 DEF LoadGptDisks
  <2>4. QED  BY <2>1, <2>2, <2>3 DEF OrigInv, BothValid
<1>2. CASE DetectActiveSlot \/ SwitchAllGptPairs
  <2>1. pc \in Early /\ UNCHANGED <<disk, loaded, orig, faults, rbFailed>>
    BY <1>2 DEF DetectActiveSlot, SwitchAllGptPairs, storage, Early
  <2>2. QED  BY <2>1 DEF OrigInv, BothValid
<1>3. CASE CommitFails \/ RollbackFails
  <2>1. pc' \notin Early /\ faults' = faults + 1 /\ faults \in Nat
    BY <1>3 DEF CommitFails, RollbackFails, StartRollback, NextDisk, Early, OrigInv
  <2>2. QED  BY <2>1 DEF OrigInv
<1>4. CASE \/ LoadOutOfMemory \/ WriteRegion \/ FlushBlocks \/ SetUfsBootLu \/ SetUfsBootLuFails
           \/ Confirm \/ Cancel \/ PowerCut
  <2>1. pc' \notin Early /\ UNCHANGED <<faults, rbFailed>>
    BY <1>4 DEF LoadOutOfMemory, WriteRegion, FlushBlocks, SetUfsBootLu, SetUfsBootLuFails, Confirm,
       Cancel, PowerCut, StartRollback, NextDisk, memory, Early, Writing
  <2>2. QED  BY <2>1 DEF OrigInv
<1>5. CASE StartAgain \/ \E repaired \in SUBSET Damaged : PowerOn(repaired)
  BY <1>5 DEF StartAgain, PowerOn, Forget, OrigInv, Early
<1>6. CASE UNCHANGED vars
  BY <1>6 DEF vars, OrigInv, BothValid
<1>7. QED
  BY <1>1, <1>2, <1>3, <1>4, <1>5, <1>6 DEF Next, Program, Environment

\* What a reader sees when the region being written holds x, that is, torn or
\* the table to write.
LEMMA ViewOfWrite ==
  ASSUME ConstantsAssumption, TypeInv, Writing, step < FlushStep, OtherCopyIsValid,
         NEW image, Goal(at) = image[at], Written(image),
         NEW x \in {Torn, image[at][CopyAt(step)]}, disk' = Put(x)
  PROVE  \A d \in Disk : \/ View(d)' = View(d)
                         \/ d = at /\ \E c \in Copy : View(d)' = image[d][c]
<1>1. \A d \in Disk, c \in Copy, p \in Part :
        disk'[d][c][p] = IF d = at /\ c = CopyAt(step) /\ p = PartAt(step) THEN x ELSE disk[d][c][p]
  BY PutValue
<1>2. at \in Disk /\ at \in modified /\ step \in 1..4
  BY DEF TypeInv, TypeOK, LoopsInRange, FlushStep
<1>3. \A d \in Disk \ {at} : View(d)' = View(d)
  BY <1>1 DEF View, Valid
<1> SUFFICES ASSUME NEW d \in Disk, d = at
             PROVE  View(d)' = View(d) \/ \E c \in Copy : View(d)' = image[d][c]
  BY <1>3 DEF View
<1>4. CASE step \in {1, 2}
  <2>1. Valid(disk[d]["primary"]) /\ CopyAt(step) = "backup"
    BY <1>4 DEF OtherCopyIsValid, CopyAt
  <2>2. \A p \in Part : disk'[d]["primary"][p] = disk[d]["primary"][p]
    BY <1>1, <1>2, <2>1
  <2>3. View(d)' = View(d)
    BY <2>1, <2>2 DEF View, Valid
  <2>4. QED  BY <1>3, <2>3
<1>5. CASE step \in {3, 4}
  <2>1. CopyAt(step) = "primary" /\ Valid(disk[d]["backup"])
    BY <1>5 DEF OtherCopyIsValid, CopyAt
  <2>2. disk[d]["backup"]["entries"] = image[d]["backup"]
    <3>1. Reached(d, "backup", "entries")
      BY <1>5 DEF Reached, WriteIndex
    <3>2. QED  BY <1>2, <3>1 DEF Written
  <2>3. \A p \in Part : disk'[d]["backup"][p] = disk[d]["backup"][p]
    BY <1>1, <1>2, <2>1
  <2>4. CASE ~Valid(disk[d]["primary"])'
    BY <1>3, <2>1, <2>2, <2>3, <2>4 DEF View, Valid
  <2>5. CASE Valid(disk[d]["primary"])'
    <3>1. /\ disk'[d]["primary"]["header"] # Torn
          /\ disk'[d]["primary"]["header"] = disk'[d]["primary"]["entries"]
          /\ View(d)' = disk'[d]["primary"]["entries"]
      BY <2>5 DEF Valid, View
    <3>2. CASE step = 3
      <4>1. disk'[d]["primary"]["entries"] = x
        BY <1>1, <1>2, <2>1, <3>2 DEF PartAt
      <4>2. QED  BY <1>3, <2>1, <3>1, <4>1
    <3>3. CASE step = 4
      <4>1. disk'[d]["primary"]["entries"] = disk[d]["primary"]["entries"]
        BY <1>1, <1>2, <3>3 DEF PartAt
      <4>2. Reached(d, "primary", "entries")
        BY <3>3 DEF Reached, WriteIndex
      <4>3. disk[d]["primary"]["entries"] = image[d]["primary"]
        BY <1>2, <4>2 DEF Written
      <4>4. QED  BY <1>3, <3>1, <4>1, <4>3
    <3>4. QED  BY <1>5, <3>2, <3>3
  <2>6. QED  BY <2>4, <2>5
<1>6. QED  BY <1>2, <1>4, <1>5

\* One step of the loop, completed or cut off, shows one table of the image.
LEMMA ViewOfLoop ==
  ASSUME ConstantsAssumption, TypeInv, MediumInv, ProgressInv, OrigInv, faults = 0, Writing,
         disk' \in Interrupted
  PROVE  /\ at \in Disk /\ at \in modified
         /\ \A d \in Disk : \/ View(d)' = View(d)
                            \/ d = at /\ \E c \in Copy : View(d)' = Goal(d)[c]
<1> DEFINE image == IF pc = "rollback" THEN orig ELSE mem
<1>1. Goal(at) = image[at] /\ Written(image)
  BY DEF Goal, ProgressInv, OrigInv, Writing
<1>2. OtherCopyIsValid /\ at \in Disk /\ at \in modified
  BY DEF MediumInv, TypeInv, TypeOK, LoopsInRange
<1>3. CASE disk' = disk
  BY <1>2, <1>3 DEF View, Valid
<1>4. CASE disk' # disk
  <2>1. step < FlushStep
    BY <1>4 DEF Interrupted, TypeInv, TypeOK, FlushStep
  <2>2. \/ disk' = Put(Torn)
        \/ disk' = Put(image[at][CopyAt(step)])
    BY <1>1, <1>4 DEF Interrupted
  <2> HIDE DEF image
  <2>3. PICK x \in {Torn, image[at][CopyAt(step)]} : disk' = Put(x)
    BY <2>2
  <2>4. QED  BY <1>1, <1>2, <2>1, <2>3, ViewOfWrite DEF View
<1>5. QED  BY <1>3, <1>4

Views == [d \in Disk |-> View(d)]

\* While the update goes on, what it found and what it leaves stay.
LEMMA ShownStays ==
  ASSUME Updating, Updating', UNCHANGED <<mem, orig, modified>>,
         \A d \in Disk : d \in modified \/ View(d)' = View(d)
  PROVE  Shown(orig)' = Shown(orig) /\ Shown(mem)' = Shown(mem)
BY DEF Shown

\* Every step of a fault-free run is one of SlotTables, or shows nothing.
LEMMA StartShows ==
  ASSUME TypeInv, OrigInv, Confirm, faults = 0
  PROVE  Abstract!Begin /\ UNCHANGED faults
<1>1. pc = "confirm" /\ pc' = "commit" /\ UNCHANGED <<disk, orig, modified, loaded, faults>>
  BY DEF Confirm, storage, memory
<1>2. \A d \in Disk : View(d)' = View(d)
  BY <1>1 DEF View, Valid
<1>3. \A d \in modified : View(d) = orig[d]["primary"]
  <2>1. \A d \in modified : BothValid(d) /\ disk[d]["primary"]["entries"] = orig[d]["primary"]
    BY <1>1 DEF OrigInv, Early, TypeInv, LoopsInRange, Busy
  <2>2. QED  BY <2>1 DEF BothValid, View
<1>4. ASSUME NEW d \in Disk PROVE View(d) \in Shown(orig)'[d]
  <2>1. Shown(orig)'[d] = IF d \in modified THEN {orig[d][c] : c \in Copy} ELSE {View(d)'}
    BY <1>1 DEF Shown, Updating
  <2>2. CASE d \in modified
    BY <1>3, <2>1, <2>2
  <2>3. CASE d \notin modified
    <3>1. View(d)' = View(d)
      BY <1>2
    <3>2. QED  BY <2>1, <2>3, <3>1
  <2>4. QED  BY <2>2, <2>3
<1>5. Views' = Views
  BY <1>2 DEF Views
<1>6. QED  BY <1>1, <1>4, <1>5 DEF Abstract!Begin, Views

LEMMA WriteShows ==
  ASSUME ConstantsAssumption, TypeInv, MediumInv, ProgressInv, OrigInv, faults = 0, WriteRegion
  PROVE  \/ Views' = Views /\ Shown(orig)' = Shown(orig) /\ Shown(mem)' = Shown(mem)
         \/ Abstract!Publish(at) \/ Abstract!Restore(at)
<1>1. Writing /\ UNCHANGED <<pc, mem, orig, modified>> /\ disk' \in Interrupted
  BY DEF WriteRegion, memory, Interrupted, FlushStep
<1>2. /\ at \in Disk /\ at \in modified
      /\ \A d \in Disk : \/ View(d)' = View(d)
                         \/ d = at /\ \E c \in Copy : View(d)' = Goal(d)[c]
  BY <1>1, ViewOfLoop
<1>3. Shown(orig)' = Shown(orig) /\ Shown(mem)' = Shown(mem)
  <2>1. Updating /\ Updating' /\ \A d \in Disk : d \in modified \/ View(d)' = View(d)
    BY <1>1, <1>2 DEF Updating, Writing
  <2>2. QED  BY <1>1, <2>1, ShownStays
<1>4. CASE \A d \in Disk : View(d)' = View(d)
  BY <1>3, <1>4 DEF Views
<1>5. CASE \E c \in Copy : Views'[at] = Goal(at)[c]
  <2>1. PICK c \in Copy : Views'[at] = Goal(at)[c]
    BY <1>5
  <2>2. Views' = [Views EXCEPT ![at] = Goal(at)[c]]
    <3>1. \A d \in Disk : d # at => Views'[d] = Views[d]
      BY <1>2 DEF Views
    <3>2. DOMAIN Views = Disk /\ DOMAIN Views' = Disk
      BY DEF Views
    <3>3. Views' = [d \in Disk |-> Views'[d]]
      BY DEF Views
    <3>4. QED  BY <1>2, <2>1, <3>1, <3>2, <3>3
  <2>3. Goal(at)[c] \in Shown(IF pc = "rollback" THEN orig ELSE mem)[at]
    BY <1>1, <1>2 DEF Shown, Goal, Updating, Writing
  <2>4. CASE pc = "commit"
    <3>1. Goal(at)[c] \in Shown(mem)[at]
      BY <2>3, <2>4
    <3>2. QED  BY <1>1, <1>3, <2>2, <2>4, <3>1 DEF Abstract!Publish, Views
  <2>5. CASE pc = "rollback"
    <3>1. Goal(at)[c] \in Shown(orig)[at]
      BY <2>3, <2>5
    <3>2. QED  BY <1>1, <1>3, <2>2, <2>5, <3>1 DEF Abstract!Restore, Views
  <2>6. QED  BY <1>1, <2>4, <2>5 DEF Writing
<1>6. (\A d \in Disk : View(d)' = View(d)) \/ \E c \in Copy : Views'[at] = Goal(at)[c]
  BY <1>2 DEF Views
<1>7. QED  BY <1>4, <1>5, <1>6

\* The update ends, or the power goes in the middle of a write.
LEMMA StopShows ==
  ASSUME ConstantsAssumption, TypeInv, MediumInv, ProgressInv, OrigInv, faults = 0,
         Updating, ~Updating', disk' \in IF Writing THEN Interrupted ELSE {disk}
  PROVE  Abstract!Stop
<1>1. CASE disk' = disk
  <2>1. Views' = Views
    BY <1>1 DEF Views, View, Valid
  <2>2. QED  BY <2>1 DEF Abstract!Stop, Views, Updating
<1>2. CASE disk' # disk
  <2>1. Writing /\ disk' \in Interrupted
    BY <1>2
  <2>2. /\ at \in Disk /\ at \in modified
        /\ \A d \in Disk : \/ View(d)' = View(d)
                           \/ d = at /\ \E c \in Copy : View(d)' = Goal(d)[c]
    BY <2>1, ViewOfLoop
  <2>3. CASE \A d \in Disk : View(d)' = View(d)
    <3>1. Views' = Views
      BY <2>3 DEF Views
    <3>2. QED  BY <3>1 DEF Abstract!Stop, Views, Updating
  <2>4. ASSUME NEW h \in Disk, h = at, NEW c \in Copy, Views'[h] = Goal(h)[c]
        PROVE  Abstract!Stop
    <3>1. Views' = [Views EXCEPT ![h] = Goal(h)[c]]
      <4>1. \A d \in Disk : d # h => Views'[d] = Views[d]
        BY <2>2, <2>4 DEF Views
      <4>2. Views = [d \in Disk |-> Views[d]] /\ Views' = [d \in Disk |-> Views'[d]]
        BY DEF Views
      <4>3. QED  BY <2>4, <4>1, <4>2
    <3>2. Goal(h)[c] \in Shown(IF pc = "rollback" THEN orig ELSE mem)[h]
      BY <2>1, <2>2, <2>4 DEF Shown, Goal, Updating, Writing
    <3>3. CASE pc = "commit"
      <4>1. Goal(h)[c] \in Shown(mem)[h]
        BY <3>2, <3>3
      <4>2. QED  BY <2>4, <3>1, <3>3, <4>1 DEF Abstract!Stop, Views, Updating
    <3>4. CASE pc = "rollback"
      <4>1. Goal(h)[c] \in Shown(orig)[h]
        BY <3>2, <3>4
      <4>2. QED  BY <2>4, <3>1, <3>4, <4>1 DEF Abstract!Stop, Views, Updating
    <3>5. QED  BY <2>1, <3>3, <3>4 DEF Writing
  <2>5. (\A d \in Disk : View(d)' = View(d)) \/ \E h \in Disk : h = at /\ \E c \in Copy : Views'[h] = Goal(h)[c]
    BY <2>2 DEF Views
  <2>6. QED  BY <2>3, <2>4, <2>5
<1>3. QED  BY <1>1, <1>2

\* PartitionDxe restores what the reader uses already.
LEMMA RestoreShows ==
  ASSUME NEW repaired \in SUBSET Damaged, PowerOn(repaired)
  PROVE  Views' = Views
<1>1. ASSUME NEW d \in repaired PROVE View(d)' = View(d)
  <2>1. d \in Disk /\ Readable(d)
    BY <1>1 DEF Damaged
  <2>2. View(d) # Torn
    BY <2>1 DEF Readable, View, Valid
  <2>3. \A c \in Copy, p \in Part : disk'[d][c][p] = View(d)
    BY <1>1, <2>1 DEF PowerOn, RestoreGpt
  <2>4. QED  BY <2>2, <2>3 DEF View, Valid
<1>2. ASSUME NEW d \in Disk, d \notin repaired PROVE View(d)' = View(d)
  <2>1. disk'[d] = disk[d]
    BY <1>2 DEF PowerOn
  <2>2. QED  BY <2>1 DEF View, Valid
<1>3. \A d \in Disk : View(d)' = View(d)
  BY <1>1, <1>2
<1>4. QED  BY <1>3 DEF Views

\* A step outside an update shows nothing.
LEMMA RestShows ==
  ASSUME faults = 0, faults' = 0, ~Updating, ~Updating', Views' = Views
  PROVE  Abstract!Next
BY DEF Abstract!Next, Abstract!Rest, Views, Updating

\* A step of an update that keeps the storages' views, and the direction.
LEMMA SilentStep ==
  ASSUME faults' = faults, Updating, Updating', Views' = Views,
         pc = "rollback" <=> pc' = "rollback", UNCHANGED <<mem, orig, modified>>
  PROVE  UNCHANGED Abstract!vars
<1>1. \A d \in Disk : View(d)' = View(d)
  <2>1. \A d \in Disk : Views'[d] = Views[d]
    OBVIOUS
  <2>2. QED  BY <2>1 DEF Views
<1>2. Shown(orig)' = Shown(orig) /\ Shown(mem)' = Shown(mem)
  BY <1>1, ShownStays
<1>3. (IF pc \in {"commit", "bootlu"} THEN "publishing"
       ELSE IF pc = "rollback" THEN "restoring" ELSE "idle")'
      = (IF pc \in {"commit", "bootlu"} THEN "publishing"
         ELSE IF pc = "rollback" THEN "restoring" ELSE "idle")
  BY DEF Updating
<1>4. QED  BY <1>2, <1>3 DEF Abstract!vars, Views

LEMMA SameMedium ==
  ASSUME disk' = disk
  PROVE  Views' = Views
BY DEF Views, View, Valid

LEMMA StepShows ==
  ASSUME ConstantsAssumption, TypeInv, MediumInv, ProgressInv, OrigInv, OrigInv', [Next]_vars
  PROVE  [Abstract!Next]_(Abstract!vars)
<1>1. CASE faults' # 0
  <2>1. faults' > 0
    BY <1>1 DEF OrigInv
  <2>2. QED  BY <2>1 DEF Abstract!Next
<1>2. CASE faults' = 0
  <2>1. faults = 0 /\ ~CommitFails /\ ~RollbackFails
    <3>1. faults \in Nat
      BY DEF OrigInv
    <3>2. faults' = faults \/ faults' = faults + 1
      BY DEF Next, Program, Environment, LoadGptDisks, LoadOutOfMemory, DetectActiveSlot,
         SwitchAllGptPairs, WriteRegion, FlushBlocks, CommitFails, RollbackFails, SetUfsBootLu,
         SetUfsBootLuFails, Confirm, Cancel, PowerCut, StartAgain, PowerOn, vars, storage
    <3>3. faults' # faults + 1 /\ faults = 0
      BY <1>2, <3>1, <3>2
    <3>4. QED  BY <3>3 DEF CommitFails, RollbackFails
  <2>2. ASSUME NEW unreadable \in SUBSET Disk, LoadGptDisks(unreadable)
        PROVE  Abstract!Next
    <3>1. disk' = disk /\ ~Updating /\ ~Updating'
      BY <2>2 DEF LoadGptDisks, storage, Updating
    <3>2. QED  BY <1>2, <2>1, <3>1, SameMedium, RestShows
  <2>3. CASE LoadOutOfMemory \/ DetectActiveSlot \/ SwitchAllGptPairs \/ Cancel \/ StartAgain
    <3>1. disk' = disk /\ ~Updating /\ ~Updating'
      BY <2>3 DEF LoadOutOfMemory, DetectActiveSlot, SwitchAllGptPairs, Cancel, StartAgain,
         Idle, storage, Updating
    <3>2. QED  BY <1>2, <2>1, <3>1, SameMedium, RestShows
  <2>4. ASSUME NEW repaired \in SUBSET Damaged, PowerOn(repaired)
        PROVE  Abstract!Next
    <3>1. ~Updating /\ ~Updating'
      BY <2>4 DEF PowerOn, Updating
    <3>2. QED  BY <1>2, <2>1, <2>4, <3>1, RestoreShows, RestShows
  <2>5. CASE Confirm
    BY <1>2, <2>1, <2>5, StartShows DEF Abstract!Next
  <2>6. CASE WriteRegion
    <3>1. /\ UNCHANGED <<faults, pc>>
          /\ at \in Disk
      BY <2>6 DEF WriteRegion, TypeInv, TypeOK
    <3>2. CASE Views' = Views /\ Shown(orig)' = Shown(orig) /\ Shown(mem)' = Shown(mem)
      BY <3>1, <3>2 DEF Abstract!vars, Views
    <3>3. CASE Abstract!Publish(at) \/ Abstract!Restore(at)
      BY <2>1, <3>1, <3>3 DEF Abstract!Next
    <3>4. QED  BY <2>1, <2>6, <3>2, <3>3, WriteShows
  <2>7. CASE FlushBlocks
    <3>1. disk' = disk /\ UNCHANGED <<faults, mem, orig, modified>> /\ Writing
      BY <2>7 DEF FlushBlocks, storage, memory
    <3>2. Views' = Views /\ Updating
      BY <3>1, SameMedium DEF Updating, Writing
    <3>3. CASE pc' = "rolledback"
      <4>1. ~Updating'
        BY <3>3 DEF Updating
      <4>2. Abstract!Stop
        BY <2>1, <3>1, <3>2, <4>1, StopShows DEF Interrupted
      <4>3. QED  BY <2>1, <3>1, <4>2 DEF Abstract!Next
    <3>4. CASE pc' # "rolledback"
      <4>1. Updating' /\ (pc = "rollback" <=> pc' = "rollback")
        BY <2>7, <3>4 DEF FlushBlocks, NextDisk, Updating, Writing
      <4>2. QED  BY <3>1, <3>2, <4>1, SilentStep
    <3>5. QED  BY <3>3, <3>4
  <2>8. CASE SetUfsBootLu
    <3>1. disk' = disk /\ faults' = faults /\ Updating /\ ~Updating' /\ ~Writing
      BY <2>8 DEF SetUfsBootLu, Updating, Writing
    <3>2. Abstract!Stop
      BY <2>1, <3>1, StopShows
    <3>3. QED  BY <2>1, <3>1, <3>2 DEF Abstract!Next
  <2>9. CASE SetUfsBootLuFails
    <3>1. /\ disk' = disk /\ UNCHANGED <<faults, mem, orig, modified>>
          /\ pc = "bootlu" /\ pc' = "rollback"
      BY <2>9 DEF SetUfsBootLuFails, StartRollback, storage, memory
    <3>2. \A d \in Disk : View(d)' = View(d)
      BY <3>1 DEF View, Valid
    <3>3. Shown(orig)' = Shown(orig) /\ Shown(mem)' = Shown(mem) /\ Views' = Views
      BY <3>1, <3>2, ShownStays DEF Updating, Views
    <3>4. Abstract!Abandon
      BY <3>1, <3>3 DEF Abstract!Abandon, Views
    <3>5. QED  BY <2>1, <3>1, <3>4 DEF Abstract!Next
  <2>10. CASE PowerCut
    <3>1. /\ ~Updating' /\ faults' = faults
          /\ disk' \in IF Writing THEN Interrupted ELSE {disk}
      BY <2>10 DEF PowerCut, Updating
    <3>2. CASE Updating
      BY <2>1, <3>1, <3>2, StopShows DEF Abstract!Next
    <3>3. CASE ~Updating
      BY <1>2, <2>1, <3>1, <3>3, SameMedium, RestShows DEF Updating, Writing
    <3>4. QED  BY <3>2, <3>3
  <2>11. CASE UNCHANGED vars
    BY <2>11 DEF vars, Abstract!vars, View, Valid, Shown, Updating
  <2>12. QED
    BY <2>1, <2>2, <2>3, <2>4, <2>5, <2>6, <2>7, <2>8, <2>9, <2>10, <2>11
       DEF Next, Program, Environment
<1>3. QED  BY <1>1, <1>2

(***************************************************************************)
(* SwitchSlot implements SlotTables: as long as no write has failed, a     *)
(* reader of the GPTs sees each storage change in one step, from a table   *)
(* that was loaded to the one the update leaves, or back.                  *)
(***************************************************************************)
THEOREM TablesSwitch == Spec => TablesSwitchAtomically
<1>1. Init => Abstract!Init /\ OrigInv
  BY DEF Init, Abstract!Init, OrigInv, Early
<1>2. TypeInv /\ MediumInv /\ ProgressInv /\ OrigInv /\ OrigInv' /\ [Next]_vars
        => [Abstract!Next]_(Abstract!vars)
  BY StepShows, ConstantsAssumption
<1>3. QED
  BY <1>1, <1>2, InitTypeInv, NextTypeInv, InitMediumInv, NextMediumInv, NextOrigInv,
     SwitchAlways, PTL DEF Spec, Abstract!Spec, TablesSwitchAtomically

-----------------------------------------------------------------------------
(***************************************************************************)
(* Termination.  What is left of a start of the application, as a number:  *)
(* the writes the loop at hand still has to do, and what comes behind it.  *)
(* A write error while committing begins the second loop over all storages *)
(* again, but there is no third.                                           *)
(***************************************************************************)
LoopLeft  == FlushStep * (NumDisks - at) + (FlushStep + 1 - step)
WholeLoop == FlushStep * NumDisks + 1

Left ==
  CASE pc = "load"     -> 2 * WholeLoop + 4
    [] pc = "detect"   -> 2 * WholeLoop + 3
    [] pc = "switch"   -> 2 * WholeLoop + 2
    [] pc = "confirm"  -> 2 * WholeLoop + 1
    [] pc = "commit"   -> WholeLoop + 1 + LoopLeft
    [] pc = "bootlu"   -> WholeLoop + 1
    [] pc = "rollback" -> 1 + LoopLeft
    [] pc = "off"      -> 0
    [] OTHER           -> 1

LEMMA LeftBounds ==
  ASSUME ConstantsAssumption, TypeInv
  PROVE  /\ LoopLeft \in 1..WholeLoop - 1 /\ WholeLoop \in Nat
         /\ Left \in Nat
         /\ pc # "off" => Left >= 1
<1>1. NumDisks \in Nat /\ NumDisks >= 1 /\ at \in 1..NumDisks /\ step \in 1..5
  BY DEF ConstantsAssumption, TypeInv, TypeOK, Disk, FlushStep
<1>2. LoopLeft \in 1..WholeLoop - 1 /\ WholeLoop \in Nat
  BY <1>1 DEF LoopLeft, WholeLoop, FlushStep
<1>3. pc \in Phase
  BY DEF TypeInv, TypeOK
<1>4. QED  BY <1>2, <1>3 DEF Left, Phase, Idle

\* Every step of a start lowers what is left of it.
LEMMA LeftFalls ==
  ASSUME ConstantsAssumption, TypeInv, TypeInv', Next, runs' = runs
  PROVE  Left' < Left
<1>1. NumDisks \in Nat /\ NumDisks >= 1 /\ at \in 1..NumDisks /\ step \in 1..5
      /\ at' \in 1..NumDisks /\ step' \in 1..5 /\ runs \in Nat
  BY DEF ConstantsAssumption, TypeInv, TypeOK, Disk, FlushStep
<1>2. WholeLoop' = WholeLoop
  BY DEF WholeLoop
<1>3. /\ LoopLeft \in 1..WholeLoop - 1 /\ WholeLoop \in Nat /\ LoopLeft' \in 1..WholeLoop - 1
      /\ pc # "off" => Left >= 1
  <2>1. LoopLeft' \in 1..WholeLoop' - 1
    BY <1>1 DEF LoopLeft, WholeLoop, FlushStep
  <2>2. QED  BY <1>2, <2>1, LeftBounds
<1>4. pc \in Phase /\ pc' \in Phase
  BY DEF TypeInv, TypeOK
<1>5. ASSUME NextDisk(IF pc = "commit" THEN "bootlu" ELSE "rolledback") \/ NextDisk("rolledback"), Writing
      PROVE  \/ pc' = pc /\ LoopLeft' < LoopLeft
             \/ pc' \in {"bootlu", "rolledback"} /\ (pc' = "bootlu" => pc = "commit")
  <2>1. CASE Remaining = {}
    BY <1>5, <2>1 DEF NextDisk
  <2>2. CASE Remaining # {}
    <3>1. pc' = pc /\ at' \in First(Remaining) /\ step' = 1
      BY <1>5, <2>2 DEF NextDisk
    <3>2. at' > at
      BY <3>1 DEF First, Remaining
    <3>3. LoopLeft' < LoopLeft
      BY <1>1, <3>1, <3>2 DEF LoopLeft, FlushStep
    <3>4. QED  BY <3>1, <3>3
  <2>3. QED  BY <2>1, <2>2
<1>6. ASSUME Writing, pc' = pc, LoopLeft' < LoopLeft
      PROVE  Left' < Left
  BY <1>2, <1>3, <1>6 DEF Left, Writing
<1>7. CASE \E unreadable \in SUBSET Disk : LoadGptDisks(unreadable)
  <2>1. pc = "load" /\ pc' \in {"failed", "detect"}
    BY <1>7 DEF LoadGptDisks
  <2>2. QED  BY <1>2, <1>3, <2>1 DEF Left
<1>8. CASE LoadOutOfMemory
  BY <1>2, <1>3, <1>8 DEF LoadOutOfMemory, Left
<1>9. CASE DetectActiveSlot
  <2>1. pc = "detect" /\ pc' \in {"switch", "failed"}
    BY <1>9 DEF DetectActiveSlot
  <2>2. QED  BY <1>2, <1>3, <2>1 DEF Left
<1>10. CASE SwitchAllGptPairs
  <2>1. pc = "switch" /\ pc' \in {"confirm", "failed"}
    BY <1>10 DEF SwitchAllGptPairs
  <2>2. QED  BY <1>2, <1>3, <2>1 DEF Left
<1>11. CASE WriteRegion
  <2>1. Writing /\ pc' = pc /\ at' = at /\ step' = step + 1
    BY <1>11 DEF WriteRegion
  <2>2. LoopLeft' < LoopLeft
    BY <1>1, <2>1 DEF LoopLeft, FlushStep
  <2>3. QED  BY <1>6, <2>1, <2>2
<1>12. CASE FlushBlocks
  <2>1. Writing /\ NextDisk(IF pc = "commit" THEN "bootlu" ELSE "rolledback")
    BY <1>12 DEF FlushBlocks
  <2>2. CASE pc' = pc /\ LoopLeft' < LoopLeft
    BY <1>6, <2>1, <2>2
  <2>3. CASE pc' \in {"bootlu", "rolledback"} /\ (pc' = "bootlu" => pc = "commit")
    BY <1>2, <1>3, <2>1, <2>3 DEF Left, Writing
  <2>4. QED  BY <1>5, <2>1, <2>2, <2>3
<1>13. CASE CommitFails
  <2>1. pc = "commit" /\ pc' = "rollback"
    BY <1>13 DEF CommitFails, StartRollback
  <2>2. QED  BY <1>2, <1>3, <2>1 DEF Left
<1>14. CASE RollbackFails
  <2>1. pc = "rollback" /\ Writing /\ NextDisk("rolledback")
    BY <1>14 DEF RollbackFails, Writing
  <2>2. CASE pc' = pc /\ LoopLeft' < LoopLeft
    BY <1>6, <2>1, <2>2
  <2>3. CASE pc' \in {"bootlu", "rolledback"} /\ (pc' = "bootlu" => pc = "commit")
    BY <1>2, <1>3, <2>1, <2>3 DEF Left
  <2>4. QED  BY <1>5, <2>1, <2>2, <2>3
<1>15. CASE SetUfsBootLu
  BY <1>2, <1>3, <1>15 DEF SetUfsBootLu, Left
<1>16. CASE SetUfsBootLuFails
  BY <1>2, <1>3, <1>16 DEF SetUfsBootLuFails, StartRollback, Left
<1>17. CASE Confirm
  BY <1>2, <1>3, <1>17 DEF Confirm, Left
<1>18. CASE Cancel
  BY <1>2, <1>3, <1>18 DEF Cancel, Left
<1>19. CASE PowerCut
  <2>1. pc # "off" /\ pc' = "off"
    BY <1>19 DEF PowerCut
  <2>2. QED  BY <1>3, <2>1 DEF Left
<1>20. ~StartAgain /\ \A repaired : ~PowerOn(repaired)
  BY <1>1 DEF StartAgain, PowerOn
<1>21. QED
  BY <1>7, <1>8, <1>9, <1>10, <1>11, <1>12, <1>13, <1>14, <1>15, <1>16, <1>17, <1>18, <1>19, <1>20
  DEF Next, Program, Environment

\* A start of the application comes to an end whatever fails: as long as it is not
\* started again every step lowers a natural number, so that there are only finitely
\* many.  Where UpdateEnds needs a fair program to get on, this needs nothing: no
\* sequence of write errors keeps CommitModifiedGptDisks or RollbackModifiedGptDisks
\* in its loop.
THEOREM EveryRunIsFinite == Spec => [](Left \in Nat) /\ [][runs' = runs => Left' < Left]_vars
<1>1. Spec => []TypeInv
  BY InitTypeInv, NextTypeInv, PTL DEF Spec
<1>2. TypeInv => Left \in Nat
  BY LeftBounds, ConstantsAssumption
<1>3. TypeInv /\ TypeInv' /\ [Next]_vars => [runs' = runs => Left' < Left]_vars
  BY LeftFalls, ConstantsAssumption
<1>4. QED  BY <1>1, <1>2, <1>3, PTL DEF Spec

=============================================================================
