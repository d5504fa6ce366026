----------------------------- MODULE SwitchSlot -----------------------------
(***************************************************************************)
(* The SwitchSlot application (QcomPkg/Applications/SwitchSlot): it moves  *)
(* every A/B partition pair of a phone from one slot to the other, by      *)
(* rewriting the GUID partition tables of all storages, and then selects   *)
(* the boot LUN of the new slot.                                           *)
(*                                                                         *)
(* A GPT has a primary and a backup copy; a copy is a header, which holds  *)
(* the CRC32 of an entry array, and that array.  The model keeps, for a    *)
(* header, the array its CRCs were computed over (CRC32 is taken to tell   *)
(* arrays apart), so a copy is valid when header and array are equal.      *)
(* Storage survives a power cut; everything else is memory of one run.     *)
(*                                                                         *)
(* A write that fails, or that the power cut interrupts, leaves the region *)
(* as it was, as intended, or torn.  Regions reach the medium in the order *)
(* they are written: a write cache that reorders them is not modelled.     *)
(***************************************************************************)
EXTENDS Naturals, FiniteSets

CONSTANTS
  NumDisks,      \* the storages that carry a GPT, in Block IO handle order
  Pairs,         \* names of A/B partition pairs ("boot", "xbl", ...), unique
  Home,          \* [Pairs -> [Slot -> Disk]]: where each partition lives
  BootPair,      \* the pair named "boot"
  Guids,         \* partition type GUIDs
  InitialTables, \* contents of the tables before the first run
  Torn,          \* what an interrupted write leaves
  NoTable,       \* memory that holds no table
  MaxFaults,     \* bound: write errors in a behaviour
  MaxRuns        \* bound: starts of the application

Disk  == 1..NumDisks
Slot  == {"A", "B"}
Copy  == {"primary", "backup"}
Part  == {"header", "entries"}
Entry == Pairs \X Slot

HomeOf(e)    == Home[e[1]][e[2]]
EntriesOn(d) == {e \in Entry : HomeOf(e) = d}
Other(s)     == IF s = "A" THEN "B" ELSE "A"

(***************************************************************************)
(* A partition entry: the active attribute (bit 50), the type GUID, and    *)
(* whether its name differs from the one the primary array has there       *)
(* (FALSE in a primary array).                                             *)
(***************************************************************************)
Partition == [active : BOOLEAN, type : Guids, renamed : BOOLEAN]
Table(d)  == [EntriesOn(d) -> Partition]
Tables    == UNION {Table(d) : d \in Disk}

ASSUME ConstantsAssumption ==
  /\ NumDisks \in Nat \ {0}
  /\ Home \in [Pairs -> [Slot -> Disk]]
  /\ BootPair \in Pairs
  /\ Torn \notin Tables /\ NoTable \notin Tables
  /\ \A tables \in InitialTables, d \in Disk, c \in Copy : tables[d][c] \in Table(d)
  /\ MaxFaults \in Nat /\ MaxRuns \in Nat

VARIABLES
  disk,      \* storage: [Disk -> [Copy -> [Part -> table or Torn]]]
  bootLu,    \* storage: slot whose boot LUN the UFS device starts from
  pc,        \* where SwitchSlotEntry is
  loaded,    \* storages whose GPT was loaded (the Disks array)
  mem,       \* PrimaryEntries and BackupEntries of each loaded storage
  orig,      \* OriginalPrimaryEntries and OriginalBackupEntries
  modified,  \* storages whose Modified flag is set
  current,   \* CurrentSlot
  at, step,  \* the storage and the write CommitGptDisk has reached
  rbFailed,  \* the rollback reported a storage it could not restore
  faults,    \* write errors so far
  runs       \* starts of the application so far

storage == <<disk, bootLu>>
memory  == <<loaded, mem, orig, modified, current, rbFailed>>
vars    == <<disk, bootLu, pc, loaded, mem, orig, modified, current,
             at, step, rbFailed, faults, runs>>

Idle    == {"success", "failed", "cancelled", "rolledback", "off"}
Phase   == Idle \union {"load", "detect", "switch", "confirm",
                        "commit", "bootlu", "rollback"}
Target  == Other(current)
Writing == pc \in {"commit", "rollback"}

\* ReadGptHeader and ReadGptEntryArray accept the copy.
Valid(copy) == copy["header"] # Torn /\ copy["header"] = copy["entries"]

BothValid(d) == \A c \in Copy : Valid(disk[d][c])
Readable(d)  == \E c \in Copy : Valid(disk[d][c])

\* The table a reader of the GPT uses: the primary, else the backup.
View(d) ==
  IF Valid(disk[d]["primary"]) THEN disk[d]["primary"]["entries"]
  ELSE IF Valid(disk[d]["backup"]) THEN disk[d]["backup"]["entries"]
  ELSE Torn

NoTables == [d \in Disk |-> [c \in Copy |-> NoTable]]

Init ==
  /\ \E tables \in InitialTables :
       disk = [d \in Disk |-> [c \in Copy |-> [p \in Part |-> tables[d][c]]]]
  /\ bootLu \in Slot
  /\ pc = "load" /\ runs = 1 /\ faults = 0 /\ rbFailed = FALSE
  /\ loaded = {} /\ modified = {} /\ mem = NoTables /\ orig = NoTables
  /\ current = "A" /\ at = 1 /\ step = 1

-----------------------------------------------------------------------------
(***************************************************************************)
(* Loading.  A storage is used only when both copies read back and check;  *)
(* any other one is skipped without an error, whether it has no GPT, a     *)
(* damaged copy, or could not be read this time.                           *)
(***************************************************************************)
LoadGptDisks(unreadable) ==
  LET found == {d \in Disk \ unreadable : BothValid(d)}
      read  == [d \in Disk |-> [c \in Copy |->
                 IF d \in found THEN disk[d][c]["entries"] ELSE NoTable]]
  IN /\ pc = "load"
     /\ loaded' = found /\ mem' = read /\ orig' = read
     /\ pc' = IF found = {} THEN "failed" ELSE "detect"
     /\ UNCHANGED <<storage, modified, current, at, step, rbFailed, faults, runs>>

\* No memory for a table: the disks loaded so far are freed, the run ends.
LoadOutOfMemory ==
  /\ pc = "load" /\ pc' = "failed"
  /\ UNCHANGED <<storage, memory, at, step, faults, runs>>

PairLoaded(p)  == \A s \in Slot : Home[p][s] \in loaded
Primary(p, s)  == mem[Home[p][s]]["primary"][<<p, s>>]
ActiveSlots(p) == {s \in Slot : Primary(p, s).active}
HasOneSlot(p)  == \E s \in Slot : ActiveSlots(p) = {s}

\* DetectActiveSlotFromBoot looks at boot_a and boot_b on one storage.
SlotFromBoot ==
  IF PairLoaded(BootPair) /\ Home[BootPair]["A"] = Home[BootPair]["B"]
       /\ HasOneSlot(BootPair)
  THEN ActiveSlots(BootPair) ELSE {}

\* DetectActiveSlotFromPairs looks at every pair that has one active slot.
SlotFromPairs == UNION {ActiveSlots(p) : p \in {q \in Pairs : PairLoaded(q) /\ HasOneSlot(q)}}

DetectedSlots == IF SlotFromBoot # {} THEN SlotFromBoot ELSE SlotFromPairs

DetectActiveSlot ==
  /\ pc = "detect"
  /\ \/ \E s \in Slot : DetectedSlots = {s} /\ current' = s /\ pc' = "switch"
     \/ (\A s \in Slot : DetectedSlots # {s}) /\ pc' = "failed" /\ UNCHANGED current
  /\ UNCHANGED <<storage, loaded, mem, orig, modified, at, step, rbFailed, faults, runs>>

(***************************************************************************)
(* Switching in memory.  SwitchGptPair refuses a pair whose backup entries *)
(* carry other names, one with both slots active, and one that is active   *)
(* in the other slot than detected; it skips a pair with none active.      *)
(***************************************************************************)
Renamed(p) == \E s \in Slot, c \in Copy : mem[Home[p][s]][c][<<p, s>>].renamed
\* Mutation: the pair's slot is not compared with the detected one.
RefusedNotComparing(p) == PairLoaded(p) /\ (Renamed(p) \/ ActiveSlots(p) = Slot)

Refused(p) == PairLoaded(p) /\ (Renamed(p) \/ ActiveSlots(p) \notin {{}, {current}})
Switched   == {p \in Pairs : PairLoaded(p) /\ ActiveSlots(p) # {}}

\* SetGptEntrySlotState with the GUIDs of the pair swapped.
SwitchEntry(e, old) ==
  IF e[1] \in Switched
  THEN [old EXCEPT !.active = (e[2] = Target),
                   !.type   = Primary(e[1], Other(e[2])).type]
  ELSE old

\* Mutation: DiskB->Modified is not set.
TouchedDisksOfA == {Home[p]["A"] : p \in Switched}

TouchedDisks == {Home[p][s] : p \in Switched, s \in Slot}

SwitchAllGptPairs ==
  /\ pc = "switch"
  /\ IF Switched # {} /\ \A p \in Pairs : ~Refused(p)
     THEN /\ pc' = "confirm" /\ modified' = TouchedDisks
          /\ mem' = [d \in Disk |-> [c \in Copy |->
                      IF d \in loaded
                      THEN [e \in EntriesOn(d) |-> SwitchEntry(e, mem[d][c][e])]
                      ELSE NoTable]]
     ELSE pc' = "failed" /\ UNCHANGED <<mem, modified>>
  /\ UNCHANGED <<storage, loaded, orig, current, at, step, rbFailed, faults, runs>>

\* The storage with the lowest index: the loops over Disks begin with it.
First(S) == {d \in S : \A e \in S : d <= e}

\* Volume Up: start writing.
Confirm ==
  /\ pc = "confirm" /\ pc' = "commit" /\ at' \in First(modified) /\ step' = 1
  /\ UNCHANGED <<storage, memory, faults, runs>>

\* Volume Down or Escape.
Cancel ==
  /\ pc = "confirm" /\ pc' = "cancelled"
  /\ UNCHANGED <<storage, memory, at, step, faults, runs>>

-----------------------------------------------------------------------------
(***************************************************************************)
(* Writing.  CommitGptDisk writes backup entries, backup header, primary   *)
(* entries, primary header and then flushes; CommitModifiedGptDisks and    *)
(* RollbackModifiedGptDisks do so for each modified storage in order, with *)
(* the new tables and with the original ones.                              *)
(***************************************************************************)
\* Mutation: each header is written to the other copy's place.
CopyAtCrossed(n) == IF n \in {1, 4} THEN "backup" ELSE "primary"

\* Mutation: entries go to one copy, headers to the other.
CopyAtByPart(n) == IF n \in {2, 4} THEN "backup" ELSE "primary"

CopyAt(n) == IF n \in {1, 2} THEN "backup" ELSE "primary"
PartAt(n) == IF n \in {1, 3} THEN "entries" ELSE "header"
FlushStep == 5

\* Mutation: RestoreOriginal is ignored.
GoalNotOriginal(d) == mem[d]

Goal(d) == IF pc = "rollback" THEN orig[d] ELSE mem[d]

\* The medium with x in the region the current write is about.
Put(x) == [disk EXCEPT ![at][CopyAt(step)][PartAt(step)] = x]

\* What a write that did not complete may leave.
Interrupted ==
  IF step = FlushStep THEN {disk}
  ELSE {disk, Put(Torn), Put(Goal(at)[CopyAt(step)])}

\* Mutation: the loop ends after one storage.
RemainingNone == {d \in modified : d > at /\ d < at}

\* Mutation: the loop does not leave the storage it is at.
RemainingWithThis == {d \in modified : d >= at}

Remaining == {d \in modified : d > at}

\* On to the next modified storage, or out of the loop.
NextDisk(end) ==
  IF Remaining # {}
  THEN pc' = pc /\ at' \in First(Remaining) /\ step' = 1
  ELSE pc' = end /\ UNCHANGED <<at, step>>

StartRollback == pc' = "rollback" /\ at' \in First(modified) /\ step' = 1

WriteRegion ==
  /\ Writing /\ step < FlushStep
  /\ disk' = Put(Goal(at)[CopyAt(step)])
  /\ step' = step + 1
  /\ UNCHANGED <<bootLu, pc, memory, at, faults, runs>>

FlushBlocks ==
  /\ Writing /\ step = FlushStep
  /\ NextDisk(IF pc = "commit" THEN "bootlu" ELSE "rolledback")
  /\ UNCHANGED <<storage, memory, faults, runs>>

\* Any step of CommitGptDisk returns an error while committing.
CommitFails ==
  /\ pc = "commit" /\ faults < MaxFaults /\ faults' = faults + 1
  /\ disk' \in Interrupted
  /\ StartRollback
  /\ UNCHANGED <<bootLu, memory, runs>>

\* The same while rolling back: the error is printed, the loop goes on.
RollbackFails ==
  /\ pc = "rollback" /\ faults < MaxFaults /\ faults' = faults + 1
  /\ disk' \in Interrupted
  /\ rbFailed' = TRUE
  /\ NextDisk("rolledback")
  /\ UNCHANGED <<bootLu, loaded, mem, orig, modified, current, runs>>

SetUfsBootLu ==
  /\ pc = "bootlu" /\ pc' = "success" /\ bootLu' = Target
  /\ UNCHANGED <<disk, memory, at, step, faults, runs>>

\* No Card Info protocol, or SetBootLU reports an error and changes nothing.
SetUfsBootLuFails ==
  /\ pc = "bootlu" /\ StartRollback
  /\ UNCHANGED <<storage, memory, faults, runs>>

-----------------------------------------------------------------------------
(***************************************************************************)
(* Around the application: power cuts, and the next start.  When the phone *)
(* starts, PartitionDxe (external, linked by SiliciumPkg.dsc.inc) may      *)
(* rewrite a damaged copy from the valid one.                              *)
(***************************************************************************)
PowerCut ==
  /\ pc # "off" /\ pc' = "off"
  /\ disk' \in IF Writing THEN Interrupted ELSE {disk}
  /\ UNCHANGED <<bootLu, memory, at, step, faults, runs>>

Damaged == {d \in Disk : Readable(d) /\ ~BothValid(d)}

RestoreGpt(d) == [c \in Copy |-> [p \in Part |-> View(d)]]

Forget ==
  /\ loaded' = {} /\ modified' = {} /\ mem' = NoTables /\ orig' = NoTables
  /\ current' = "A" /\ at' = 1 /\ step' = 1 /\ rbFailed' = FALSE

PowerOn(repaired) ==
  /\ pc = "off" /\ runs < MaxRuns /\ runs' = runs + 1 /\ pc' = "load"
  /\ disk' = [d \in Disk |-> IF d \in repaired THEN RestoreGpt(d) ELSE disk[d]]
  /\ Forget
  /\ UNCHANGED <<bootLu, faults>>

\* Back in the menu (or after the cold reset), the user starts it again.
StartAgain ==
  /\ pc \in Idle \ {"off"} /\ runs < MaxRuns /\ runs' = runs + 1 /\ pc' = "load"
  /\ Forget
  /\ UNCHANGED <<storage, faults>>

Program ==
  \/ \E unreadable \in SUBSET Disk : LoadGptDisks(unreadable)
  \/ LoadOutOfMemory \/ DetectActiveSlot \/ SwitchAllGptPairs
  \/ WriteRegion \/ FlushBlocks \/ CommitFails \/ RollbackFails
  \/ SetUfsBootLu \/ SetUfsBootLuFails

Environment ==
  \/ Confirm \/ Cancel \/ PowerCut \/ StartAgain
  \/ \E repaired \in SUBSET Damaged : PowerOn(repaired)

Next == Program \/ Environment

Spec == Init /\ [][Next]_vars

\* The firmware keeps executing the application; keys and power are free.
FairSpec == Spec /\ WF_vars(Program)

-----------------------------------------------------------------------------
TypedDisk ==
  /\ disk \in [Disk -> [Copy -> [Part -> Tables \union {Torn}]]]
  /\ \A d \in Disk, c \in Copy, p \in Part : disk[d][c][p] \in Table(d) \union {Torn}

TypedImage(image) ==
  /\ image \in [Disk -> [Copy -> Tables \union {NoTable}]]
  /\ \A d \in Disk, c \in Copy : image[d][c] \in Table(d) \union {NoTable}

\* Types of the variables, and the bounds of their values.
TypeOK ==
  /\ TypedDisk /\ TypedImage(mem) /\ TypedImage(orig)
  /\ bootLu \in Slot /\ pc \in Phase
  /\ loaded \in SUBSET Disk /\ modified \in SUBSET Disk
  /\ current \in Slot /\ at \in Disk /\ step \in 1..FlushStep
  /\ rbFailed \in BOOLEAN /\ faults \in 0..MaxFaults /\ runs \in Nat

(***************************************************************************)
(* However the update or the rollback is cut short, every storage keeps a  *)
(* GPT that reads back, as long as no write has reported an error: the     *)
(* order of the writes in CommitGptDisk ("Update the Backup GPT first").   *)
(***************************************************************************)
SurvivesPowerCut == faults = 0 => \A d \in Disk : Readable(d)

(***************************************************************************)
(* When RollbackModifiedGptDisks reported no storage, each one it went     *)
(* through holds its original tables again in both copies, no matter which *)
(* write of which storage had failed.                                      *)
(***************************************************************************)
RollbackRestores ==
  pc = "rolledback" /\ ~rbFailed =>
    \A d \in modified, c \in Copy, p \in Part : disk[d][c][p] = orig[d][c]

(***************************************************************************)
(* "Slot ... is now Active" is printed only when every pair of the loaded  *)
(* storages that had an active slot now has the target active, in both     *)
(* copies and with the type GUIDs exchanged, and the boot LUN agrees.      *)
(***************************************************************************)
EntryIsSwitched(p, s) ==
  LET home == Home[p][s]
      old  == orig[home]["primary"][<<p, s>>]
      twin == orig[Home[p][Other(s)]]["primary"][<<p, Other(s)>>]
  IN \A c \in Copy :
       /\ Valid(disk[home][c])
       /\ LET new == disk[home][c]["entries"][<<p, s>>]
          IN new.active = ~old.active /\ new.type = twin.type

SuccessIsComplete ==
  pc = "success" =>
    /\ bootLu = Target
    /\ \A p \in Pairs, s \in Slot :
         PairLoaded(p) /\ ActiveSlots(p) # {} => EntryIsSwitched(p, s)

(***************************************************************************)
(* A phone whose loaded pairs disagree about the active slot, or have two  *)
(* of them, is never written to, although SwitchAllGptPairs finds out only *)
(* after it has changed earlier pairs in memory.                           *)
(***************************************************************************)
OriginallyActive(p) ==
  {s \in Slot : orig[Home[p][s]]["primary"][<<p, s>>].active}

WritesOnlyUniformPhones ==
  [][disk' # disk /\ Writing =>
       \A p, q \in Pairs : PairLoaded(p) /\ PairLoaded(q) =>
         /\ Cardinality(OriginallyActive(p)) <= 1
         /\ {} \in {OriginallyActive(p), OriginallyActive(q)}
              \/ OriginallyActive(p) = OriginallyActive(q)]_vars

(***************************************************************************)
(* SetUfsBootLu comes last: the boot LUN moves only when all the storages  *)
(* to update hold their new tables in both copies.                         *)
(***************************************************************************)
BootLuMovesLast ==
  [][bootLu' # bootLu =>
       /\ bootLu' = Target
       /\ \A p \in Switched, s \in Slot, c \in Copy, r \in Part :
            disk[Home[p][s]][c][r] = mem[Home[p][s]][c]]_vars

(***************************************************************************)
(* The bootloader's view of the tables is switched storage by storage,     *)
(* each in one step, and never mixes old and new (see SlotTables).         *)
(***************************************************************************)
Updating == pc \in {"commit", "bootlu", "rollback"}

Shown(image) ==
  [d \in Disk |-> IF Updating /\ d \in modified
                 THEN {image[d][c] : c \in Copy} ELSE {View(d)}]

Abstract == INSTANCE SlotTables WITH
  view   <- [d \in Disk |-> View(d)],
  before <- Shown(orig),
  after  <- Shown(mem),
  phase  <- IF pc \in {"commit", "bootlu"} THEN "publishing"
            ELSE IF pc = "rollback" THEN "restoring" ELSE "idle",
  faulty <- faults > 0

TablesSwitchAtomically == Abstract!Spec

(***************************************************************************)
(* Once confirmed, the update comes to an end: it succeeds, is rolled back *)
(* or the power goes; no sequence of write errors keeps it in its loops.   *)
(***************************************************************************)
UpdateEnds == pc = "commit" ~> pc \in Idle

-----------------------------------------------------------------------------
(***************************************************************************)
(* Claims of the comments that the runs refute.                            *)
(***************************************************************************)

(***************************************************************************)
(* "Update the Backup GPT first, so that the Primary GPT stays valid, if   *)
(* the Storage can't be Written completely": some copy stays valid when a  *)
(* write fails and the power goes.  The rollback begins with the backup    *)
(* even when the failed write has just damaged the primary.                *)
(***************************************************************************)
AlwaysBootable == pc = "off" => \A d \in Disk : Readable(d)
=============================================================================
