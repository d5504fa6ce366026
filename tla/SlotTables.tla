----------------------------- MODULE SlotTables -----------------------------
(***************************************************************************)
(* What the slot switch promises about the partition tables, seen from the *)
(* bootloader: each storage shows one table, and the switch replaces the   *)
(* tables storage by storage, each in a single step, or puts the earlier   *)
(* ones back.  No storage ever shows anything else, and none is ever       *)
(* without a table, until the storage has reported a failed write.         *)
(*                                                                         *)
(* before[d] and after[d] are the tables storage d may show outside and    *)
(* as a result of the update (a GPT has two copies, which need not agree   *)
(* outside the entries that are switched).                                 *)
(***************************************************************************)

CONSTANT Disk

VARIABLES
  view,     \* [Disk -> table]: the table the bootloader reads
  before,   \* [Disk -> set of tables]: what the update found
  after,    \* [Disk -> set of tables]: what the update leaves
  phase,    \* "idle", "publishing" or "restoring"
  faulty    \* a write has failed: nothing more is promised

vars == <<view, before, after, phase, faulty>>

Init == phase = "idle" /\ faulty = FALSE

\* The user confirmed: the tables of every storage to update are known.
Begin ==
  /\ phase = "idle" /\ phase' = "publishing"
  /\ view' = view
  /\ \A d \in Disk : view[d] \in before'[d]

\* One storage shows its new table.
Publish(d) ==
  /\ phase = "publishing" /\ phase' = phase
  /\ \E t \in after[d] : view' = [view EXCEPT ![d] = t]
  /\ UNCHANGED <<before, after>>

\* The update is abandoned; from here on no storage gets its new table.
Abandon ==
  /\ phase = "publishing" /\ phase' = "restoring"
  /\ UNCHANGED <<view, before, after>>

Restore(d) ==
  /\ phase = "restoring" /\ phase' = phase
  /\ \E t \in before[d] : view' = [view EXCEPT ![d] = t]
  /\ UNCHANGED <<before, after>>

\* The update ended or was interrupted: the last storage may still change.
Stop ==
  /\ phase # "idle" /\ phase' = "idle"
  /\ \/ view' = view
     \/ \E d \in Disk :
          \E t \in (IF phase = "publishing" THEN after ELSE before)[d] :
            view' = [view EXCEPT ![d] = t]

\* Outside an update the tables stay.
Rest == phase = "idle" /\ phase' = "idle" /\ view' = view

Next ==
  \/ /\ UNCHANGED faulty /\ ~faulty
     /\ \/ Begin \/ Abandon \/ Stop \/ Rest
        \/ \E d \in Disk : Publish(d) \/ Restore(d)
  \/ faulty'

Spec == Init /\ [][Next]_vars
=============================================================================
