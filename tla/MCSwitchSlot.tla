--------------------------- MODULE MCSwitchSlot ----------------------------
(***************************************************************************)
(* A phone with two storages: boot_a and boot_b on the first, xbl_a on the *)
(* first and xbl_b on the second, as UFS phones have them.                 *)
(***************************************************************************)
EXTENDS SwitchSlot, TLC

CONSTANTS boot, xbl

MCPairs == {boot, xbl}
MCHome  == (boot :> [s \in Slot |-> 1]) @@ (xbl :> [A |-> 1, B |-> 2])
MCGuids == {"live", "spare"}

\* The tables of a phone whose pair p has the slots in active[p] active.
Phone(active, renamed) ==
  [d \in Disk |-> [c \in Copy |-> [e \in EntriesOn(d) |->
     [active  |-> e[2] \in active[e[1]],
      type    |-> IF e[2] \in active[e[1]] THEN "live" ELSE "spare",
      renamed |-> c = "backup" /\ e \in renamed]]]]

\* Uniform and mixed phones, pairs with no or two active slots, and one
\* whose backup array names an entry differently.
MCInitialTables ==
  {Phone(active, {}) : active \in [Pairs -> SUBSET Slot]}
    \union {Phone([p \in Pairs |-> {"A"}], {<<xbl, "B">>})}

\* Phones that can be switched.
MCUniformTables == {Phone([p \in Pairs |-> {"A"}], {}), Phone([p \in Pairs |-> {"B"}], {})}
=============================================================================
