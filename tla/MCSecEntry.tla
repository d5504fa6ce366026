------------------------------ MODULE MCSecEntry ------------------------------
(***************************************************************************)
(* Tables of up to three regions over seven addresses, in any order, with  *)
(* overlaps, neighbours, holes, an empty region, a register region below   *)
(* SystemMemoryBase that may reach into RAM, a device in RAM and a region  *)
(* without HOB; partitions that overlap regions and each other.            *)
(*                                                                         *)
(* Three stream mapping registers over three context banks, which may      *)
(* share a bank, cover a stream to keep and another one, translate or not; *)
(* up to two banks can be tracked.  BootShim without the kernel header is  *)
(* four blocks, its loop in the last three; the payload lies at every      *)
(* distance below, above, across and at FD_BASE; the stack ends right in   *)
(* front of the firmware.  SEC finds every table with a plain SMMU and     *)
(* payload, and every SMMU and every payload with a table that ends in     *)
(* CpuDeadLoop.                                                            *)
(***************************************************************************)
EXTENDS SecEntry

From(b, e)      == [base |-> b, end |-> e]
Of(b, e, hob)   == [base |-> b, end |-> e, hob |-> hob]
MCRegions ==
  {Of(b, b + n, "AddMem") : b \in 1..4, n \in 1..2} \union
  {Of(3, 3, "AddMem"), Of(0, 1, "AddDev"), Of(0, 2, "AddDev"), Of(4, 5, "AddDev"), Of(2, 3, "NoHob")}
MCRanges == {From(1, 3), From(1, 6), From(2, 5), From(3, 7), From(4, 4)}

SeqsUpTo(n, S)  == UNION {[1..k -> S] : k \in 0..n}
MCTooMany       == [i \in 1..4 |-> Of(i, i + 1, "AddMem")]
MCMemoryMaps    == SeqsUpTo(3, MCRegions) \union {MCTooMany}
MCRamPartitions == SeqsUpTo(2, MCRanges) \union {<<From(1, 3), From(3, 7), From(4, 4)>>}

Matches(S)      == [valid |-> TRUE, covers |-> S]
Unmapped        == [valid |-> FALSE, covers |-> {}]
To(type, c)     == [type |-> type, cbndx |-> c]
MCEntries ==
  ({Matches(S) : S \in {{"display"}, {"usb"}, {"display", "usb"}}} \X
     {To("translate", c) : c \in 0..1}) \union
  {<<Matches({"display"}), To("translate", 2)>>, <<Matches({"usb"}), To("bypass", 0)>>,
   <<Unmapped, To("translate", 1)>>}
MCBank(t, c)    == [tables |-> t, cbar |-> c]
MCSmmu(e, skip) ==
  [smr |-> [i \in 1..3 |-> e[i][1]], s2cr |-> [i \in 1..3 |-> e[i][2]], skip |-> skip,
   bank |-> [c \in 0..2 |-> CASE c = 0 -> MCBank(TRUE, "S1 S2 bypass")
                              [] c = 1 -> MCBank(TRUE, "S2")
                              [] c = 2 -> MCBank(TRUE, "S1 S2")]]
MCSmmuStates ==
  {MCSmmu(e, skip) : e \in [1..3 -> MCEntries], skip \in {{}, {"display"}}}

MCPlain     == CHOOSE s \in MCSmmuStates : \A i \in 1..3 : ~s.smr[i].valid
MCDeadLoop  == <<Of(1, 3, "AddMem"), Of(2, 4, "AddMem")>>
Phone(m, s, p) == [map |-> m, smmu |-> s, payload |-> p]
MCPhones ==
  {Phone(m, MCPlain, 8) : m \in MCMemoryMaps} \union
  {Phone(MCDeadLoop, s, 8) : s \in MCSmmuStates} \union
  {Phone(MCDeadLoop, MCPlain, p) : p \in 4..16}
MCLoopBlocks == 1..3
=============================================================================
