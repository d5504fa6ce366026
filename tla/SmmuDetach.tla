------------------------------ MODULE SmmuDetach ------------------------------
(***************************************************************************)
(* ArmSmmuDetach: SEC takes the SMMU from the boot loader.  The display    *)
(* goes on scanning out of memory while it runs, so the stream mapping     *)
(* registers of its streams and the context banks behind them have to stay *)
(* as they are; every other stream is detached, and only then are the      *)
(* banks nobody tracks taken away.  One action per register the hardware   *)
(* looks at while the program runs.                                        *)
(*                                                                         *)
(* A stream mapping register stands for the set of streams it matches: its *)
(* ID where its mask is zero.                                              *)
(***************************************************************************)
EXTENDS Naturals, FiniteSets

CONSTANTS
  NumSmrg,         \* stream mapping registers (ID0), numbered from 1
  NumContextBanks, \* context banks (ID1)
  ContextBankMax,  \* size of the array ContextBank: 16
  Streams,         \* stream IDs
  SmmuStates       \* registers the boot loader may leave, and SkipStreams

Smr     == [valid : BOOLEAN, covers : SUBSET Streams]
S2cr    == [type : {"translate", "bypass", "fault"}, cbndx : Nat]
Banks   == 0..NumContextBanks - 1
Cbar    == {"S2", "S1 S2 bypass", "S1 S2 bypass VMID FF", "S1 S2 fault", "S1 S2"}
Bank    == [tables : BOOLEAN, cbar : Cbar]
SmmuSet == [smr : [1..NumSmrg -> Smr], s2cr : [1..NumSmrg -> S2cr], bank : [Banks -> Bank],
            skip : SUBSET Streams]

ASSUME SmmuAssumption ==
  /\ NumSmrg \in Nat /\ NumContextBanks \in Nat /\ ContextBankMax \in Nat
  /\ SmmuStates \subseteq SmmuSet

VARIABLES
  smmu,        \* where ArmSmmuDetach is
  smr, s2cr,   \* stream mapping registers
  bank,        \* CBAR, and whether TTBR0, TTBR1 and TCR hold tables
  smrIndex,    \* i of the first loop
  cbIndex,     \* i of the second loop
  ContextBank, \* banks of the streams to keep
  before       \* history: what the boot loader left, with SkipStreams

registers == <<smr, s2cr, bank>>
smmuVars  == <<smmu, registers, smrIndex, cbIndex, ContextBank, before>>

SmmuInit ==
  /\ before \in SmmuStates
  /\ smr = before.smr /\ s2cr = before.s2cr /\ bank = before.bank
  /\ smmu = "start" /\ smrIndex = 1 /\ cbIndex = 0 /\ ContextBank = {}

ArmSmmuSkipStream(s) == s.covers \intersect before.skip # {}

-----------------------------------------------------------------------------
\* The memory map of the platform may have no region "SMMU".
NoSmmuRegion ==
  /\ smmu = "start" /\ smmu' = "absent"
  /\ UNCHANGED <<registers, smrIndex, cbIndex, ContextBank, before>>

ArmSmmuDetach ==
  /\ smmu = "start" /\ smmu' = "smr"
  /\ UNCHANGED <<registers, smrIndex, cbIndex, ContextBank, before>>

UnusedSmr ==
  /\ smmu = "smr" /\ smrIndex <= NumSmrg /\ ~smr[smrIndex].valid
  /\ smrIndex' = smrIndex + 1
  /\ UNCHANGED <<smmu, registers, cbIndex, ContextBank, before>>

\* The first stream takes the only place.
TrackFirst(c) == IF ContextBank = {} THEN {c} ELSE ContextBank

\* A full array tracks no more.
Track(c) ==
  IF c \in ContextBank \/ Cardinality(ContextBank) >= ContextBankMax THEN ContextBank
  ELSE ContextBank \union {c}

KeepStream ==
  /\ smmu = "smr" /\ smrIndex <= NumSmrg
  /\ smr[smrIndex].valid /\ ArmSmmuSkipStream(smr[smrIndex])
  /\ ContextBank' = Track(s2cr[smrIndex].cbndx) /\ smrIndex' = smrIndex + 1
  /\ UNCHANGED <<smmu, registers, cbIndex, before>>

\* First the stream faults, then it is no longer matched.
SetFault ==
  /\ smmu = "smr" /\ smrIndex <= NumSmrg
  /\ smr[smrIndex].valid /\ ~ArmSmmuSkipStream(smr[smrIndex])
  /\ s2cr' = [s2cr EXCEPT ![smrIndex].type = "fault"] /\ smmu' = "invalidate"
  /\ UNCHANGED <<smr, bank, smrIndex, cbIndex, ContextBank, before>>

InvalidateSmr ==
  /\ smmu = "invalidate" /\ smmu' = "smr"
  /\ smr' = [smr EXCEPT ![smrIndex].valid = FALSE] /\ smrIndex' = smrIndex + 1
  /\ UNCHANGED <<s2cr, bank, cbIndex, ContextBank, before>>

\* ArmInvalidateTlb is about the TLB of the CPU.
InvalidateTlb ==
  /\ smmu = "smr" /\ smrIndex > NumSmrg /\ smmu' = "bank"
  /\ UNCHANGED <<registers, smrIndex, cbIndex, ContextBank, before>>

SkipBank ==
  /\ smmu = "bank" /\ cbIndex < NumContextBanks /\ cbIndex \in ContextBank
  /\ cbIndex' = cbIndex + 1
  /\ UNCHANGED <<smmu, registers, smrIndex, ContextBank, before>>

ArmSmmuDisableContextBank ==
  /\ smmu = "bank" /\ cbIndex < NumContextBanks /\ cbIndex \notin ContextBank
  /\ bank' = [bank EXCEPT ![cbIndex].tables = FALSE] /\ smmu' = "cbar"
  /\ UNCHANGED <<smr, s2cr, smrIndex, cbIndex, ContextBank, before>>

\* A stage 2 bank stays one.
FreeCbar(c) == IF c \in {"S1 S2 bypass", "S1 S2"} THEN "S1 S2 bypass VMID FF" ELSE c

ArmSmmuFreeContextBank ==
  /\ smmu = "cbar" /\ smmu' = "bank" /\ cbIndex' = cbIndex + 1
  /\ bank' = [bank EXCEPT ![cbIndex].cbar = FreeCbar(@)]
  /\ UNCHANGED <<smr, s2cr, smrIndex, ContextBank, before>>

\* The last bank is left.
DetachEndsEarly ==
  /\ smmu = "bank" /\ cbIndex >= NumContextBanks - 1 /\ smmu' = "detached"
  /\ UNCHANGED <<registers, smrIndex, cbIndex, ContextBank, before>>

DetachEnds ==
  /\ smmu = "bank" /\ cbIndex >= NumContextBanks /\ smmu' = "detached"
  /\ UNCHANGED <<registers, smrIndex, cbIndex, ContextBank, before>>

SmmuNext ==
  \/ NoSmmuRegion \/ ArmSmmuDetach \/ UnusedSmr \/ KeepStream \/ SetFault \/ InvalidateSmr
  \/ InvalidateTlb \/ SkipBank \/ ArmSmmuDisableContextBank \/ ArmSmmuFreeContextBank \/ DetachEnds

SmmuSpec == SmmuInit /\ [][SmmuNext]_smmuVars

-----------------------------------------------------------------------------
Kept      == {i \in 1..NumSmrg : before.smr[i].valid /\ ArmSmmuSkipStream(before.smr[i])}
KeptBanks == {before.s2cr[i].cbndx : i \in Kept}

SmmuTypeOK ==
  /\ smmu \in {"start", "absent", "smr", "invalidate", "bank", "cbar", "detached"}
  /\ before \in SmmuSet /\ smr \in [1..NumSmrg -> Smr] /\ s2cr \in [1..NumSmrg -> S2cr]
  /\ bank \in [Banks -> Bank] /\ smrIndex \in Nat \ {0} /\ cbIndex \in Nat /\ ContextBank \subseteq Nat

\* At every register write: a stream to keep is mapped as the boot loader left
\* it, and no stream that still translates finds its tables gone.  That needs
\* the banks of the streams to keep to fit into the array of 16.
KeptStreamsTranslate ==
  Cardinality(KeptBanks) <= ContextBankMax =>
    /\ \A i \in Kept : smr[i] = before.smr[i] /\ s2cr[i] = before.s2cr[i]
    /\ \A i \in 1..NumSmrg : smr[i].valid /\ s2cr[i].type = "translate" /\ s2cr[i].cbndx \in Banks
         => bank[s2cr[i].cbndx] = before.bank[s2cr[i].cbndx]

\* In the end nothing but the streams to keep is mapped, and every other bank
\* is without tables and in a state a driver can take it over from.
Detached ==
  smmu = "detached" =>
    /\ \A i \in 1..NumSmrg : smr[i].valid => i \in Kept
    /\ \A c \in Banks \ KeptBanks :
         ~bank[c].tables /\ bank[c].cbar \in {"S2", "S1 S2 fault", "S1 S2 bypass VMID FF"}
=============================================================================
