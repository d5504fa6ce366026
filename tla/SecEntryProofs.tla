---------------------------- MODULE SecEntryProofs ----------------------------
(***************************************************************************)
(* SEC for any phone.                                                      *)
(*                                                                         *)
(* ArmSmmuDetach, for any number of stream mapping registers and context   *)
(* banks, whatever the boot loader left in them: the streams to keep       *)
(* translate at every register write, and in the end nothing else is       *)
(* mapped.  The invariant says which registers the two loops have passed,  *)
(* that only banks of streams to keep are tracked, and, where they fit     *)
(* into the array, that all of those passed are.                           *)
(*                                                                         *)
(* BootShim, for any place and size of the firmware: the invariant says    *)
(* how far the copy is, that what it has not read yet is still there, and  *)
(* that its loop has not changed.                                          *)
(*                                                                         *)
(* A step of SEC is one of SmmuDetach, one of SystemMemory, or neither, so *)
(* what is proved of the two is true of the whole.                         *)
(***************************************************************************)
EXTENDS SecEntry, SystemMemoryProofs, FiniteSetTheorems

Banking == smmu \in {"bank", "cbar", "detached"}

Untouched(i) == smr[i] = before.smr[i] /\ s2cr[i] = before.s2cr[i]

Taken(b) == ~b.tables /\ b.cbar \in {"S2", "S1 S2 fault", "S1 S2 bypass VMID FF"}

SmrInv ==
  /\ \A i \in Kept : Untouched(i)
  /\ \A i \in 1..NumSmrg : i < smrIndex /\ smr[i].valid => i \in Kept
  /\ \A i \in 1..NumSmrg : i > smrIndex => Untouched(i)
  /\ smmu # "invalidate" => \A i \in 1..NumSmrg : i = smrIndex => Untouched(i)
  /\ smmu = "invalidate" => smrIndex \in (1..NumSmrg) \ Kept
  /\ Banking => smrIndex > NumSmrg

KeepInv ==
  /\ ContextBank \subseteq KeptBanks
  /\ Cardinality(KeptBanks) <= ContextBankMax =>
       \A i \in Kept : i < smrIndex => before.s2cr[i].cbndx \in ContextBank

BankInv ==
  /\ ~Banking => bank = before.bank /\ cbIndex = 0
  /\ \A c \in Banks : c \in ContextBank => bank[c] = before.bank[c]
  /\ \A c \in Banks : c \notin ContextBank /\ c < cbIndex => Taken(bank[c])
  /\ smmu = "cbar" => cbIndex \in Banks \ ContextBank /\ ~bank[cbIndex].tables
  /\ smmu = "detached" => cbIndex >= NumContextBanks

DetachInv == SmmuTypeOK /\ SmrInv /\ KeepInv /\ BankInv

\* The streams to keep are a matter of what the boot loader left.
LEMMA KeptStays == before' = before => Kept' = Kept /\ KeptBanks' = KeptBanks
  BY DEF Kept, KeptBanks, ArmSmmuSkipStream

\* The banks of the streams to keep are finitely many.
LEMMA KeptBanksFinite == SmmuAssumption => IsFiniteSet(KeptBanks)
<1> SUFFICES ASSUME SmmuAssumption PROVE IsFiniteSet(KeptBanks)
  OBVIOUS
<1>1. IsFiniteSet(Kept)
  <2>1. IsFiniteSet(1..NumSmrg)
    BY FS_Interval DEF SmmuAssumption
  <2>2. Kept \subseteq 1..NumSmrg
    BY DEF Kept
  <2>3. QED  BY <2>1, <2>2, FS_Subset
<1> DEFINE f == [i \in Kept |-> before.s2cr[i].cbndx]
<1>2. f \in Surjection(Kept, KeptBanks)
  BY DEF Surjection, KeptBanks
<1>3. QED  BY <1>1, <1>2, FS_Surjection

\* Tracking one more bank of a stream to keep: it is tracked, unless there are
\* more than the array holds, and those that were stay.
LEMMA TrackKeeps ==
  ASSUME SmmuAssumption, ContextBank \subseteq KeptBanks, NEW c \in KeptBanks
  PROVE  /\ ContextBank \subseteq Track(c) /\ Track(c) \subseteq KeptBanks
         /\ Cardinality(KeptBanks) <= ContextBankMax => c \in Track(c)
<1>1. IsFiniteSet(KeptBanks)
  BY KeptBanksFinite
<1>2. /\ ContextBank \subseteq Track(c)
      /\ Track(c) \subseteq KeptBanks
  BY DEF Track
<1>3. ASSUME Cardinality(KeptBanks) <= ContextBankMax, c \notin ContextBank
      PROVE  ~(Cardinality(ContextBank) >= ContextBankMax)
  <2>1. IsFiniteSet(ContextBank) /\ Cardinality(ContextBank) <= Cardinality(KeptBanks)
    BY <1>1, FS_Subset
  <2>2. Cardinality(KeptBanks) \in Nat /\ Cardinality(ContextBank) \in Nat
    BY <1>1, <2>1, FS_CardinalityType
  <2>3. Cardinality(KeptBanks) # Cardinality(ContextBank)
    BY <1>1, <1>3, FS_Subset
  <2>4. QED  BY <1>3, <2>1, <2>2, <2>3 DEF SmmuAssumption
<1>4. QED  BY <1>2, <1>3 DEF Track

LEMMA DetachInit == SmmuAssumption /\ SmmuInit => DetachInv
<1> SUFFICES ASSUME SmmuAssumption, SmmuInit PROVE DetachInv
  OBVIOUS
<1>1. before \in SmmuSet
  BY DEF SmmuInit, SmmuAssumption
<1>2. SmmuTypeOK
  BY <1>1 DEF SmmuInit, SmmuTypeOK, SmmuSet
<1>3. SmrInv
  BY DEF SmmuInit, SmrInv, Untouched, Banking, Kept
<1>4. KeepInv
  BY DEF SmmuInit, KeepInv, Kept
<1>5. BankInv
  BY DEF SmmuInit, BankInv, Banking, Banks
<1>6. QED  BY <1>2, <1>3, <1>4, <1>5 DEF DetachInv

LEMMA TypeStep ==
  ASSUME SmmuAssumption, SmmuTypeOK, BankInv, [SmmuNext]_smmuVars
  PROVE  SmmuTypeOK' /\ before' = before
<1> USE DEF SmmuTypeOK, registers
<1>1. CASE NoSmmuRegion \/ ArmSmmuDetach \/ InvalidateTlb \/ DetachEnds
  BY <1>1 DEF NoSmmuRegion, ArmSmmuDetach, InvalidateTlb, DetachEnds
<1>2. CASE UnusedSmr \/ SkipBank
  <2>1. CASE UnusedSmr
    BY <2>1 DEF UnusedSmr
  <2>2. CASE SkipBank
    BY <2>2 DEF SkipBank
  <2>3. QED  BY <1>2, <2>1, <2>2
<1>3. CASE KeepStream
  <2>1. s2cr[smrIndex].cbndx \in Nat
    BY <1>3 DEF KeepStream, S2cr, SmmuAssumption
  <2>2. Track(s2cr[smrIndex].cbndx) \subseteq Nat
    BY <2>1 DEF Track
  <2>3. QED  BY <1>3, <2>2 DEF KeepStream
<1>4. CASE SetFault
  <2>1. s2cr' \in [1..NumSmrg -> S2cr]
    BY <1>4 DEF SetFault, S2cr
  <2>2. QED  BY <1>4, <2>1 DEF SetFault
<1>5. CASE InvalidateSmr
  <2>1. smr' \in [1..NumSmrg -> Smr]
    BY <1>5 DEF InvalidateSmr, Smr
  <2>2. QED  BY <1>5, <2>1 DEF InvalidateSmr
<1>6. CASE ArmSmmuDisableContextBank
  <2>1. bank' \in [Banks -> Bank]
    BY <1>6 DEF ArmSmmuDisableContextBank, Bank
  <2>2. QED  BY <1>6, <2>1 DEF ArmSmmuDisableContextBank
<1>7. CASE ArmSmmuFreeContextBank
  <2>1. bank' \in [Banks -> Bank]
    BY <1>7 DEF ArmSmmuFreeContextBank, Bank, Cbar, FreeCbar
  <2>2. QED  BY <1>7, <2>1 DEF ArmSmmuFreeContextBank
<1>8. CASE UNCHANGED smmuVars
  BY <1>8 DEF smmuVars
<1>9. QED  BY <1>1, <1>2, <1>3, <1>4, <1>5, <1>6, <1>7, <1>8 DEF SmmuNext

\* The first loop changes the register it is at, if nothing of it is to be kept.
LEMMA SmrStep ==
  ASSUME SmmuAssumption, SmmuTypeOK, SmrInv, before' = before, [SmmuNext]_smmuVars
  PROVE  SmrInv'
<1> USE DEF SmrInv, Untouched, Banking, registers, SmmuTypeOK
<1>0. Kept' = Kept /\ Kept \subseteq 1..NumSmrg
  BY KeptStays DEF Kept
<1>1. CASE NoSmmuRegion \/ ArmSmmuDetach
  BY <1>0, <1>1 DEF NoSmmuRegion, ArmSmmuDetach
<1>2. CASE UnusedSmr
  <2>1. /\ smmu = "smr" /\ smmu' = "smr" /\ smrIndex <= NumSmrg /\ ~smr[smrIndex].valid
        /\ smrIndex' = smrIndex + 1 /\ smrIndex \in Nat
        /\ UNCHANGED <<smr, s2cr, before>>
    BY <1>2 DEF UnusedSmr
  <2>2. \A i \in 1..NumSmrg : Untouched(i)' <=> Untouched(i)
    BY <2>1
  <2>3. \A i \in 1..NumSmrg : (i < smrIndex' <=> i < smrIndex \/ i = smrIndex)
    BY <2>1
  <2>4. QED  BY <1>0, <2>1, <2>2, <2>3
<1>3. CASE KeepStream
  <2>1. smrIndex \in 1..NumSmrg => smrIndex \in Kept
    BY <1>3 DEF KeepStream, Kept
  <2>2. QED  BY <1>0, <1>3, <2>1 DEF KeepStream
<1>4. CASE SetFault
  <2>1. smrIndex \notin Kept
    BY <1>4 DEF SetFault, Kept
  <2>2. smrIndex \in 1..NumSmrg /\ \A i \in 1..NumSmrg : i # smrIndex => s2cr'[i] = s2cr[i]
    BY <1>4 DEF SetFault, SmmuAssumption
  <2>3. QED  BY <1>0, <1>4, <2>1, <2>2 DEF SetFault
<1>5. CASE InvalidateSmr
  <2>1. /\ smrIndex \in (1..NumSmrg) \ Kept /\ ~smr'[smrIndex].valid
        /\ \A i \in 1..NumSmrg : i # smrIndex => smr'[i] = smr[i]
    BY <1>5 DEF InvalidateSmr, Smr
  <2>2. QED  BY <1>0, <1>5, <2>1 DEF InvalidateSmr
<1>6. CASE InvalidateTlb
  BY <1>0, <1>6 DEF InvalidateTlb
<1>7. CASE SkipBank \/ ArmSmmuDisableContextBank \/ ArmSmmuFreeContextBank \/ DetachEnds
  BY <1>0, <1>7 DEF SkipBank, ArmSmmuDisableContextBank, ArmSmmuFreeContextBank, DetachEnds
<1>8. CASE UNCHANGED smmuVars
  BY <1>0, <1>8 DEF smmuVars
<1>9. QED  BY <1>1, <1>2, <1>3, <1>4, <1>5, <1>6, <1>7, <1>8 DEF SmmuNext

\* Only KeepStream tracks, and the register it reads is as the boot loader left it.
LEMMA KeepStep ==
  ASSUME SmmuAssumption, SmmuTypeOK, SmrInv, KeepInv, before' = before, [SmmuNext]_smmuVars
  PROVE  KeepInv'
<1> USE DEF KeepInv, registers, SmmuTypeOK
<1>0. Kept' = Kept /\ KeptBanks' = KeptBanks /\ Kept \subseteq 1..NumSmrg
  BY KeptStays DEF Kept
<1>1. CASE UNCHANGED <<smrIndex, ContextBank>>
  BY <1>0, <1>1
<1>2. CASE UnusedSmr
  <2>1. smrIndex \notin Kept
    BY <1>2 DEF UnusedSmr, SmrInv, Untouched, Kept
  <2>2. smrIndex \in Nat /\ smrIndex' = smrIndex + 1 /\ ContextBank' = ContextBank
    BY <1>2 DEF UnusedSmr
  <2>3. \A i \in Kept : i < smrIndex' => i < smrIndex
    BY <1>0, <2>1, <2>2
  <2>4. QED  BY <1>0, <2>2, <2>3
<1>3. CASE KeepStream
  <2>1. smrIndex \in 1..NumSmrg /\ smr[smrIndex] = before.smr[smrIndex]
        /\ s2cr[smrIndex] = before.s2cr[smrIndex]
    BY <1>3 DEF KeepStream, SmrInv, Untouched, SmmuAssumption
  <2>2. s2cr[smrIndex].cbndx \in KeptBanks
    BY <1>3, <2>1 DEF KeepStream, Kept, KeptBanks
  <2>3. /\ ContextBank \subseteq ContextBank' /\ ContextBank' \subseteq KeptBanks
        /\ Cardinality(KeptBanks) <= ContextBankMax => before.s2cr[smrIndex].cbndx \in ContextBank'
    BY <1>3, <2>1, <2>2, TrackKeeps DEF KeepStream
  <2>4. \A i \in Kept : i < smrIndex' => i < smrIndex \/ i = smrIndex
    BY <1>0, <1>3 DEF KeepStream
  <2>5. QED  BY <1>0, <2>3, <2>4
<1>4. CASE InvalidateSmr
  <2>1. smrIndex \notin Kept
    BY <1>4 DEF InvalidateSmr, SmrInv
  <2>2. QED  BY <1>0, <1>4, <2>1 DEF InvalidateSmr
<1>5. QED
  BY <1>1, <1>2, <1>3, <1>4 DEF SmmuNext, smmuVars, NoSmmuRegion, ArmSmmuDetach, SetFault,
     InvalidateTlb, SkipBank, ArmSmmuDisableContextBank, ArmSmmuFreeContextBank, DetachEnds

\* The second loop takes the bank it is at, if it is not tracked.
LEMMA BankStep ==
  ASSUME SmmuAssumption, SmmuTypeOK, BankInv, before' = before, [SmmuNext]_smmuVars
  PROVE  BankInv'
<1> USE DEF BankInv, Banking, registers, SmmuTypeOK
<1>1. CASE NoSmmuRegion \/ ArmSmmuDetach \/ UnusedSmr \/ SetFault \/ InvalidateSmr
  <2>1. ~Banking /\ ~Banking' /\ smmu' # "cbar" /\ smmu' # "detached"
    BY <1>1 DEF NoSmmuRegion, ArmSmmuDetach, UnusedSmr, SetFault, InvalidateSmr
  <2>2. UNCHANGED <<bank, cbIndex, ContextBank>>
    BY <1>1 DEF NoSmmuRegion, ArmSmmuDetach, UnusedSmr, SetFault, InvalidateSmr
  <2>3. QED  BY <2>1, <2>2
<1>2. CASE KeepStream
  <2>1. /\ smmu = "smr" /\ smmu' = "smr" /\ UNCHANGED <<bank, cbIndex>>
        /\ bank = before.bank /\ cbIndex = 0
    BY <1>2 DEF KeepStream
  <2>2. \A c \in Banks : ~(c < cbIndex)
    BY <2>1 DEF Banks
  <2>3. QED  BY <2>1, <2>2
<1>3. CASE InvalidateTlb
  BY <1>3 DEF InvalidateTlb
<1>4. CASE SkipBank
  <2>1. \A c \in Banks : c < cbIndex' => c < cbIndex \/ c = cbIndex
    BY <1>4 DEF SkipBank, Banks, SmmuAssumption
  <2>2. QED  BY <1>4, <2>1 DEF SkipBank
<1>5. CASE ArmSmmuDisableContextBank
  <2>1. cbIndex \in Banks \ ContextBank
    BY <1>5 DEF ArmSmmuDisableContextBank, Banks, SmmuAssumption
  <2>2. /\ bank' = [bank EXCEPT ![cbIndex].tables = FALSE] /\ smmu = "bank" /\ smmu' = "cbar"
        /\ UNCHANGED <<cbIndex, ContextBank>>
    BY <1>5 DEF ArmSmmuDisableContextBank
  <2>3. \A c \in Banks : c # cbIndex => bank'[c] = bank[c]
    BY <2>2
  <2>4. ~bank'[cbIndex].tables
    BY <2>1, <2>2 DEF Bank
  <2>5. \A c \in Banks : c < cbIndex => c # cbIndex
    BY DEF Banks, SmmuAssumption
  <2>6. QED  BY <2>1, <2>2, <2>3, <2>4, <2>5
<1>6. CASE ArmSmmuFreeContextBank
  <2>1. /\ cbIndex \in Banks \ ContextBank /\ ~bank[cbIndex].tables
        /\ smmu = "cbar" /\ smmu' = "bank" /\ cbIndex' = cbIndex + 1 /\ UNCHANGED ContextBank
        /\ bank' = [bank EXCEPT ![cbIndex].cbar = FreeCbar(@)]
    BY <1>6 DEF ArmSmmuFreeContextBank
  <2>2. \A c \in Banks : c # cbIndex => bank'[c] = bank[c]
    BY <2>1
  <2>3. Taken(bank'[cbIndex])
    <3>1. bank[cbIndex] \in Bank
      BY <2>1
    <3>2. bank'[cbIndex] = [bank[cbIndex] EXCEPT !.cbar = FreeCbar(@)]
      BY <2>1
    <3>3. FreeCbar(bank[cbIndex].cbar) \in {"S2", "S1 S2 fault", "S1 S2 bypass VMID FF"}
      BY <3>1 DEF Bank, Cbar, FreeCbar
    <3>4. QED  BY <2>1, <3>1, <3>2, <3>3 DEF Taken, Bank
  <2>4. \A c \in Banks : c < cbIndex' => c < cbIndex \/ c = cbIndex
    BY <2>1 DEF Banks, SmmuAssumption
  <2>5. QED  BY <2>1, <2>2, <2>3, <2>4
<1>7. CASE DetachEnds
  BY <1>7 DEF DetachEnds
<1>8. CASE UNCHANGED smmuVars
  BY <1>8 DEF smmuVars
<1>9. QED  BY <1>1, <1>2, <1>3, <1>4, <1>5, <1>6, <1>7, <1>8 DEF SmmuNext

LEMMA DetachStep == SmmuAssumption /\ DetachInv /\ [SmmuNext]_smmuVars => DetachInv'
  BY TypeStep, SmrStep, KeepStep, BankStep DEF DetachInv

\* Where the banks of the streams to keep fit into the array, these streams are
\* mapped as the boot loader left them at every register write, and no stream
\* that still translates finds its tables gone.
THEOREM StreamsTranslate == SmmuSpec => []KeptStreamsTranslate
<1>1. SmmuInit => DetachInv
  BY DetachInit, SmmuAssumption
<1>2. DetachInv /\ [SmmuNext]_smmuVars => DetachInv'
  BY DetachStep, SmmuAssumption
<1>3. DetachInv => KeptStreamsTranslate
  <2> SUFFICES ASSUME DetachInv, Cardinality(KeptBanks) <= ContextBankMax
               PROVE  /\ \A i \in Kept : smr[i] = before.smr[i] /\ s2cr[i] = before.s2cr[i]
                      /\ \A i \in 1..NumSmrg :
                           smr[i].valid /\ s2cr[i].type = "translate" /\ s2cr[i].cbndx \in Banks
                           => bank[s2cr[i].cbndx] = before.bank[s2cr[i].cbndx]
    BY DEF KeptStreamsTranslate
  <2>1. \A i \in Kept : smr[i] = before.smr[i] /\ s2cr[i] = before.s2cr[i]
    BY DEF DetachInv, SmrInv, Untouched
  <2>2. CASE ~Banking
    BY <2>1, <2>2 DEF DetachInv, BankInv
  <2>3. CASE Banking
    <3> SUFFICES ASSUME NEW i \in 1..NumSmrg, smr[i].valid, s2cr[i].cbndx \in Banks
                 PROVE  bank[s2cr[i].cbndx] = before.bank[s2cr[i].cbndx]
      BY <2>1
    <3>1. i < smrIndex
      BY <2>3, SmmuAssumption DEF DetachInv, SmrInv, SmmuTypeOK, SmmuAssumption
    <3>2. i \in Kept
      BY <3>1 DEF DetachInv, SmrInv
    <3>3. s2cr[i].cbndx \in ContextBank
      BY <2>1, <3>1, <3>2 DEF DetachInv, KeepInv
    <3>4. QED  BY <3>3 DEF DetachInv, BankInv
  <2>4. QED  BY <2>2, <2>3
<1>4. QED  BY <1>1, <1>2, <1>3, PTL DEF SmmuSpec

\* Once ArmSmmuDetach has returned, only streams to keep are mapped, and every
\* bank of no such stream is without tables and free to be taken over.
THEOREM NothingElseMapped == SmmuSpec => []Detached
<1>1. SmmuInit => DetachInv
  BY DetachInit, SmmuAssumption
<1>2. DetachInv /\ [SmmuNext]_smmuVars => DetachInv'
  BY DetachStep, SmmuAssumption
<1>3. DetachInv => Detached
  <2> SUFFICES ASSUME DetachInv, smmu = "detached"
               PROVE  /\ \A i \in 1..NumSmrg : smr[i].valid => i \in Kept
                      /\ \A c \in Banks \ KeptBanks : Taken(bank[c])
    BY DEF Detached, Taken
  <2>1. \A i \in 1..NumSmrg : i < smrIndex
    BY SmmuAssumption DEF DetachInv, SmrInv, SmmuTypeOK, SmmuAssumption, Banking
  <2>2. \A c \in Banks : c < cbIndex
    BY SmmuAssumption DEF DetachInv, BankInv, SmmuTypeOK, SmmuAssumption, Banks
  <2>3. ContextBank \subseteq KeptBanks
    BY DEF DetachInv, KeepInv
  <2>4. QED  BY <2>1, <2>2, <2>3 DEF DetachInv, SmrInv, BankInv
<1>4. QED  BY <1>1, <1>2, <1>3, PTL DEF SmmuSpec

-----------------------------------------------------------------------------
\* How far the copy is: the blocks up to there are in place, those from there
\* on still in the payload.
Copied == FD_SIZE - x6

Entered == sec \notin {"shim", "copy"}

InPlace(k) == ram[FD_BASE + k] = Fd(k)
Unread(k)  == ram[payload + k] = Fd(k)

CopyInv ==
  sec = "copy" =>
    /\ x6 \in 1..FD_SIZE /\ x4 = payload + Copied /\ x5 = FD_BASE + Copied
    /\ \A k \in 0..FD_SIZE - 1 : (k < Copied => InPlace(k)) /\ (k >= Copied => Unread(k))

StackApart == StackBlocks \intersect FdBlocks = {}

ShimInv ==
  /\ payload \in Nat /\ payload >= ShimSize /\ DOMAIN ram = FdBlocks \union Loaded(payload)
  /\ payload = FD_BASE => sec # "copy"
  /\ Placed /\ StackApart =>
       /\ ~Entered => \A a \in LoopPlaces : ram[a] = BootShim
       /\ sec = "shim" => \A k \in 0..FD_SIZE - 1 : Unread(k)
       /\ CopyInv
       /\ Entered => \A k \in 0..FD_SIZE - 1 : InPlace(k)
       /\ sec \notin {"shim", "copy", "entry"} => x0 # 0

\* The loop lies in BootShim.
LEMMA LoopInShim ==
  ASSUME SecAssumption, payload \in Nat, NEW a \in LoopPlaces
  PROVE  a \in Loaded(payload) /\ a < payload
<1>1. PICK b \in 0..ShimSize - 1 : a = payload - ShimSize + b
  BY DEF LoopPlaces, SecAssumption
<1>2. ShimSize \in Nat /\ FD_SIZE \in Nat \ {0}
  BY DEF SecAssumption
<1>3. QED  BY <1>1, <1>2 DEF Loaded

LEMMA ShimInit == SecAssumption /\ SecInit => ShimInv
<1> SUFFICES ASSUME SecAssumption, SecInit PROVE ShimInv
  OBVIOUS
<1>1. /\ payload \in Nat /\ payload >= ShimSize /\ ShimSize \in Nat
      /\ sec = "shim" /\ FD_SIZE \in Nat \ {0} /\ FD_BASE \in Nat
  BY DEF SecInit, SecAssumption
<1>2. DOMAIN ram = FdBlocks \union Loaded(payload)
  BY DEF SecInit
<1>3. ASSUME NEW a \in LoopPlaces PROVE ram[a] = BootShim
  <2>1. a \in Loaded(payload) /\ a < payload
    BY <1>1, LoopInShim
  <2>2. QED  BY <2>1 DEF SecInit
<1>4. ASSUME NEW k \in 0..FD_SIZE - 1 PROVE Unread(k)
  <2>1. /\ payload + k \in Loaded(payload) /\ ~(payload + k < payload)
        /\ (payload + k) - payload = k
    BY <1>1 DEF Loaded
  <2>2. QED  BY <2>1, <1>2 DEF SecInit, Unread
<1>5. QED  BY <1>1, <1>2, <1>3, <1>4 DEF ShimInv, CopyInv, Entered

\* One block of the copy.
LEMMA CopyStep ==
  ASSUME SecAssumption, ShimInv, _CopyLoop
  PROVE  ShimInv'
<1>1. /\ payload' = payload /\ payload \in Nat /\ FD_BASE \in Nat /\ FD_SIZE \in Nat \ {0}
      /\ payload >= ShimSize /\ ShimSize \in Nat
      /\ DOMAIN ram = FdBlocks \union Loaded(payload)
      /\ sec = "copy" /\ payload # FD_BASE /\ Placed' = Placed /\ StackApart' = StackApart
  BY DEF ShimInv, _CopyLoop, SecAssumption, Placed, LoopPlaces, StackApart
<1>2. DOMAIN ram' = DOMAIN ram
  BY DEF _CopyLoop
<1>3. ASSUME Placed, StackApart PROVE ShimInv'
  <2>1. /\ x6 \in 1..FD_SIZE /\ x4 = payload + Copied /\ x5 = FD_BASE + Copied
        /\ \A k \in 0..FD_SIZE - 1 : (k < Copied => InPlace(k)) /\ (k >= Copied => Unread(k))
        /\ \A a \in LoopPlaces : ram[a] = BootShim
    BY <1>1, <1>3 DEF ShimInv, CopyInv, Entered
  <2>2. Copied \in 0..FD_SIZE - 1 /\ Copied' = Copied + 1
    BY <1>1, <2>1 DEF _CopyLoop, Copied
  <2>3. x5 \in FdBlocks /\ x5 \notin LoopPlaces
    BY <1>1, <1>3, <2>1, <2>2 DEF FdBlocks, Placed
  <2>4. ram' = [ram EXCEPT ![x5] = Fd(Copied)]
    <3>1. Copied >= Copied
      BY <2>2
    <3>2. Unread(Copied)
      BY <2>1, <2>2, <3>1
    <3>3. ram[x4] = Fd(Copied)
      BY <2>1, <3>2 DEF Unread
    <3>4. QED  BY <3>3 DEF _CopyLoop
  <2>5. \A a \in LoopPlaces : ram'[a] = BootShim
    <3>1. LoopPlaces \subseteq DOMAIN ram
      BY <1>1, LoopInShim
    <3>2. QED  BY <2>1, <2>3, <2>4, <3>1
  <2>6. ASSUME NEW k \in 0..FD_SIZE - 1, k < Copied + 1 PROVE InPlace(k)'
    <3>1. FD_BASE + k \in DOMAIN ram
      BY <1>1, <2>6 DEF FdBlocks
    <3>2. CASE k = Copied
      BY <2>1, <2>4, <3>1, <3>2 DEF InPlace
    <3>3. CASE k < Copied
      BY <1>1, <2>1, <2>2, <2>4, <3>1, <3>3 DEF InPlace
    <3>4. QED  BY <2>2, <2>6, <3>2, <3>3
  <2>7. ASSUME NEW k \in 0..FD_SIZE - 1, k >= Copied + 1 PROVE Unread(k)'
    <3>1. payload + k \in DOMAIN ram
      BY <1>1, <2>7 DEF Loaded
    <3>2. payload + k # FD_BASE + Copied
      <4>1. CASE payload < FD_BASE
        <5>1. payload + FD_SIZE <= FD_BASE
          BY <1>1, <1>3, <4>1 DEF Placed
        <5>2. QED  BY <1>1, <2>2, <5>1
      <4>2. CASE payload > FD_BASE
        BY <1>1, <2>2, <2>7, <4>2
      <4>3. QED  BY <1>1, <4>1, <4>2
    <3>3. Unread(k)
      BY <2>1, <2>2, <2>7
    <3>4. QED  BY <1>1, <2>1, <2>4, <3>1, <3>2, <3>3 DEF Unread
  <2>8. sec' = IF x6 = 1 THEN "entry" ELSE "copy"
    <3>1. ~ \E a \in LoopPlaces : ram'[a] # BootShim
      BY <2>5
    <3>2. QED  BY <3>1 DEF _CopyLoop, CopiedAll
  <2>9. LoopPlaces' = LoopPlaces
    BY <1>1 DEF LoopPlaces
  <2>10. CASE x6 = 1
    <3>1. Copied + 1 = FD_SIZE /\ sec' = "entry"
      BY <1>1, <2>8, <2>10 DEF Copied
    <3>2. \A k \in 0..FD_SIZE - 1 : InPlace(k)'
      BY <1>1, <2>6, <3>1
    <3>3. QED  BY <1>1, <1>2, <2>5, <2>9, <3>1, <3>2 DEF ShimInv, CopyInv, Entered
  <2>11. CASE x6 # 1
    <3>1. sec' = "copy"
      BY <2>8, <2>11
    <3>2. x6' \in 1..FD_SIZE /\ x4' = payload + Copied' /\ x5' = FD_BASE + Copied'
      BY <1>1, <2>1, <2>2, <2>11 DEF _CopyLoop
    <3>3. CopyInv'
      BY <1>1, <2>2, <2>6, <2>7, <3>2 DEF CopyInv
    <3>4. QED  BY <1>1, <1>2, <2>5, <2>9, <3>1, <3>3 DEF ShimInv, Entered
  <2>12. QED  BY <2>10, <2>11
<1>4. CASE ~(Placed /\ StackApart)
  BY <1>1, <1>2, <1>4 DEF ShimInv
<1>5. QED  BY <1>3, <1>4

LEMMA ShimStep ==
  ASSUME SecAssumption, ShimInv, [SecNext]_secVars
  PROVE  ShimInv'
<1> USE DEF Placed, LoopPlaces, StackApart
<1>1. CASE _Start
  <2>1. /\ payload \in Nat /\ FD_SIZE \in Nat \ {0} /\ FD_BASE \in Nat
        /\ UNCHANGED <<payload, ram>> /\ sec = "shim"
    BY <1>1 DEF _Start, ShimInv, SecAssumption
  <2>2. CASE payload = FD_BASE
    BY <1>1, <2>1, <2>2 DEF _Start, ShimInv, CopyInv, Entered, InPlace, Unread
  <2>3. CASE payload # FD_BASE
    <3>1. sec' = "copy" /\ x4' = payload /\ x5' = FD_BASE /\ x6' = FD_SIZE
      BY <1>1, <2>3 DEF _Start
    <3>2. Copied' = 0 /\ x6' \in 1..FD_SIZE /\ x4' = payload + 0 /\ x5' = FD_BASE + 0
      BY <2>1, <3>1 DEF Copied
    <3>3. ASSUME Placed, StackApart PROVE CopyInv'
      <4>1. \A k \in 0..FD_SIZE - 1 : Unread(k)'
        BY <2>1, <3>3 DEF ShimInv, Unread
      <4>2. \A k \in 0..FD_SIZE - 1 : ~(k < Copied')
        BY <3>2
      <4>3. QED  BY <2>1, <3>1, <3>2, <4>1, <4>2 DEF CopyInv
    <3>4. QED  BY <2>1, <2>3, <3>1, <3>3 DEF ShimInv, Entered
  <2>4. QED  BY <2>2, <2>3
<1>2. CASE _ModuleEntryPoint
  <2>1. /\ x0' # 0 /\ sec = "entry" /\ sec' = "smmu" /\ payload' = payload
        /\ ram' = [a \in DOMAIN ram |-> IF a \in StackBlocks THEN Cleared ELSE ram[a]]
    BY <1>2 DEF _ModuleEntryPoint, SecAssumption
  <2>2. DOMAIN ram' = DOMAIN ram /\ DOMAIN ram = FdBlocks \union Loaded(payload)
    BY <2>1 DEF ShimInv
  <2>3. ASSUME NEW k \in 0..FD_SIZE - 1, StackApart, InPlace(k) PROVE InPlace(k)'
    <3>1. FD_BASE + k \in FdBlocks
      BY DEF FdBlocks, SecAssumption
    <3>2. FD_BASE + k \in DOMAIN ram /\ FD_BASE + k \notin StackBlocks
      BY <2>2, <2>3, <3>1
    <3>3. QED  BY <2>1, <2>3, <3>2 DEF InPlace
  <2>4. QED  BY <2>1, <2>2, <2>3 DEF ShimInv, CopyInv, Entered
<1>3. ASSUME UNCHANGED <<shim, x0>>, sec \notin {"shim", "copy", "entry"},
             sec' \notin {"shim", "copy", "entry"}
      PROVE  ShimInv'
  BY <1>3 DEF ShimInv, CopyInv, Entered, InPlace, shim
<1>4. CASE PlatformInitialize \/ SecMainFails \/ HobsAnywhere \/ SecMain \/ BuildStackHob \/ LoadDxeCore
  BY <1>3, <1>4 DEF PlatformInitialize, SecMainFails, HobsAnywhere, SecMain, BuildStackHob,
     LoadDxeCore, stack
<1>5. CASE InitializeMemory
  <2>1. pc' \in {"hobs", "dxe", "dead loop", "fault"}
    BY <1>5 DEF InitializeMemory, ValidateMemoryMap, MemoryPeim
  <2>2. sec' \in {"memory", "stack", "dead loop", "fault"}
    BY <1>5, <2>1 DEF InitializeMemory
  <2>3. QED  BY <1>3, <1>5, <2>2 DEF InitializeMemory, stack
<1>6. CASE RamManagerDxe
  BY <1>3, <1>6 DEF RamManagerDxe, stack
<1>7. CASE UNCHANGED secVars
  BY <1>7 DEF secVars, shim, stack, ShimInv, CopyInv, Copied, Entered, InPlace, Unread
<1>8. QED
  BY <1>1, <1>2, <1>4, <1>5, <1>6, <1>7, CopyStep DEF SecNext

\* For any size of the firmware and of BootShim, any place the boot loader may
\* put them at, and a stack apart from the firmware: what BootShim enters is
\* the whole of it, and it is still whole when the stack has been cleared.
THEOREM FirmwareIsWhole == SecSpec => []FirmwareWhole
<1>1. SecInit => ShimInv
  BY ShimInit, SecAssumption
<1>2. ShimInv /\ [SecNext]_secVars => ShimInv'
  BY ShimStep, SecAssumption
<1>3. ShimInv => FirmwareWhole
  BY DEF ShimInv, FirmwareWhole, Entered, InPlace, StackApart
<1>4. QED  BY <1>1, <1>2, <1>3, PTL DEF SecSpec

-----------------------------------------------------------------------------
\* SEC runs ArmSmmuDetach and the memory code as they were specified: what is
\* proved of either is true of the boot from BootShim to RamManagerDxe.
THEOREM SecComposes == SecSpec => Spec /\ SmmuSpec
<1>1. SecInit => Init /\ SmmuInit
  BY DEF SecInit
<1>2. [SecNext]_secVars => [Next]_vars /\ [SmmuNext]_smmuVars
  <2>1. SUFFICES ASSUME SecNext PROVE [Next]_vars /\ [SmmuNext]_smmuVars
    BY DEF secVars
  <2>2. CASE InitializeMemory
    BY <2>2 DEF InitializeMemory, Next
  <2>3. CASE RamManagerDxe
    BY <2>3 DEF RamManagerDxe
  <2>4. CASE PlatformInitialize
    BY <2>4 DEF PlatformInitialize
  <2>5. CASE UNCHANGED vars /\ UNCHANGED smmuVars
    BY <2>5
  <2>6. QED
    BY <2>1, <2>2, <2>3, <2>4, <2>5 DEF SecNext, _Start, _CopyLoop, _ModuleEntryPoint,
       SecMainFails, HobsAnywhere, SecMain, BuildStackHob, LoadDxeCore
<1>3. QED  BY <1>1, <1>2, PTL DEF SecSpec, Spec, SmmuSpec

\* The invariants of the two, of the boot as a whole.
THEOREM SecIsSafe ==
  SecSpec => [](/\ MemoryDisjoint /\ HandsOutFreeRam /\ NothingForgotten /\ HandedOutOnce
                /\ KeptStreamsTranslate /\ Detached /\ FirmwareWhole)
BY SecComposes, ValidMeansDisjoint, RangesFree, RangesComplete, GivenOnce, StreamsTranslate,
   NothingElseMapped, FirmwareIsWhole, PTL

=============================================================================
