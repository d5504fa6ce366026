------------------------------- MODULE SecEntry -------------------------------
(***************************************************************************)
(* From the boot loader to the DXE core.  BootShim copies the firmware     *)
(* from where the boot loader put it to where it was linked for; the entry *)
(* code sets the stack up; SecEntry takes the SMMU over (SmmuDetach),      *)
(* makes memory usable (SystemMemory) and loads the DXE core, in which     *)
(* RamManagerDxe goes on.  An error ends in CpuDeadLoop.                   *)
(*                                                                         *)
(* Addresses of BootShim and of the stack count blocks of 16 bytes.  The   *)
(* blocks below the payload hold BootShim itself, its loop in some of them.*)
(***************************************************************************)
EXTENDS SystemMemory, SmmuDetach

CONSTANTS
  FD_BASE, FD_SIZE,       \* where the firmware was linked for, in blocks
  ShimSize,               \* blocks of BootShim: four, or seven with a kernel header
  LoopBlocks,             \* those with the code from _CopyLoop to _Entry
  CPUCoresStackBase,      \* PcdCPUCoresStackBase
  CPUCorePrimaryStackSize,\* PcdCPUCorePrimaryStackSize
  Phones                  \* [map, smmu, payload]: what SEC may find

ASSUME SecAssumption ==
  /\ FD_BASE \in Nat /\ FD_SIZE \in Nat \ {0}
  /\ ShimSize \in Nat /\ LoopBlocks \subseteq 0..ShimSize - 1
  /\ CPUCoresStackBase \in Nat /\ CPUCorePrimaryStackSize \in Nat \ {0}
  /\ Phones \subseteq [map : MemoryMaps, smmu : SmmuStates, payload : {p \in Nat : p >= ShimSize}]

VARIABLES
  sec,        \* where the firmware is
  payload,    \* _Payload, where the boot loader put the firmware
  ram,        \* the blocks of BootShim, the payload and the firmware
  x4, x5, x6, \* registers of BootShim
  x0,         \* StackBase of SecEntry
  stackHob    \* the stack as the HOB describes it

shim    == <<payload, ram, x4, x5, x6>>
stack   == <<x0, stackHob>>
secVars == <<sec, shim, stack, vars, smmuVars>>

FdBlocks    == FD_BASE..FD_BASE + FD_SIZE - 1
StackBlocks == CPUCoresStackBase..CPUCoresStackBase + CPUCorePrimaryStackSize - 1
Loaded(p)   == p - ShimSize..p + FD_SIZE - 1
BootShim    == <<"shim">>
Fd(k)       == <<"fd", k>>
Cleared     == <<"zero">>
NoHob       == [base |-> 0, size |-> 0]

SecInit ==
  /\ \E p \in Phones : memoryMap = p.map /\ before = p.smmu /\ payload = p.payload
  /\ Init /\ SmmuInit
  /\ sec = "shim" /\ x4 = 0 /\ x5 = 0 /\ x6 = 0 /\ x0 = 0 /\ stackHob = NoHob
  /\ ram = [a \in FdBlocks \union Loaded(payload) |->
              CASE a \notin Loaded(payload) -> <<"other">>
                [] a < payload -> BootShim
                [] OTHER -> Fd(a - payload)]

-----------------------------------------------------------------------------
\* Already in place, the firmware is entered at once.
_Start ==
  /\ sec = "shim"
  /\ x4' = payload /\ x5' = FD_BASE /\ x6' = FD_SIZE
  /\ sec' = IF payload = FD_BASE THEN "entry" ELSE "copy"
  /\ UNCHANGED <<payload, ram, stack, vars, smmuVars>>

\* One block short.
CopiedAllButOne == x6 <= 2

CopiedAll == x6 = 1

\* Where the loop lies that the processor runs.
LoopPlaces == {payload - ShimSize + b : b \in LoopBlocks}

\* What is copied over the loop is run, unless a cache still holds the loop.
_CopyLoop ==
  /\ sec = "copy"
  /\ ram' = [ram EXCEPT ![x5] = ram[x4]] /\ x4' = x4 + 1 /\ x5' = x5 + 1 /\ x6' = x6 - 1
  /\ \/ sec' = IF CopiedAll THEN "entry" ELSE "copy"
     \/ sec' = "fault" /\ \E a \in LoopPlaces : ram'[a] # BootShim
  /\ UNCHANGED <<payload, stack, vars, smmuVars>>

\* The loop that clears the stack leaves its end in the register that is
\* passed as StackBase.
_ModuleEntryPoint ==
  /\ sec = "entry" /\ sec' = "smmu"
  /\ ram' = [a \in DOMAIN ram |-> IF a \in StackBlocks THEN Cleared ELSE ram[a]]
  /\ x0' = CPUCoresStackBase + CPUCorePrimaryStackSize
  /\ UNCHANGED <<payload, x4, x5, x6, stackHob, vars, smmuVars>>

PlatformInitialize ==
  /\ sec = "smmu" /\ SmmuNext
  /\ sec' = IF smmu' \in {"absent", "detached"} THEN "main" ELSE "smmu"
  /\ UNCHANGED <<shim, stack, vars>>

\* SerialPortInitialize fails, or the region of the heap cannot be found and
\* what the stack held in its place is zero.
SecMainFails ==
  /\ sec = "main" /\ sec' = "dead loop"
  /\ UNCHANGED <<shim, stack, vars, smmuVars>>

\* It is not zero, and the list of HOBs goes there.
HobsAnywhere ==
  /\ sec = "main" /\ sec' = "fault"
  /\ UNCHANGED <<shim, stack, vars, smmuVars>>

SecMain ==
  /\ sec = "main" /\ sec' = "memory"
  /\ UNCHANGED <<shim, stack, vars, smmuVars>>

InitializeMemory ==
  /\ sec = "memory" /\ (ValidateMemoryMap \/ MemoryPeim)
  /\ sec' = CASE pc' = "hobs" -> "memory" [] pc' = "dxe" -> "stack" [] OTHER -> pc'
  /\ UNCHANGED <<shim, stack, smmuVars>>

BuildStackHob ==
  /\ sec = "stack" /\ sec' = "load"
  /\ stackHob' = [base |-> x0, size |-> CPUCorePrimaryStackSize]
  /\ UNCHANGED <<shim, x0, vars, smmuVars>>

\* DecompressFirstFv and LoadDxeCoreFromFv may fail.
LoadDxeCore ==
  /\ sec = "load" /\ sec' \in {"dxe", "dead loop"}
  /\ UNCHANGED <<shim, stack, vars, smmuVars>>

RamManagerDxe ==
  /\ sec = "dxe" /\ Next
  /\ UNCHANGED <<sec, shim, stack, smmuVars>>

SecNext ==
  \/ _Start \/ _CopyLoop \/ _ModuleEntryPoint \/ PlatformInitialize
  \/ SecMainFails \/ HobsAnywhere \/ SecMain \/ InitializeMemory \/ BuildStackHob \/ LoadDxeCore
  \/ RamManagerDxe

SecSpec == SecInit /\ [][SecNext]_secVars

-----------------------------------------------------------------------------
\* Where the boot loader may put the firmware.  The copy goes from the first
\* block up, so the payload must not reach into its place from below; and the
\* loop, right below the payload, must not lie where the firmware is copied to.
Placed ==
  \/ payload = FD_BASE
  \/ /\ payload < FD_BASE => payload + FD_SIZE <= FD_BASE
     /\ LoopPlaces \intersect FdBlocks = {}

\* The firmware is only entered as a whole and stays so when the stack is
\* cleared, and BootShim never runs into what it copied, provided that the
\* boot loader put it where it may be and the stack lies apart from it.
FirmwareWhole ==
  Placed /\ StackBlocks \intersect FdBlocks = {} =>
    /\ sec \notin {"shim", "copy", "fault"} => \A k \in 0..FD_SIZE - 1 : ram[FD_BASE + k] = Fd(k)
    /\ sec = "fault" => x0 # 0

\* The stack HOB describes the stack: "Build Stack HOB" from "Pass Parameters".
StackHobIsStack ==
  stackHob # NoHob => stackHob = [base |-> CPUCoresStackBase, size |-> CPUCorePrimaryStackSize]
=============================================================================
