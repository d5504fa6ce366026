# Verification of Project Mu-Silicium

TLA+ specifications of the UEFI firmware in this repository, the TLC runs that
check them and the theorems TLAPS proves about them. The specifications are
translated from the C and assembly sources; `PROJECT.json` maps every definition
to the lines it stands for, and lists runs, mutants, hazards, findings and theorems.

The paths below use `S` for `src/Silicon/Silicium/SiliciumPkg` and `Q` for
`src/Silicon/Qualcomm/QcomPkg`.

## 1. The system

The repository builds the UEFI firmware of Android phones with Qualcomm SoCs.
The boot loader of the phone starts it as if it were a Linux kernel. It runs on
one core, without preemption except for events: code at TPL_APPLICATION is
interrupted by event notifications at TPL_CALLBACK, and those by TPL_NOTIFY.
DMA of the display, resets and power cuts come at any time.

    boot loader -> BootShim -> SEC -> DXE core -> drivers -> BDS -> loaders -> operating system
                               |      (submodule)    |        |
                        SMMU, memory map,      keypad, RAM    secure boot, ACPI, hotkey,
                        stack, page tables     manager,       boot options, hook of
                                               SMBIOS,        ExitBootServices, display
                                               snapshot       snapshot, applications

| component | state it keeps | operations | hard behaviour | what makes it correct |
|---|---|---|---|---|
| SwitchSlot (`Q/Applications/SwitchSlot`) | both GPT copies of every storage in memory and on disk, modified flags, boot LUN | load, detect the active slot, switch, commit, roll back, set the boot LUN | power cut between any two writes, write errors, a second start on half switched storages | a readable GPT at all times, exact rollback, boot LUN last, all or nothing |
| Keypad driver (`S/Drivers/KeypadDxe`) | two key rings, list of notification functions, events, timer | poll, read, register, notify, reset, start, stop | callbacks preempt clients and functions call back into the driver; ring full; failure half way through start | keys in order, each registration called for each key, a walk that only a function freeing its own registration can lead astray |
| Boot manager hotkey (`S/Library/BootManagerLib`) | one flag, one registration | register, KeyNotify, countdown, unregister | press racing the end of the countdown | menu asked for if and only if Volume Up was seen |
| Debug log (`S/Library/FrameBufferSerialPortLib`) | ring in reserved memory that outlives a reset, text cursor | SerialPortWrite | reset between two stores, arbitrary content at power on, region missing | no store outside the region; the ring is readable |
| SEC entry (`src/BootShim`, `S/Sec`) | the firmware image in memory, registers, the stack HOB | copy the image over, set up the stack, call the rest | source and target of the copy overlap, and the copying code lies beside them | the image is entered whole and survives the clearing of the stack; the HOB describes the stack |
| SMMU detach (`Q/Library/ArmSmmuDetachLib`) | stream mapping registers, context banks, the banks to keep | skip, detach, free | the display scans out of memory while registers are written one by one; a bank is shared by streams | kept streams translate at every register write, all others end unmapped |
| Memory map (`S/Library/MemoryInitPeiLib`) | memory table, HOBs, page tables | validate, add HOBs, configure the MMU | tables in any order, too long, overlapping | disjoint memory |
| RAM manager (`S/Drivers/RamManagerDxe`, `Q/Library/RamManagerLib`) | copy of the EFI memory map, RAM partitions | find and map the gaps | boundaries that touch or cross, a failing step | every address of RAM the EFI memory map does not list handed out exactly once, nothing with a HOB mapped as memory |
| SMBIOS tables (`S/Drivers/SmBiosTableDxe`, `Q/Library/SmBiosTableLib`) | tables compiled in, handles in locals, allocated strings | update, register in order, free | a table skipped or refused leaves a local as it was; strings are partly allocated | tables refer to tables that exist, strings freed exactly if allocated |
| ACPI patching (`S/Library/AslUpdateLib`, `AcpiTableUpdateLib` of 13 SoCs) | two protocol pointers, a copy of the DSDT | locate, update a name, reinstall | protocols appear in any order, queries fail, objects of other widths | one well formed DSDT whatever fails, and no byte in it that nobody meant |
| Secure boot handler (`S/Library/SecureBootHandlerLib`) | protocol registration, position in SiPolicy.p7b | for each new file system replace or delete the policy | file systems appear while others are processed, errors in the loop, a reset in a write | every Windows gets its policy, no other volume is touched, the loop ends unless handles cannot be located at all |
| Kernel errata patcher (`S/Library/KernelErrataPatcherLib`, `Q/Library/ErrataPatchesLib`) | the original ExitBootServices, attributes of winload's pages | hook at ReadyToBoot, unprotect, patch, protect, pass on | ReadyToBoot comes once per option, loaders call more than once, any step fails | loaders do not notice it; winload never runs on unprotected |
| Display snapshot (`S/Drivers/DpuSnapshotDxe`) | one event | read the registers at load and at ReadyToBoot | the block powers down between the guard and the reads | no read of a block that was not seen on |
| Mass storage (`Q/Applications/MassStorage`) | number of units assigned | assign, serve, stop, take back | the device refuses units; fails in between | a device that was to be started gives everything back |
| Boot options, order of a boot (`S/Library/MsBootOptionsLib`, `BootManagerLib`) | list of options | register, try each | ReadyToBoot and notifications in between | composition of the above |

Interaction. SEC calls SmmuDetach, MemoryInitPei and the loader of the DXE core in
turn; RamManagerDxe meets them again through HOBs and the memory map of the DXE
core: SecEntry composes them. BDS calls SetupSecureBoot, UpdateAcpiTables and the
device's boot manager (`BootManager.c:226`), registers the options, and signals
ReadyToBoot before each; file systems that appear meanwhile signal the secure boot
handler: BootFlow composes these libraries and drivers. The hotkey registers with the
keypad driver over its protocol, so BootHotkey extends Keypad. KeypadConsole joins
the driver binding with the queue clients read. SwitchSlot meets the rest only through
the disks, AcpiTableUpdateLib only through the DSDT it installs.

## 2. The modules

| module | what it models |
|---|---|
| SlotTables | abstract: a storage's readers see its tables change in one step, or not at all |
| SwitchSlot, SwitchSlotProofs | the application, write by write; `disk` and `bootLu` survive a power cut; refines SlotTables |
| KeyFifo | abstract: a FIFO that keeps the newest keys |
| KeyQueue | EFI_KEY_QUEUE, the ring with Head and Tail; refines KeyFifo for every size |
| Keypad, KeypadClients | polls, readers, registrations, KeyNotifyProcessHandler under task priority levels; with a history of calls per handle and of walks that went astray |
| BootHotkey | the boot manager's countdown on top of Keypad |
| KeypadProofs | theorems of Keypad, KeypadClients and BootHotkey |
| KeypadDriver | Start and Stop of the driver binding, step by step with every failure |
| KeypadConsole, KeypadConsoleProofs | KeypadDriver and KeyQueue: the queue of an instance from Start to Stop, filled by its timer and read by clients; theorems of the three |
| DebugLog, DebugLogProofs | SerialPortWrite, store by store, with resets |
| SystemMemory, SystemMemoryProofs | SEC's memory map and RamManagerDxe |
| SmmuDetach | ArmSmmuDetach, one action per register write |
| SecEntry, SecEntryProofs | BootShim block by block with the place of its loop, the entry code and SecMain, around SystemMemory and SmmuDetach |
| AcpiTables, AcpiTablesProofs | AslUpdateLib and the UpdateAcpiTables of every SoC package |
| SecureBoot | SetupSecureBoot, FileSystemCallback and the files it writes |
| ErrataPatcher | the hook of ExitBootServices, page protection and the two patches |
| DpuSnapshot | DpuSnapshotDxe and a display that goes dark |
| MassStorage | the application and the USB device |
| SmBiosTables | SmBiosTableDxe: filling in, registering, freeing |
| BootFlow, BootFlowProofs | a boot: the five modules above in the order of the boot device selection, with resets |
| MC... | constants for TLC |

How state corresponds to code. A C variable or field has a TLA+ variable of its
name where it matters; a function with several places where it can be interrupted,
cut off or fail is one action per such place, everything else is one action per
function. Error returns are disjuncts. `pc` and its like (`sec`, `smmu`, `sfs`,
`hook`, `dpu`, `msd`, `smb`, `bds`) stand for the place in the program. Variables
commented "history" are not in the code and are only read by properties.

What stands for data: a key is a pair of a code and a shift state; a GPT entry is
its active flag, type and name copy; a log byte is one of the classes the code
tells apart; an address is a small number; a stream mapping register is the set of
streams it matches; a file is a sequence of blocks; an SMBIOS table is its name,
which stands for its handle too; an AML table is a sequence of cells in which the
opcode, the name, the prefix and each data byte can be told apart, and a data byte
records only which value it belongs to and where that is from: an answer of a query, a
constant, register or default of the code, or a local that was never set.

A local that is read before it is written, and a link that is read after it was freed
(FreedFunctionReturns of Keypad), is a nondeterministic value, a fault, or
the value "Nothing", as the code that reads it can tell them apart.

Outside the repository and modelled from how it is used: GetKeys of the keypad
device, PartitionDxe (it restores a damaged GPT copy from the other at power on),
the DXE core's memory map, the ACPI driver, file systems, OS loaders and
EfiBootManagerBoot, the power of the display. The map marks them external.

## 3. The runs

| run | shows |
|---|---|
| switch_slot | power cuts at every write, two write errors anywhere, a second start: tables readable, switched in one step per storage, rollback exact, boot LUN last, and the program ends |
| switch_slot_torn | *violated*: after a write error on the primary copy the rollback writes the backup copy first, and a power cut then leaves none |
| keypad | clients, polls and notification functions in every order the priority levels allow: no key is skipped unless the queue overflows, every queued notification is served, and in order; the list walk stays on live records and leaves none out unless a function frees its own; the queue drains |
| keypad_console | three starts, every step failing, the timer firing in between: protocol open exactly while installed, timer never on a stopped instance, and the ring of the instance implements KeyFifo |
| boot_hotkey | the menu is asked for when and only when Volume Up was polled in time, whether or not it is then found, with another driver beside it |
| debug_log | any memory at power on, any byte, a reset between any two stores: no store outside the ring, and it reads back the newest bytes |
| log_failover | *violated*: without Silicium_Log an uninitialized address may be used and UEFI_Log never tried |
| sec_entry | payloads anywhere around the link address, tables of memory, devices and regions without HOB, any SMMU: the firmware is entered whole, the display keeps its mapping at every register write and nothing else keeps one, memory is disjoint, exactly the RAM the EFI memory map does not list is handed out, once |
| sec_stack | *violated*: the stack HOB begins where the stack ends |
| acpi_tables | 13 packages, five bodies, drivers in any order, every query failing at its place and every call of AslUpdateLib failing: one DSDT, AML layout kept, every byte of a name from where it should be, every name that fits is told |
| boot_flow | 48 phones, each cut off once by a reset: every Windows has its policy whatever fails elsewhere, the callback ends unless LocateHandleBuffer fails for ever, loaders do not notice the hook, winload runs on protected, the display is read only when seen on, a started device gives its units back, SMBIOS tables refer to tables that exist, strings are freed |
| secure_boot_append | *violated*: the policy is appended to the file it should replace |

Deadlock is checked except where the program ends or stops by design (the
application returns, SEC stops in a dead loop, BDS goes on, a boot ends in the
operating system) or is lost: a walk of the keypad's list that followed a freed link
need not come back. Each cfg says so.

### Bounds and why they are enough

- SwitchSlot: two storages and two pairs, one of which lies across both, are the
  least that show a half switched phone. Each storage takes four region writes
  (array and header of each copy) per commit. `MaxFaults = 2` lets the rollback
  fail as well as the commit, `MaxRuns = 2` lets a second start meet what the first left.
- Keypad: three slots hold two keys, and `MaxPresses = 3` overflows them. Two functions
  and two handles are the least with which a press is pushed more than once, a function
  takes away the registration the walk stands on or another one, and two functions make
  each other's registration anew again and again (733,032 states). One shift state: the
  two of BootHotkey show that AnyShift covers others. BootHotkey takes five slots so
  that no press is lost, as the 255 of the code do not lose one in a countdown.
  The other driver of BootHotkey neither resets the keypad from a notification
  function nor takes away the registration it is called through, which would lose
  presses before the boot manager has a say; run keypad has clients that do both.
  KeypadConsole takes four, which wraps at every position; `MaxStarts = 3` allows a failed start, a stop and a start again.
- DebugLog: a ring of three bytes and a screen of 2 by 2 wrap in every way; an
  index at, below and beyond the limit are found at power on.
- SecEntry: three regions are the least where comparing neighbours could miss an
  overlap; seven addresses allow before, touching, inside, across and behind. One of the
  regions is a device in RAM, one a register region that reaches into RAM, one has no
  HOB; a table of three regions fills MemoryTable to its last entry, one of four overruns it.
  `CountLimit` is 3 where the code has 2^8. Three stream mapping registers over three
  banks let two kept streams share a bank and a third stream use another, and
  `ContextBankMax = 2`, where the code has 16, is reached. BootShim has four blocks,
  as it is without the kernel header, and its loop lies in the last three; payloads of three
  blocks lie at every distance from four blocks below the link address to eight above it, so
  that the copy runs into the payload, the loop and the rest of BootShim. The stack ends
  right in front of the firmware. The parts
  are varied one at a time, since they share no variable: a table that ends in a
  dead loop stands behind every SMMU and every payload.
- AcpiTables: `EFICHIPINFO_MAX_ID_LENGTH` is 3 where the code has 16; texts are
  shorter, equal and longer. Every prefix and every relation of width occurs.
  `MaxFailures = 2` since the bytes of a name come from two queries at most (SOSN);
  each may be any of the queries of the package, at its place in the order.
- BootFlow: two file systems are the least where one that fails comes before one
  that should be served, and two Windows are among the phones; policies of one
  block more, less and as many as the one of the firmware, and an empty file, are
  found. Three storages with no to four units pass both ends of the loop. Three
  calls of a loader are the first, one after the hook is gone, and one more.
  `MaxResets = 1` cuts each boot off once, at any action, and lets the next one meet
  what it left, which is files only: the boot variables are emulated in RAM
  (`SiliciumPkg.dsc.inc:77`). Parts are varied one at a time, on phones that are
  otherwise plain, since libraries meet only in the order of the boot.

### Fairness

switch_slot assumes weak fairness of the program itself: it runs on its own while
the phone has power, and power cuts are bounded by the runs. keypad assumes weak
fairness of the timer's poll dispatch and of KeyNotifyProcessHandler: the DXE core
dispatches a signalled event as soon as the priority level allows, and clients that
hold the level are not steps of their own. boot_flow assumes weak fairness of
FileSystemCallback, which once dispatched runs to its end at TPL_CALLBACK: no file
system, disk or reset within its bounds holds it up. No fairness makes LocateHandleBuffer
succeed: that it stops failing in the end is the premise of CallbackEnds, and without it
TLC finds the loop that is never left. In the same way NotifyDrains has two premises
instead of fairness: no walk is lost in a freed link, and in the end the notification functions
register no more; TLC finds the walk without end that two functions make which take each
other's registration away and make it anew at the end of the list. Nothing
else uses fairness.

### Mutants

Each property of each passing run has a mutant in `PROJECT.json`: a definition
replaced by a plausible bug (a dropped check, an off-by-one, a swapped order) that
makes TLC find the property violated. The mutated forms stand before the
definitions they replace.

## 4. Proofs

Each theorem holds for every value of the constants. Type invariants are proved where
a proof needs them (`TypeCorrect`), instead of being run.

| theorem | states | argument |
|---|---|---|
| SwitchSlotProofs!TypeCorrect | only tables of a storage are ever written to it | every table comes from an image, every image from a load or from the switch of one |
| SwitchSlotProofs!PowerCutSafe | SurvivesPowerCut: without a write error each storage keeps a readable GPT at every instant | the loop writes one copy at a time, and the copy it does not write is whole: the invariant says which copy that is at each `pc` |
| SwitchSlotProofs!RollbackIsExact | RollbackRestores | a storage behind the loop of the rollback holds its originals, the others are untouched by it |
| SwitchSlotProofs!SuccessMeansAll | SuccessIsComplete | SwitchInv: the images in memory are, pair by pair, the originals with the slots exchanged, and the pairs agree about the slot; ProgressInv: what is behind the loop has been written |
| SwitchSlotProofs!OnlyUniformPhones | WritesOnlyUniformPhones | SwitchInv, whose part about the originals is established before the first write |
| SwitchSlotProofs!BootLuIsLast | BootLuMovesLast | both invariants at the place of SetUfsBootLU |
| SwitchSlotProofs!TablesSwitch | TablesSwitchAtomically: SwitchSlot implements SlotTables | each write changes what a reader sees of one storage or nothing: with a backup that checks he changes over when the primary stops checking, and again when it checks; OrigInv says that what was loaded is what is there until the first write |
| SwitchSlotProofs!EveryRunIsFinite | every step of a start of the application lowers a natural number (Left), so that it ends whatever fails | the writes left in the loop at hand, and the loops behind it: a write error begins one more loop over the storages, never two |
| KeypadConsoleProofs!QueueCorrect | indices in the ring, no slot read that was not written | type and shape of the ring |
| KeypadConsoleProofs!RingIsFifo | IsFifo: the ring implements KeyFifo | refinement with the slots from Head to Tail as the sequence; each operation is one of KeyFifo's; modular arithmetic in lemmas |
| KeypadConsoleProofs!BindingBalanced | OpenWhileInstalled | at each place of Start and Stop the invariant says what has been opened, allocated and installed |
| KeypadConsoleProofs!StopSilencesTimer | TimerOnlyOnLive | same invariant |
| KeypadConsoleProofs!ConsoleIsFifo | IsFifo for the driver with its queue | composition: every step is one of KeyQueue's or leaves the ring, Start and Stop begin a new one |
| KeypadConsoleProofs!ConsoleIsSafe | both guarantees of the binding in the composition | a step of the console is one of the driver's or leaves its variables |
| KeypadProofs!KeysInARow, NothingLeftWaiting, WalkIsSafe | NoKeySkipped, NotifyServed, WalkOnLive | KeypadInv, the three together with the types: a queue that ends with the last press stays one when a poll appends its presses and the ring drops its oldest; the walk moves along the list without a registration twice in it, from wherever a freed link led it |
| KeypadProofs!NobodyLeftOut | AllNotified: a walk that followed no freed link has called every registration for its key when it ends | CalledSoFar: what is up to the walk's place in the list, and is for the key, has been called for this press; a new registration comes behind it, one taken away moves the place along |
| KeypadProofs!CallsInOrder | NotifiedInOrder: functions are called in the order of the presses | CallInv: no function was called for a key newer than the one it is called for now, nor is that newer than those that wait (QueueOrdered) |
| KeypadProofs!ClientsAreSafe | the three guarantees with the clients of KeypadClients | each step of it is one of Keypad's |
| KeypadProofs!HandleStaysOurs | HandleIsOurs | OursInv: the registration of KeyNotify is the only one of its kind, and nobody else takes it back |
| KeypadProofs!MenuOnlyWhenPressed | the menu is asked for only after a press that was heard, without a condition | HeardInv: every copy of a Volume Up that waits while KeyNotify is registered was heard |
| KeypadProofs!MenuDecided | MenuWhenPressed, both directions, if the copies of all presses fit (CopiesFit) | WayInv: a press that was heard has set the flag, or waits in the queue, or its walk has not come to the boot manager's registration; RoomInv: at most one copy for each press and registration waits |
| DebugLogProofs!LogStaysInRegion | StoresInRing | once checked, the index is below the limit or one behind it, and is wrapped before the next store |
| DebugLogProofs!TextStaysOnScreen | CursorOnScreen | lines and columns are reset before they are used again |
| DebugLogProofs!TailAlwaysRecent | TailIsRecent: between bytes and after any reset the log reads back as the last bytes written | counted from the newest, each byte has its slot (SlotOf), which does not move when a byte is added; TailInv says at each `pc` which bytes agree with the history: all but the oldest when the byte is stored before the cursor, all for a cursor one back when it is the other way round |
| SystemMemoryProofs!ValidMeansDisjoint | MemoryDisjoint | the table that passes is sorted; regions in order whose neighbours do not overlap do not overlap at all (transitivity over the indices between) |
| SystemMemoryProofs!RangesFree | HandsOutFreeRam: nothing is handed out of a region added as memory, nothing with a HOB is mapped; regions without HOB are not covered | the ranges handed out lie in the gaps of the EFI memory map; what has a HOB is in the GCD before DXE begins, and MapMemoryRegion maps only what the GCD did not know |
| SystemMemoryProofs!RangesComplete | NothingForgotten | the invariant of the walk: below the current address, all that is free has been handed out |
| SystemMemoryProofs!GivenOnce | HandedOutOnce: no address is handed out twice | the ranges handed out lie apart and below the current address, each region in the partition they came from; needs base <= end of every region (RegionAssumption) |
| SystemMemoryProofs!TypeCorrect | types, and that no memory is mapped that the GCD does not know | one step of MapMemoryRegion at a time |
| SecEntryProofs!StreamsTranslate | KeptStreamsTranslate, at every register write | DetachInv says which loops have passed, and that only banks of kept streams are in the list of those to keep |
| SecEntryProofs!NothingElseMapped | Detached | same invariant; a bank that no kept register names has been freed when its loop is through |
| SecEntryProofs!FirmwareIsWhole | FirmwareWhole, for every size and address of the payload, of BootShim, its loop and the stack | ShimInv: what the copy loop has passed holds the firmware, and what it has not read yet is as the boot loader left it, and the loop itself is untouched (an induction over the state, not over data) |
| SecEntryProofs!SecComposes, SecIsSafe | a boot of SEC satisfies the specifications of SystemMemory and of SmmuDetach, so that all guarantees above hold of it | every step of SecEntry is a step of each or leaves its variables |
| BootFlowProofs!SnapshotGuarded | ReadsGuarded: a pass faults only if the block went dark after its guard, or the window was recorded and not mapped | the guard and the reads are one notification |
| BootFlowProofs!LoadersUnaware | HookTransparent | the hook counts one call through for each call in, at each of its places |
| BootFlowProofs!WinloadStaysSealed | WinloadSealed: read-only again unless protecting failed, and no branch without the shell code | the attributes that were saved are those of the image while the patch is in progress |
| BootFlowProofs!UnitsDense, UnitsTakenBack | units are numbered without a hole; LunsFreed: a device that was to be started leaves no unit unless it refused one | the number assigned bounds both loops |
| BootFlowProofs!PolicyIsServed | PolicyServed, for any file systems and any policy of the firmware, where the boot found no file, an empty one or the same one | whatever is behind the callback's loop has its policy; what is before it is as at the start |
| BootFlowProofs!CallbackIsFinite | every step of FileSystemCallback but those around a failed LocateHandleBuffer lowers a natural number (CallbackLeft), and at 0 it is through | a file system is located once, and takes at most five calls |
| BootFlowProofs!TablesReferred | TablesRefer: caches that were registered and no other; the memory array if it was registered | RecordsInv says whose turn it is and which locals have been set; a handle behind the first cache is set |
| BootFlowProofs!TextsAllReturned | TextsReturned | a text is freed in the step that ends its use |
| AcpiTablesProofs!ServedAlways | DsdtServed | the old DSDT goes away only in the step before the new one is installed |
| AcpiTablesProofs!LayoutAlways | LayoutKept, for well-formed tables of every length | ContentInv: what differs from the table as built is data of objects behind the loop; data of two objects lie apart, and no data byte is a NameOp, so every scan of the copy finds the place and the size it would find in the table as built |
| AcpiTablesProofs!OriginsAlways | OriginsRight: where each byte of a name is from | ContentInv: in a package that checks, only regions have failed (FailuresChecked); a cell of the copy is one of the table as built or one of a value made from the queries that failed |
| AcpiTablesProofs!EveryNameWritten | EveryNameTold | ContentInv: names behind the loop whose object has room have their value, and later updates keep off it |

The invariants that a run checks are seldom inductive: a state that satisfies them
may lie in the middle of a loop whose locals are arbitrary. Each proof module defines
the strengthening it uses (named ...Inv), proves that it holds initially and after every
step, one proof step per action, and derives the property. BootFlow composes
libraries that share no variables: each has an invariant of its own, and a step of the
boot is one of its steps or leaves its variables alone, which BootFlowProofs shows
once for each library.

The assumptions are the named ASSUMEs of the modules, which TLC evaluates in the runs:
sizes are positive, sets are of the right kind. Two say more. AcpiAssumption takes the
bodies of the DSDT as the AML compiler writes them (WellFormed): the data of an object
lie inside the table and are data, a string ends with its Nul, and of the names that
are patched only SIDS is declared as a string, since a number as wide as a string would
overwrite the Nul. RegionAssumption takes the regions of a platform to be not inside
out. CopiesFit is a hypothesis of MenuDecided alone: a full ring drops its oldest key,
which may be the press of Volume Up; the queue of the code has room for 255 copies,
and a countdown is a few seconds.

What the operators compute for every input is proved without induction over data
where the model says it by its elements: the list of registrations and the queues are
described by the positions of their elements, the first place of a name as the least
of a set, the ring of the log by its slots.

Only model-checked: the liveness properties UpdateEnds, NotifyDrains and CallbackEnds,
which need ENABLED and fairness; and the four properties that do not hold. What can
be proved of the first and the last without them is: EveryRunIsFinite and
CallbackIsFinite show that the program's steps lower a number that bounds how many
are left, and TLC that one of them is possible until the end.

## 5. Findings

1. `SwitchSlot.c:1180` against the comment at 1113: the rollback may write over the
   last valid copy (switch_slot_torn).
2. `FrameBufferSerialPortLib.c:271` against 245: an uninitialized local decides
   whether the fallback region is tried (log_failover).
3. `ModuleEntryPoint.S:54` against 53 and `Sec.c:87`: the loop that clears the stack
   advances the register that is then passed as its base, so the stack HOB describes
   the memory behind the stack (sec_stack).
4. `SecureBootHandler.c:158` against 157: the new policy is written where reading the
   old one left the position of the file (secure_boot_append).

Met while modelling, without a statement in the repository to hold against them; the
models have them as the code does:

- `SmBiosTable.c:448`: a refused TYPE16 leaves the memory array handle of TYPE17 and
  TYPE19 uninitialized, and `SmBiosTableLib/Utils.c:176` the highest speed when the last
  frequency is not enabled; TablesRefer says that these are the only two.
- `KeypadTextIn.c:671`: the walk reads the link of the registration whose function just
  returned, also when that function has unregistered it and the entry was freed; and a
  registration made anew goes to the tail, so that two functions can keep a walk going.
- `BootManager.c:162`: the menu that was asked for may not be found; the boot goes on.
- `KeypadDxe.c:178`: a key is called once per registration and copy of the key;
  `KeypadDxe.c:403`: Stop closes its events in an else chain.
- `AcpiTableUpdate.c:77` of several SoCs: the status of GetPlatformInfo is not looked at,
  and PLST and PRP2 are what the stack held; OriginsRight says that these are the only two.
  `AcpiTableUpdate.c:184` of Waipio and Palima: TCMA and TCML of a platform without TGCM
  are 0xDEADBEEF and 0xBEEFDEAD.
- `AslUpdateLib.c:48`: the next index is tried after any error of GetAcpiTable but
  EFI_NOT_FOUND; with one that lasts the loop has no end (pc "hang").
- `AslUpdateLib.c:205`: a narrower value leaves the upper bytes of the object as they were.
- `RamManager.c:223`: the cleanup frees MemoryRange, which was not set when the memory
  map could not be had; `RamManagerLib/RamManager.c:39` cuts the number of partitions to
  8 bits; `MemoryInitPei.c:109`: a table of more than 128 regions is only caught by an
  assertion, and one of exactly 128 leaves no room for the entry that ends MemoryTable (50).
- `RamManager.c:102`: RAM of a region without HOB, as DBI_Dump of several platforms, is
  used like any other; a device in RAM makes the GCD refuse the whole gap around it.
- `SecureBootHandler.c:251`: the loop continues on an error of LocateHandleBuffer with nothing
  changed; an error that lasts is repeated for ever at TPL_CALLBACK.
- `FrameBufferSerialPortLib.c:280`: a Silicium_Log no longer than the header is refused
  without trying UEFI_Log.
- `MemoryAllocationHelper.c:73`: when a step after AddMemorySpace fails, the GCD knows
  memory that nothing maps; RamManagerDxe logs it and goes on.
- `Sec.c:60`: the region of the heap is used without a look at whether it was found.
- `MassStorage.c:131`: the last unit of the device is never assigned.
- `KernelErrataPatcherLib.c:36`: the hook takes itself out at the first call, so that a
  loader that fails uses it up.
- `SwitchSlot.c:428`: a storage that cannot be read is left out of the detection;
  `SwitchSlot.c:1138`: FlushBlocks comes after all four writes of a storage, and whether
  the storage may reorder them is decided outside the repository.

## 6. Plan

The order the project was written in, most important first: SwitchSlot, which can
leave a phone without a partition table; the keypad driver and the hotkey; the debug
log; memory; ACPI; then SEC as a whole around memory and the SMMU, the keypad's
binding and queue as one, and the boot from the drivers to the operating system
with secure boot, the errata patcher, the display snapshot, mass storage and SMBIOS.

What could follow:

- Waiting for a protocol (AslUpdateLib, DxeRngLib, secure boot) as one abstract
  specification that the three implement.
- A measure for KeyNotifyProcessHandler like those of SwitchSlot and of the callback;
  it has to count what the functions it calls may still push.
- NoKeySkipped of Keypad over the ring of KeyQueue instead of a sequence, from
  ConsoleIsFifo.
- The RFS area and the HOBs of the boot loader's modules (`Q/Library/PlatformPeiLib`),
  once it is known what the hypervisor and those modules expect.

## 7. Not modelled, and why

- Glue without a state of its own: the keypad device, the RNG library (it waits for a
  protocol as AslUpdateLib does), IORT, the simple frame buffer (one mode),
  PlatformSecLib of the SoCs that only write fixed registers, Null libraries.
- `Q/Library/RfsProtectionLib`: one hypervisor call at the entry of BDS with a constant
  list, of which the repository says neither what it changes nor what relies on it.
- `Q/Library/PlatformPeiLib`: it searches the boot loader's code for instruction patterns
  and takes the last address it finds; what is right is a property of binaries that
  are not here. Its HOBs are read by those binaries only.
- Constant data and formatting: platforms' tables, ACPI values, SMBIOS sizes and
  strings, component names, glyphs and colours.
- Mu_Basecore, Common, Silicium-ACPI and Binaries are submodules that are empty
  here; what the code relies on from them is external in the map.
- In the modelled parts: names of partitions character by character, LBA arithmetic,
  control characters of the keypad, pattern search in kernels and shell code,
  LocateTableByOemTableId (no caller), cache maintenance.

How much of the tree this is. Of the files below `src/` that hold code, most lines are
vendored: OpenSSL's generated sources and headers, BaseCryptLib and TlsLib
(about 31 000 lines), the protocol headers of the boot loader (about 20 000) and headers of
device tables. The firmware's own C and assembly is below 15 000 lines, 1 500 of them shell
code with its reference sources, and the map covers about half of it: nearly all
that keeps a state. The rest of the own code is in the list above. A model of
vendored cryptography, or of headers, would not be about this program.
