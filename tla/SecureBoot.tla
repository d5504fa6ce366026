------------------------------ MODULE SecureBoot ------------------------------
(***************************************************************************)
(* SecureBootHandlerLib: every file system that holds the Windows boot     *)
(* manager gets the SiPolicy.p7b of the firmware, or loses its own in a    *)
(* build without secure boot.  FileSystemCallback is notified of file      *)
(* systems that appear, at BdsEntry and later, and takes them one by one.  *)
(*                                                                         *)
(* The file is a sequence of blocks on a medium that outlives a reset, and *)
(* a handle has a position that reading and writing move.                  *)
(***************************************************************************)
EXTENDS Naturals, Sequences

CONSTANTS
  FileSystems,
  Block,       \* contents of a block
  Custom,      \* SiPolicy.p7b in the firmware volume
  NoFile       \* there is no SiPolicy.p7b

Contents == Seq(Block) \union {NoFile}

ASSUME SecureBootAssumption == Custom \in Seq(Block) /\ Custom # <<>> /\ NoFile \notin Seq(Block)

VARIABLES
  enabled,    \* ENABLE_SECUREBOOT
  windows,    \* file systems with bootmgfw.efi
  policy,     \* SiPolicy.p7b of every file system
  installed,  \* file systems in the order they appeared
  registered, \* SetupSecureBoot has registered the callback
  signalled,  \* its event is signalled
  located,    \* how many file systems LocateHandleBuffer has returned
  sfs,        \* where the callback is with the last of them
  filePos,    \* position of the handle of SiPolicy.p7b
  replace,    \* the result of ReplaceSiPolicy
  atBoot,     \* history: the files when the boot began
  erred       \* history: file systems on which an operation failed

files   == <<enabled, windows, policy, atBoot>>
sbState == <<installed, registered, signalled, located, sfs, filePos, replace, erred>>
sbVars  == <<files, sbState>>

SecureBootStarts ==
  /\ installed = <<>> /\ registered = FALSE /\ signalled = FALSE /\ located = 0
  /\ sfs = "idle" /\ filePos = 0 /\ replace = FALSE /\ erred = {}

SecureBootResets ==
  /\ installed' = <<>> /\ registered' = FALSE /\ signalled' = FALSE /\ located' = 0
  /\ sfs' = "idle" /\ filePos' = 0 /\ replace' = FALSE /\ erred' = {}
  /\ atBoot' = policy /\ UNCHANGED <<enabled, windows, policy>>

Current == installed[located]

-----------------------------------------------------------------------------
\* From outside: a driver installs a file system protocol.
InstallFileSystem(f) ==
  /\ sfs = "idle" /\ f \notin {installed[i] : i \in DOMAIN installed}
  /\ installed' = Append(installed, f) /\ signalled' = registered
  /\ UNCHANGED <<files, registered, located, sfs, filePos, replace, erred>>

\* The event is signalled once for the file systems that are there already.
SetupSecureBoot ==
  /\ ~registered /\ registered' = TRUE /\ signalled' = TRUE
  /\ UNCHANGED <<files, installed, located, sfs, filePos, replace, erred>>

FileSystemCallback ==
  /\ sfs = "idle" /\ signalled /\ signalled' = FALSE /\ sfs' = "locate"
  /\ UNCHANGED <<files, installed, registered, located, filePos, replace, erred>>

\* The same handle again and again.
SameHandle(n) == IF n = 0 THEN 1 ELSE n

\* ByRegisterNotify returns a handle once.  What the last file system left is
\* forgotten.
NextHandle(n) == n + 1

LocateHandleBuffer ==
  /\ sfs = "locate"
  /\ IF NextHandle(located) <= Len(installed)
     THEN sfs' = "volume" /\ located' = NextHandle(located)
     ELSE sfs' = "idle" /\ UNCHANGED located
  /\ filePos' = 0 /\ replace' = FALSE
  /\ UNCHANGED <<files, installed, registered, signalled, erred>>

\* Without memory for the buffer no handle is returned, and the loop continues.
LocateFails ==
  /\ sfs = "locate" /\ sfs' = "again"
  /\ UNCHANGED <<files, installed, registered, signalled, located, filePos, replace, erred>>

LocateAgain ==
  /\ sfs = "again" /\ sfs' = "locate"
  /\ UNCHANGED <<files, installed, registered, signalled, located, filePos, replace, erred>>

\* Where an error leaves the callback: with the next file system, or, were it
\* to return, with the next event.
OnErrorReturn == "idle"
OnError       == "locate"

Fails ==
  /\ sfs' = OnError /\ erred' = erred \union {Current} /\ UNCHANGED <<filePos, replace>>

Unchanged == UNCHANGED <<files, installed, registered, signalled, located>>

\* HandleProtocol and OpenVolume, then bootmgfw.efi.
OpenVolume ==
  /\ sfs = "volume"
  /\ \/ Fails
     \/ /\ sfs' = IF Current \in windows THEN "open" ELSE "locate"
        /\ UNCHANGED <<filePos, replace, erred>>
  /\ Unchanged

\* SiPolicy.p7b is opened, or created in a build with secure boot.
OpenSiPolicy ==
  /\ sfs = "open"
  /\ \/ Fails /\ UNCHANGED policy
     \/ /\ policy[Current] # NoFile \/ enabled
        /\ sfs' = IF enabled THEN "read" ELSE "delete"
        /\ filePos' = 0 /\ UNCHANGED <<replace, erred>>
        /\ policy' = IF policy[Current] = NoFile THEN [policy EXCEPT ![Current] = <<>>] ELSE policy
     \/ /\ policy[Current] = NoFile /\ ~enabled /\ sfs' = "locate"
        /\ UNCHANGED <<policy, filePos, replace, erred>>
  /\ UNCHANGED <<enabled, windows, atBoot, installed, registered, signalled, located>>

\* Where a read leaves the position.
ReadUpTo(c) == Len(c)

\* GetSiPolicyContent and ReplaceSiPolicy.  The custom file may be missing; the
\* size of the file cannot be had, and nothing is read; the read or a hash fails.
ReadSiPolicy ==
  /\ sfs = "read" /\ Unchanged
  /\ \/ Fails
     \/ sfs' = "write" /\ replace' = TRUE /\ UNCHANGED <<filePos, erred>>
     \/ /\ sfs' = "write" /\ replace' = TRUE /\ filePos' \in {0, ReadUpTo(policy[Current])}
        /\ erred' = erred \union {Current}
     \/ /\ sfs' = "write" /\ replace' = (policy[Current] # Custom)
        /\ filePos' = ReadUpTo(policy[Current]) /\ UNCHANGED erred

\* What n blocks written at a position make of a file.
Written(c, pos, n) ==
  [i \in 1..(IF pos + n > Len(c) THEN pos + n ELSE Len(c)) |->
     IF i > pos /\ i <= pos + n THEN Custom[i - pos] ELSE c[i]]

\* A full disk or a reset ends a write after any block.
WriteSiPolicy ==
  /\ sfs = "write" /\ replace
  /\ \E n \in 0..Len(Custom) :
       /\ policy' = [policy EXCEPT ![Current] = Written(@, filePos, n)]
       /\ IF n = Len(Custom) THEN sfs' = "locate" /\ UNCHANGED <<filePos, replace, erred>>
          ELSE Fails
  /\ UNCHANGED <<enabled, windows, atBoot, installed, registered, signalled, located>>

KeepSiPolicy ==
  /\ sfs = "write" /\ ~replace /\ sfs' = "locate"
  /\ UNCHANGED <<filePos, replace, erred>> /\ Unchanged

DeleteSiPolicy ==
  /\ sfs = "delete"
  /\ \/ Fails /\ UNCHANGED policy
     \/ /\ policy' = [policy EXCEPT ![Current] = NoFile] /\ sfs' = "locate"
        /\ UNCHANGED <<filePos, replace, erred>>
  /\ UNCHANGED <<enabled, windows, atBoot, installed, registered, signalled, located>>

CallbackSteps ==
  \/ FileSystemCallback \/ LocateHandleBuffer \/ LocateFails \/ LocateAgain
  \/ OpenVolume \/ OpenSiPolicy \/ ReadSiPolicy \/ WriteSiPolicy \/ KeepSiPolicy \/ DeleteSiPolicy

-----------------------------------------------------------------------------
Served == registered /\ sfs = "idle" /\ ~signalled
Windows == {f \in windows : \E i \in DOMAIN installed : installed[i] = f}

\* Once the callback has run, the file system of every Windows has the policy
\* it should have, whatever happened to other file systems: the file of the
\* firmware where the boot found none, an empty or the same one, no file in a build
\* without secure boot.  No other file is touched.
PolicyServed ==
  /\ Served => \A f \in Windows \ erred :
       IF enabled THEN atBoot[f] \in {NoFile, <<>>, Custom} => policy[f] = Custom
       ELSE policy[f] = NoFile
  /\ \A f \in FileSystems \ windows : policy[f] = atBoot[f]

\* "Write new SiPolicy Data": the file that is written is the one of the firmware.
PolicyReplaced == Served /\ enabled => \A f \in Windows \ erred : policy[f] = Custom

\* The callback, once signalled, comes to an end, whatever fails on the file systems,
\* unless LocateHandleBuffer fails without end: the loop repeats at TPL_CALLBACK, where
\* nothing that could free memory runs, so an error that lasts is never left.
CallbackEnds == <>[](sfs # "again") => (signalled ~> (sfs = "idle" /\ ~signalled))
=============================================================================
