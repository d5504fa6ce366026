----------------------------- MODULE ErrataPatcher -----------------------------
(***************************************************************************)
(* KernelErrataPatcherLib: at ReadyToBoot it puts itself in the place of   *)
(* ExitBootServices in the boot services table.  When an OS loader calls,  *)
(* it takes itself out again, patches the loader if that is winload.efi,   *)
(* and passes the call on.                                                 *)
(***************************************************************************)
EXTENDS Naturals

CONSTANTS
  Loaders,    \* images that may call: [winload, readOnly, attributes]
  MaxCalls    \* calls of ExitBootServices in a boot

LoaderSet ==
  [winload    : BOOLEAN,  \* a DOS and an NT header within reach below the caller
   readOnly   : BOOLEAN,  \* its pages are read-only
   attributes : BOOLEAN]  \* there is a memory attribute protocol

\* Without the protocol nobody made pages read-only.
ASSUME ErrataAssumption ==
  /\ Loaders \subseteq LoaderSet /\ \A l \in Loaders : l.readOnly => l.attributes
  /\ MaxCalls \in Nat

VARIABLES
  readyEvent,   \* the event of ReadyToBootHandler: "open", "closed"
  ebs,          \* gBS->ExitBootServices: "original", "hook"
  mOriginal,    \* mOriginalEfiExitBootServices, "none" at first
  hook,         \* where KernelErrataPatcherExitBootServices is
  loader,       \* the image that runs
  readOnly,     \* its pages
  shellCode,    \* the shell code lies in front of TransferToKernel
  jump,         \* the branch to TransferToKernel goes to the shell code
  calls,        \* history: calls of ExitBootServices by loaders
  reached,      \* history: calls that reached the original
  reprotected   \* history: no attempt to protect the pages again failed

image     == <<loader, readOnly, shellCode, jump>>
hookTable == <<readyEvent, ebs, mOriginal>>
hookSeen  == <<calls, reached, reprotected>>
hookVars  == <<hookTable, hook, image, hookSeen>>

\* The library is constructed; without its event nothing is ever hooked.
HookStarts ==
  /\ readyEvent \in {"open", "closed"} /\ ebs = "original" /\ mOriginal = "none"
  /\ hook = "idle" /\ loader \in Loaders
  /\ readOnly = loader.readOnly /\ shellCode = FALSE /\ jump = FALSE
  /\ calls = 0 /\ reached = 0 /\ reprotected = TRUE

-----------------------------------------------------------------------------
\* The event stays open and is signalled again with the next boot option.
ReadyEventKept   == readyEvent
ReadyEventClosed == "closed"

ReadyToBootHandler ==
  /\ readyEvent = "open" /\ readyEvent' = ReadyEventClosed
  /\ mOriginal' = ebs /\ ebs' = "hook"
  /\ UNCHANGED <<hook, image, hookSeen>>

\* A loader calls what the table holds.  The original succeeds, and boot
\* services are gone, or refuses an old map key, and the loader may call again.
CallOriginal ==
  /\ hook = "idle" /\ ebs = "original" /\ calls < MaxCalls
  /\ calls' = calls + 1 /\ reached' = reached + 1 /\ hook' \in {"idle", "exited"}
  /\ UNCHANGED <<hookTable, image, reprotected>>

\* The hook first takes itself out of the table.
CallHook ==
  /\ hook = "idle" /\ ebs = "hook" /\ calls < MaxCalls
  /\ calls' = calls + 1 /\ ebs' = mOriginal
  /\ hook' = IF loader.winload THEN "unprotect" ELSE "pass on"
  /\ UNCHANGED <<readyEvent, mOriginal, image, reached, reprotected>>

\* SetWinloadProtection without the protocol does nothing and succeeds.
Unprotect ==
  /\ hook = "unprotect"
  /\ \/ hook' = "patch" /\ readOnly' = (readOnly /\ ~loader.attributes)
     \/ loader.attributes /\ hook' = "reprotect" /\ UNCHANGED readOnly
  /\ UNCHANGED <<hookTable, loader, shellCode, jump, hookSeen>>

\* A write to read-only pages faults.
Write(next) == hook' = IF readOnly THEN "fault" ELSE next

\* ApplyPlatformErrataPatches, where the pattern is found; the platform may have
\* no shell code, and the loader no branch to TransferToKernel.
ApplyErrataPatches ==
  /\ hook = "patch"
  /\ \/ Write("shell code")
     \/ hook' \in {"shell code", "reprotect"}
  /\ UNCHANGED <<hookTable, image, hookSeen>>

CopyShellCode ==
  /\ hook = "shell code"
  /\ \/ Write("jump") /\ shellCode' = ~readOnly
     \/ hook' = "reprotect" /\ UNCHANGED shellCode
  /\ UNCHANGED <<hookTable, loader, readOnly, jump, hookSeen>>

InjectJump ==
  /\ hook = "jump" /\ Write("reprotect") /\ jump' = ~readOnly
  /\ UNCHANGED <<hookTable, loader, readOnly, shellCode, hookSeen>>

\* After an error the pages are left as they are.
ProtectOnSuccess == jump

ProtectAlways == TRUE

Reprotect ==
  /\ hook = "reprotect" /\ hook' = "pass on"
  /\ \/ readOnly' = (readOnly \/ (loader.attributes /\ ProtectAlways)) /\ UNCHANGED reprotected
     \/ loader.attributes /\ reprotected' = FALSE /\ UNCHANGED readOnly
  /\ UNCHANGED <<hookTable, loader, shellCode, jump, calls, reached>>

\* gBS->ExitBootServices is called, whatever it is now.
PassOn ==
  /\ hook = "pass on"
  /\ reached' = reached + (IF ebs = "original" THEN 1 ELSE 0)
  /\ hook' \in IF ebs = "original" THEN {"idle", "exited"} ELSE {"fault"}
  /\ UNCHANGED <<hookTable, image, calls, reprotected>>

\* The loader gave up and the next one runs.
NextLoader(l) ==
  /\ hook = "idle" /\ loader' = l
  /\ readOnly' = l.readOnly /\ shellCode' = FALSE /\ jump' = FALSE
  /\ UNCHANGED <<hookTable, hook, hookSeen>>

HookSteps == Unprotect \/ ApplyErrataPatches \/ CopyShellCode \/ InjectJump \/ Reprotect \/ PassOn

-----------------------------------------------------------------------------
\* Loaders do not notice the hook, however many options are tried and however
\* often they call: each call reaches the original service once, and the hook
\* is never saved as the original.
HookTransparent ==
  /\ mOriginal # "hook"
  /\ hook \in {"idle", "exited"} => reached = calls
  /\ hook # "fault"

\* winload.efi runs on with its pages protected as before, unless protecting
\* them failed, and a branch changed to the shell code finds it there.
WinloadSealed ==
  /\ jump => shellCode
  /\ hook \in {"idle", "exited"} /\ reprotected /\ loader.readOnly => readOnly
=============================================================================
