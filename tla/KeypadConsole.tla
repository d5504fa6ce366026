----------------------------- MODULE KeypadConsole -----------------------------
(***************************************************************************)
(* The console instance ConsoleIn from Start to Stop with the queue that   *)
(* clients read, EfiKeyQueue.  The queue begins when the instance is       *)
(* allocated, and its timer may fill it while Start still runs; clients    *)
(* reach it through the protocols while they are installed, also after a   *)
(* Stop that could not uninstall them and left the timer closed.           *)
(***************************************************************************)
EXTENDS KeyQueue, KeypadDriver

ConsoleInit == Init /\ DriverInit

\* The memory of a new instance is zero.
AllocateConsole ==
  /\ Allocate
  /\ buffer' = [i \in 0..N-1 |-> NoKey] /\ head' = 0 /\ tail' = 0 /\ last' = "init"
  /\ UNCHANGED out

ResetConsole == Reset /\ InitKeypad

\* A poll pushes the key it finds.
TimerPolls ==
  /\ TimerFires(count) /\ count \notin freed
  /\ \E k \in Keys : PushEfikeyBufTail(k)

\* It finds none, or runs on an instance whose queue is gone.
TimerPollsNothing == (\E c \in Consoles : TimerFires(c)) /\ UNCHANGED vars

\* ReadKeyStroke polls too before it pops, and Reset empties the queue.
Client ==
  /\ pc = "idle" /\ installed
  /\ (\E k \in Keys : PushEfikeyBufTail(k)) \/ PopEfikeyBufHead \/ NotReady \/ InitKeypad
  /\ UNCHANGED driverVars

Binding ==
  /\ \/ StartOpen \/ AllocateFails \/ SetTimer \/ Install \/ CleanUp
     \/ \E e \in EventNames : CreateEvent(e)
     \/ StopTimer \/ UninstallFails \/ Uninstall
  /\ UNCHANGED vars

ConsoleNext ==
  AllocateConsole \/ ResetConsole \/ TimerPolls \/ TimerPollsNothing \/ Client \/ Binding

ConsoleSpec == ConsoleInit /\ [][ConsoleNext]_<<vars, driverVars>>
=============================================================================
