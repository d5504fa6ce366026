------------------------------- MODULE KeyFifo -------------------------------
(***************************************************************************)
(* What an EFI_KEY_QUEUE of the keypad driver promises: keys come out in   *)
(* the order they went in, each once, and when more keys arrive than are   *)
(* read it is the oldest ones that are lost.                               *)
(***************************************************************************)
EXTENDS Naturals, Sequences

CONSTANTS
  Keys,   \* what is queued
  NoKey,  \* handed out with EFI_NOT_READY
  Limit   \* the number of keys that are kept

VARIABLES
  fifo,   \* the keys, oldest first
  out,    \* what the last PopEfikeyBufHead handed out
  last    \* the operation that ran last

\* q with k put behind its keys.
Pushed(q, k) == Append(IF Len(q) = Limit THEN Tail(q) ELSE q, k)

Init    == fifo = <<>> /\ out = NoKey /\ last = "init"
Push(k) == fifo' = Pushed(fifo, k) /\ last' = "push" /\ UNCHANGED out
Pop     == fifo # <<>> /\ out' = Head(fifo) /\ fifo' = Tail(fifo) /\ last' = "pop"
Refuse  == fifo = <<>> /\ out' = NoKey /\ last' = "pop" /\ UNCHANGED fifo
Clear   == fifo' = <<>> /\ last' = "init" /\ UNCHANGED out

Next == (\E k \in Keys : Push(k)) \/ Pop \/ Refuse \/ Clear
Spec == Init /\ [][Next]_<<fifo, out, last>>
=============================================================================
