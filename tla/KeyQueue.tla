------------------------------- MODULE KeyQueue -------------------------------
(***************************************************************************)
(* EFI_KEY_QUEUE (KeypadDxe.h, KeypadTextIn.c): a ring of                  *)
(* KEYPAD_EFI_KEY_MAX_COUNT slots with a Head and a Tail index.  Head =    *)
(* Tail means empty, so one slot stays free; pushing into a full ring pops *)
(* the oldest key first.  A queue is only touched at TPL_NOTIFY, so each   *)
(* operation is one step.  The ring implements KeyFifo.                    *)
(***************************************************************************)
EXTENDS Naturals, Sequences

CONSTANTS
  KEYPAD_EFI_KEY_MAX_COUNT,  \* slots of the ring
  Keys,                      \* EFI_KEY_DATA values
  NoKey                      \* no key data

N == KEYPAD_EFI_KEY_MAX_COUNT

ASSUME QueueAssumption == N \in Nat \ {0, 1} /\ NoKey \notin Keys

VARIABLES
  buffer,      \* Buffer
  head, tail,  \* Head and Tail
  out,         \* what the last PopEfikeyBufHead copied to its caller
  last         \* history: the operation that ran last

vars == <<buffer, head, tail, out, last>>

After(i) == (i + 1) % N

IsEfikeyBufEmpty == head = tail
Full             == After(tail) = head

\* AllocateZeroPool clears the console instance the queues live in.
Init == /\ buffer = [i \in 0..N-1 |-> NoKey] /\ head = 0 /\ tail = 0 /\ out = NoKey
        /\ last = "init"

PopEfikeyBufHead ==
  /\ ~IsEfikeyBufEmpty
  /\ out' = buffer[head] /\ head' = After(head) /\ last' = "pop"
  /\ UNCHANGED <<buffer, tail>>

NotReady == IsEfikeyBufEmpty /\ out' = NoKey /\ last' = "pop" /\ UNCHANGED <<buffer, head, tail>>

\* The bug a ring invites: the oldest key is overwritten, Head stays.
HeadPushedOverwriting == head

HeadPushed == IF Full THEN After(head) ELSE head

PushEfikeyBufTail(k) ==
  /\ head' = HeadPushed
  /\ buffer' = [buffer EXCEPT ![tail] = k] /\ tail' = After(tail) /\ last' = "push"
  /\ UNCHANGED out

\* InitKeypad empties a queue and leaves its slots alone.
InitKeypad == head' = 0 /\ tail' = 0 /\ last' = "init" /\ UNCHANGED <<buffer, out>>

Next == (\E k \in Keys : PushEfikeyBufTail(k)) \/ PopEfikeyBufHead \/ NotReady \/ InitKeypad
Spec == Init /\ [][Next]_vars

-----------------------------------------------------------------------------
\* The indices stay inside Buffer, and what is copied out is a key.
TypeOK ==
  /\ buffer \in [0..N-1 -> Keys \union {NoKey}]
  /\ head \in 0..N-1 /\ tail \in 0..N-1 /\ out \in Keys \union {NoKey}
  /\ last \in {"init", "push", "pop"}

\* The number of keys queued, and the queued keys from oldest to newest.
Length   == (tail + N - head) % N
Contents == [i \in 1..Length |-> buffer[(head + i - 1) % N]]

\* Every slot between Head and Tail holds a key that was pushed, never the
\* zeroes of a slot that was not written.
QueuedAreKeys == \A i \in 1..Length : buffer[(head + i - 1) % N] \in Keys

Fifo == INSTANCE KeyFifo WITH fifo <- Contents, Limit <- N - 1

\* The ring is a FIFO that keeps the newest N - 1 keys: no key is lost while
\* fewer than N - 1 wait, none is handed out twice or out of order.
IsFifo == Fifo!Spec
=============================================================================
