-------------------------- MODULE KeypadConsoleProofs --------------------------
(***************************************************************************)
(* First the ring of the keypad driver: it is a FIFO for every ring size   *)
(* and every set of keys.  The arithmetic modulo N is turned into case     *)
(* distinctions once (StepWraps, SlotWraps, LengthWraps), ContentsIs reads *)
(* the queued keys as a sequence, and each operation is then compared, key *)
(* by key, with what KeyFifo does.                                         *)
(*                                                                         *)
(* Then the binding invariants of the driver for any number of starts, and *)
(* the console instance as a whole: the binding with its queue.            *)
(* BindingInv adds what the steps in between rely on: while Start runs     *)
(* nothing is installed and the protocol is open, instances are freed only *)
(* after they were allocated, and Stop has no timer left when it frees one.*)
(***************************************************************************)
EXTENDS KeypadConsole, SequenceTheorems, TLAPS

\* What After computes, without a modulus.
LEMMA StepWraps ==
  ASSUME QueueAssumption, NEW i \in 0..N-1
  PROVE  /\ After(i) = IF i = N - 1 THEN 0 ELSE i + 1
         /\ After(i) \in 0..N-1
BY DEF QueueAssumption, After

\* The slot of the i-th key behind h.
LEMMA SlotWraps ==
  ASSUME QueueAssumption, NEW h \in 0..N-1, NEW i \in 1..N
  PROVE  /\ (h + i - 1) % N = IF h + i - 1 >= N THEN h + i - 1 - N ELSE h + i - 1
         /\ (h + i - 1) % N \in 0..N-1
BY DEF QueueAssumption

\* How many keys two indices delimit.
LEMMA LengthWraps ==
  ASSUME QueueAssumption, NEW h \in 0..N-1, NEW t \in 0..N-1
  PROVE  /\ (t + N - h) % N = IF t >= h THEN t - h ELSE t - h + N
         /\ (t + N - h) % N \in 0..N-1
BY DEF QueueAssumption

\* The queued keys, read as a sequence.
LEMMA ContentsIs ==
  ASSUME QueueAssumption, TypeOK, QueuedAreKeys
  PROVE  /\ Contents \in Seq(Keys) /\ Len(Contents) = Length /\ Length \in 0..N-1
         /\ \A i \in 1..Length : Contents[i] = buffer[(head + i - 1) % N]
<1>1. Length \in 0..N-1 /\ Length \in Nat
  BY LengthWraps DEF TypeOK, Length, QueueAssumption
<1>2. \A i \in 1..Length : buffer[(head + i - 1) % N] \in Keys
  BY DEF QueuedAreKeys
<1>3. Contents \in Seq(Keys) /\ Len(Contents) = Length
  BY <1>1, <1>2 DEF Contents
<1>4. \A i \in 1..Length : Contents[i] = buffer[(head + i - 1) % N]
  BY DEF Contents
<1>5. QED  BY <1>1, <1>3, <1>4

Inv == TypeOK /\ QueuedAreKeys

LEMMA InvInit == QueueAssumption /\ Init => Inv
<1> SUFFICES ASSUME QueueAssumption, Init PROVE Inv
  OBVIOUS
<1>1. TypeOK
  BY DEF Init, TypeOK, QueueAssumption
<1>2. Length = 0
  BY LengthWraps DEF Init, Length, QueueAssumption
<1>3. QED  BY <1>1, <1>2 DEF Inv, QueuedAreKeys

\* A push: the queued keys, the oldest dropped if the ring was full, and k.
LEMMA PushStep ==
  ASSUME QueueAssumption, Inv, NEW k \in Keys, PushEfikeyBufTail(k)
  PROVE  Inv' /\ Fifo!Push(k)
<1> USE DEF PushEfikeyBufTail, HeadPushed, Full
<1>1. /\ N \in Nat \ {0, 1} /\ buffer \in [0..N-1 -> Keys \union {NoKey}]
      /\ head \in 0..N-1 /\ tail \in 0..N-1
  BY DEF QueueAssumption, Inv, TypeOK
<1>2. /\ After(tail) = IF tail = N - 1 THEN 0 ELSE tail + 1
      /\ After(head) = IF head = N - 1 THEN 0 ELSE head + 1
      /\ After(tail) \in 0..N-1 /\ After(head) \in 0..N-1
  BY <1>1, StepWraps
<1>3. TypeOK'
  BY <1>1, <1>2 DEF Inv, TypeOK
<1>4. /\ Length = IF tail >= head THEN tail - head ELSE tail - head + N
      /\ Length' = IF tail' >= head' THEN tail' - head' ELSE tail' - head' + N
  BY <1>1, <1>2, LengthWraps DEF Length
<1>5. /\ Full <=> Length = N - 1
      /\ Length' = IF Full THEN N - 1 ELSE Length + 1
      /\ Length \in 0..N-1 /\ Length' \in 1..N-1
  BY <1>1, <1>2, <1>4
<1>6. \A i \in 1..Length' :
        buffer'[(head' + i - 1) % N] =
          IF i = Length' THEN k
          ELSE IF Full THEN buffer[(head + (i + 1) - 1) % N]
          ELSE buffer[(head + i - 1) % N]
  <2> SUFFICES ASSUME NEW i \in 1..Length'
               PROVE  buffer'[(head' + i - 1) % N] =
                        IF i = Length' THEN k
                        ELSE IF Full THEN buffer[(head + (i + 1) - 1) % N]
                        ELSE buffer[(head + i - 1) % N]
    OBVIOUS
  <2>1. i \in 1..N /\ i + 1 \in 1..N /\ head' \in 0..N-1
    BY <1>1, <1>2, <1>5
  <2>2. (head' + i - 1) % N = IF head' + i - 1 >= N THEN head' + i - 1 - N ELSE head' + i - 1
    BY <2>1, SlotWraps
  <2>3. (head + i - 1) % N = IF head + i - 1 >= N THEN head + i - 1 - N ELSE head + i - 1
    BY <1>1, <2>1, SlotWraps
  <2>4. (head + (i + 1) - 1) % N
          = IF head + (i + 1) - 1 >= N THEN head + (i + 1) - 1 - N ELSE head + (i + 1) - 1
    BY <1>1, <2>1, SlotWraps
  <2>5. i = Length' <=> (head' + i - 1) % N = tail
    <3>1. CASE Full
      <4>1. Length' = N - 1 /\ After(tail) = head /\ head' = After(head)
        BY <1>5, <3>1
      <4>2. tail = IF head = 0 THEN N - 1 ELSE head - 1
        BY <1>1, <1>2, <4>1
      <4>3. QED  BY <1>1, <1>2, <2>1, <2>2, <4>1, <4>2
    <3>2. CASE ~Full
      <4>1. Length' = Length + 1 /\ head' = head
        BY <1>5, <3>2
      <4>2. tail = IF head + Length >= N THEN head + Length - N ELSE head + Length
        BY <1>1, <1>4
      <4>3. Length \in 0..N - 2 /\ i - 1 \in 0..Length /\ head \in 0..N-1 /\ N \in Nat
        BY <1>1, <1>5, <3>2, <4>1
      <4>4. (head' + i - 1) % N = IF head + (i - 1) >= N THEN head + (i - 1) - N ELSE head + (i - 1)
        BY <2>1, <2>2, <4>1, <4>3
      <4>5. i = Length' <=> i - 1 = Length
        BY <2>1, <4>1, <4>3
      <4>6. QED  BY <4>2, <4>3, <4>4, <4>5
    <3>3. QED  BY <3>1, <3>2
  <2>6. \A j \in 0..N-1 : buffer'[j] = IF j = tail THEN k ELSE buffer[j]
    BY <1>1
  <2>7. (head' + i - 1) % N \in 0..N-1
    BY <2>1, SlotWraps
  <2>8. (head' + i - 1) % N = IF Full THEN (head + (i + 1) - 1) % N ELSE (head + i - 1) % N
    BY <1>1, <1>2, <2>1, <2>2, <2>3, <2>4
  <2>9. QED  BY <2>5, <2>6, <2>7, <2>8
<1>7. \A i \in 1..Length : buffer[(head + i - 1) % N] \in Keys
  BY DEF Inv, QueuedAreKeys
<1>8. QueuedAreKeys'
  <2> SUFFICES ASSUME NEW i \in 1..Length' PROVE buffer'[(head' + i - 1) % N] \in Keys
    BY DEF QueuedAreKeys
  <2>1. i # Length' => IF Full THEN i + 1 \in 1..Length ELSE i \in 1..Length
    BY <1>1, <1>5
  <2>2. QED  BY <1>6, <1>7, <2>1
<1>9. Contents' = Fifo!Pushed(Contents, k)
  <2> DEFINE kept == IF Len(Contents) = N - 1 THEN Tail(Contents) ELSE Contents
  <2>1. /\ Contents \in Seq(Keys) /\ Len(Contents) = Length
        /\ \A i \in 1..Length : Contents[i] = buffer[(head + i - 1) % N]
    BY ContentsIs DEF Inv
  <2>2. /\ kept \in Seq(Keys) /\ Len(kept) + 1 = Length'
        /\ \A i \in 1..Len(kept) :
             kept[i] = IF Full THEN buffer[(head + (i + 1) - 1) % N]
                       ELSE buffer[(head + i - 1) % N]
    <3>1. CASE Full
      <4>1. Contents # <<>> /\ kept = Tail(Contents)
        BY <1>1, <1>5, <2>1, <3>1
      <4>2. /\ Tail(Contents) \in Seq(Keys) /\ Len(Tail(Contents)) = Length - 1
            /\ \A i \in 1..Length - 1 : Tail(Contents)[i] = Contents[i + 1]
        BY <2>1, <4>1, HeadTailProperties
      <4>3. QED  BY <1>1, <1>5, <2>1, <3>1, <4>1, <4>2
    <3>2. CASE ~Full
      BY <1>1, <1>5, <2>1, <3>2
    <3>3. QED  BY <3>1, <3>2
  <2> HIDE DEF kept
  <2>3. /\ Append(kept, k) \in Seq(Keys) /\ Len(Append(kept, k)) = Length'
        /\ \A i \in 1..Length' : Append(kept, k)[i] = IF i = Length' THEN k ELSE kept[i]
    BY <2>2
  <2>4. \A i \in 1..Length' : Append(kept, k)[i] = buffer'[(head' + i - 1) % N]
    <3> SUFFICES ASSUME NEW i \in 1..Length'
                 PROVE  Append(kept, k)[i] = buffer'[(head' + i - 1) % N]
      OBVIOUS
    <3>1. i # Length' => i \in 1..Len(kept)
      BY <1>5, <2>2
    <3>2. QED  BY <1>6, <2>2, <2>3, <3>1
  <2>5. Contents' \in Seq(Keys) /\ Len(Contents') = Length'
        /\ \A i \in 1..Length' : Contents'[i] = buffer'[(head' + i - 1) % N]
    <3>1. Contents' = [i \in 1..Length' |-> buffer'[(head' + i - 1) % N]]
      BY DEF Contents
    <3>2. \A i \in 1..Length' : buffer'[(head' + i - 1) % N] \in Keys
      BY <1>8 DEF QueuedAreKeys
    <3>3. QED  BY <1>5, <3>1, <3>2
  <2>6. Contents' = Append(kept, k)
    <3> DEFINE other == Append(kept, k)
    <3>1. other \in Seq(Keys) /\ Len(other) = Length' /\ Len(Contents') = Length'
      BY <2>3, <2>5
    <3>2. \A i \in 1..Length' : Contents'[i] = other[i]
      BY <2>4, <2>5
    <3> HIDE DEF other
    <3>3. Contents' = other
      BY <2>5, <3>1, <3>2, SeqEqual
    <3>4. QED  BY <3>3 DEF other
  <2>7. QED  BY <2>6 DEF kept, Fifo!Pushed
<1>10. QED  BY <1>3, <1>8, <1>9 DEF Inv, Fifo!Push

\* A pop: the oldest key goes to the caller, the others stay.
LEMMA PopStep ==
  ASSUME QueueAssumption, Inv, PopEfikeyBufHead
  PROVE  Inv' /\ Fifo!Pop
<1> USE DEF PopEfikeyBufHead, IsEfikeyBufEmpty
<1>1. /\ N \in Nat \ {0, 1} /\ buffer \in [0..N-1 -> Keys \union {NoKey}]
      /\ head \in 0..N-1 /\ tail \in 0..N-1
  BY DEF QueueAssumption, Inv, TypeOK
<1>2. /\ After(head) = IF head = N - 1 THEN 0 ELSE head + 1
      /\ After(head) \in 0..N-1
  BY <1>1, StepWraps
<1>3. TypeOK'
  BY <1>1, <1>2 DEF Inv, TypeOK
<1>4. /\ Length = IF tail >= head THEN tail - head ELSE tail - head + N
      /\ Length' = IF tail' >= head' THEN tail' - head' ELSE tail' - head' + N
  BY <1>1, <1>2, LengthWraps DEF Length
<1>5. Length' = Length - 1 /\ Length \in 1..N-1
  BY <1>1, <1>2, <1>4
<1>6. \A i \in 1..Length' : buffer'[(head' + i - 1) % N] = buffer[(head + (i + 1) - 1) % N]
  <2> SUFFICES ASSUME NEW i \in 1..Length'
               PROVE  (head' + i - 1) % N = (head + (i + 1) - 1) % N
    OBVIOUS
  <2>1. i \in 1..N /\ i + 1 \in 1..N /\ head' \in 0..N-1
    BY <1>1, <1>2, <1>5
  <2>2. (head' + i - 1) % N = IF head' + i - 1 >= N THEN head' + i - 1 - N ELSE head' + i - 1
    BY <2>1, SlotWraps
  <2>3. (head + (i + 1) - 1) % N
          = IF head + (i + 1) - 1 >= N THEN head + (i + 1) - 1 - N ELSE head + (i + 1) - 1
    BY <1>1, <2>1, SlotWraps
  <2>4. QED  BY <1>1, <1>2, <2>1, <2>2, <2>3
<1>7. /\ Contents \in Seq(Keys) /\ Len(Contents) = Length
      /\ \A i \in 1..Length : Contents[i] = buffer[(head + i - 1) % N]
  BY ContentsIs DEF Inv
<1>8. QueuedAreKeys'
  <2> SUFFICES ASSUME NEW i \in 1..Length' PROVE buffer'[(head' + i - 1) % N] \in Keys
    BY DEF QueuedAreKeys
  <2>1. i + 1 \in 1..Length
    BY <1>5
  <2>2. QED  BY <1>6, <2>1 DEF Inv, QueuedAreKeys
<1>9. Contents # <<>> /\ Head(Contents) = buffer[head]
  <2>1. Contents # <<>> /\ Head(Contents) = Contents[1]
    BY <1>5, <1>7
  <2>2. (head + 1 - 1) % N = head
    BY <1>1, SlotWraps
  <2>3. QED  BY <1>5, <1>7, <2>1, <2>2
<1>10. Contents' = Tail(Contents)
  <2>1. /\ Tail(Contents) \in Seq(Keys) /\ Len(Tail(Contents)) = Length'
        /\ \A i \in 1..Length' : Tail(Contents)[i] = Contents[i + 1]
    BY <1>5, <1>7, <1>9, HeadTailProperties
  <2>2. /\ Contents' \in Seq(Keys) /\ Len(Contents') = Length'
        /\ \A i \in 1..Length' : Contents'[i] = buffer'[(head' + i - 1) % N]
    <3>1. Contents' = [i \in 1..Length' |-> buffer'[(head' + i - 1) % N]]
      BY DEF Contents
    <3>2. \A i \in 1..Length' : buffer'[(head' + i - 1) % N] \in Keys
      BY <1>8 DEF QueuedAreKeys
    <3>3. QED  BY <1>5, <3>1, <3>2
  <2>3. \A i \in 1..Length' : Tail(Contents)[i] = Contents'[i]
    <3> SUFFICES ASSUME NEW i \in 1..Length' PROVE Tail(Contents)[i] = Contents'[i]
      OBVIOUS
    <3>1. i + 1 \in 1..Length
      BY <1>5
    <3>2. QED  BY <1>6, <1>7, <2>1, <2>2, <3>1
  <2>4. QED  BY <2>1, <2>2, <2>3, SeqEqual
<1>11. QED  BY <1>3, <1>8, <1>9, <1>10 DEF Inv, Fifo!Pop

\* Indices that meet leave no key.
LEMMA EmptyContents ==
  ASSUME QueueAssumption, Inv, head = tail
  PROVE  Contents = <<>>
<1>1. Length = 0
  BY LengthWraps DEF Inv, TypeOK, Length, QueueAssumption
<1>2. QED  BY <1>1, ContentsIs DEF Inv

LEMMA RefuseStep ==
  ASSUME QueueAssumption, Inv, NotReady
  PROVE  Inv' /\ Fifo!Refuse
<1>1. Inv'
  BY DEF Inv, TypeOK, QueuedAreKeys, Length, NotReady
<1>2. Contents = <<>>
  BY EmptyContents DEF NotReady, IsEfikeyBufEmpty
<1>3. Contents' = Contents
  BY DEF Contents, Length, NotReady
<1>4. QED  BY <1>1, <1>2, <1>3 DEF NotReady, Fifo!Refuse

LEMMA ClearStep ==
  ASSUME QueueAssumption, Inv, InitKeypad
  PROVE  Inv' /\ Fifo!Clear
<1>1. TypeOK'
  BY DEF Inv, TypeOK, InitKeypad, QueueAssumption
<1>2. Length' = 0
  <2>1. (0 + N - 0) % N = 0
    BY LengthWraps DEF QueueAssumption
  <2>2. QED  BY <2>1 DEF Length, InitKeypad
<1>3. Inv'
  BY <1>1, <1>2 DEF Inv, QueuedAreKeys
<1>4. Contents' = <<>>
  BY <1>2 DEF Contents
<1>5. QED  BY <1>3, <1>4 DEF InitKeypad, Fifo!Clear

LEMMA NextStep ==
  ASSUME QueueAssumption, Inv, [Next]_vars
  PROVE  Inv' /\ [Fifo!Next]_<<Contents, out, last>>
<1>1. ASSUME NEW k \in Keys, PushEfikeyBufTail(k)
      PROVE  Inv' /\ [Fifo!Next]_<<Contents, out, last>>
  BY <1>1, PushStep DEF Fifo!Next
<1>2. CASE PopEfikeyBufHead
  BY <1>2, PopStep DEF Fifo!Next
<1>3. CASE NotReady
  BY <1>3, RefuseStep DEF Fifo!Next
<1>4. CASE InitKeypad
  BY <1>4, ClearStep DEF Fifo!Next
<1>5. CASE UNCHANGED vars
  BY <1>5 DEF Inv, TypeOK, QueuedAreKeys, Contents, Length, vars
<1>6. QED  BY <1>1, <1>2, <1>3, <1>4, <1>5 DEF Next

\* Head and Tail never leave the ring and no key comes from a slot that was
\* not written, for every ring size.
THEOREM QueueCorrect == Spec => [](TypeOK /\ QueuedAreKeys)
<1>1. Init => Inv
  BY InvInit, QueueAssumption
<1>2. Inv /\ [Next]_vars => Inv'
  BY NextStep, QueueAssumption
<1>3. Inv => TypeOK /\ QueuedAreKeys
  BY DEF Inv
<1>4. QED  BY <1>1, <1>2, <1>3, PTL DEF Spec

\* The ring of EFI_KEY_QUEUE implements the FIFO that keeps the newest
\* N - 1 keys: PushEfikeyBufTail and PopEfikeyBufHead lose a key only when
\* N - 1 newer ones wait, and hand none out twice or out of order.
THEOREM RingIsFifo == Spec => IsFifo
<1>1. Init => Inv /\ Fifo!Init
  <2> SUFFICES ASSUME Init PROVE Inv /\ Fifo!Init
    OBVIOUS
  <2>1. Inv
    BY InvInit, QueueAssumption
  <2>2. Contents = <<>>
    BY <2>1, EmptyContents, QueueAssumption DEF Init
  <2>3. QED  BY <2>1, <2>2 DEF Init, Fifo!Init
<1>2. Inv /\ [Next]_vars => Inv' /\ [Fifo!Next]_<<Contents, out, last>>
  BY NextStep, QueueAssumption
<1>3. QED  BY <1>1, <1>2, PTL DEF Spec, IsFifo, Fifo!Spec

-----------------------------------------------------------------------------
Building == EventNames \union {"SetTimer", "Reset", "install"}

BindingInv ==
  /\ DriverTypeOK
  /\ OpenWhileInstalled
  /\ TimerOnlyOnLive
  /\ pc \in Building \union {"allocate"} => opened /\ ~installed
  /\ pc = "uninstall" => installed /\ opened /\ count \notin armed
  /\ pc \in Building \/ installed => count \in Consoles /\ count \notin freed
  /\ pc = "allocate" => count < MaxStarts
  /\ pc \in {"SetTimer", "KeyNotifyProcessEvent", "Reset", "install"}
       => <<"TimerEvent", count>> \in events
  /\ freed \subseteq 1..count

LEMMA BindingInit == DriverAssumption /\ DriverInit => BindingInv
<1> SUFFICES ASSUME DriverAssumption, DriverInit PROVE BindingInv
  OBVIOUS
<1>1. DriverTypeOK
  <2>1. pc = "idle" /\ count \in 0..MaxStarts
    BY DEF DriverAssumption, DriverInit
  <2>2. QED  BY <2>1 DEF DriverInit, DriverTypeOK
<1>2. OpenWhileInstalled /\ TimerOnlyOnLive
  BY DEF DriverInit, OpenWhileInstalled, TimerOnlyOnLive
<1>3. QED  BY <1>1, <1>2 DEF DriverInit, BindingInv, Building, EventNames

\* A step that only moves on inside Start keeps the invariant.
LEMMA StartSteps ==
  ASSUME DriverAssumption, BindingInv,
         StartOpen \/ Allocate \/ AllocateFails \/ SetTimer \/ Reset \/ Install
  PROVE  BindingInv'
<1> USE DEF BindingInv, OpenWhileInstalled, TimerOnlyOnLive, Building, EventNames,
            Consoles, DriverAssumption, DriverTypeOK
<1>1. CASE StartOpen
  BY <1>1 DEF StartOpen
<1>2. CASE Allocate
  <2>1. /\ count \in Nat /\ count < MaxStarts /\ count' = count + 1
        /\ count' \in 1..MaxStarts /\ count' \notin freed
    BY <1>2 DEF Allocate
  <2>2. DriverTypeOK'
    <3>1. pc' = "WaitForKey" /\ fields' = {} /\ names' \in BOOLEAN
      BY <1>2 DEF Allocate
    <3>2. count' \in 0..MaxStarts
      BY <2>1
    <3>3. QED  BY <1>2, <3>1, <3>2 DEF Allocate
  <2>3. freed' \subseteq 1..count'
    BY <1>2, <2>1 DEF Allocate
  <2>4. QED  BY <1>2, <2>1, <2>2, <2>3 DEF Allocate
<1>3. CASE AllocateFails
  BY <1>3 DEF AllocateFails
<1>4. CASE SetTimer
  <2>1. DriverTypeOK'
    BY <1>4 DEF SetTimer
  <2>2. TimerOnlyOnLive'
    BY <1>4 DEF SetTimer
  <2>3. QED  BY <1>4, <2>1, <2>2 DEF SetTimer
<1>5. CASE Reset
  BY <1>5 DEF Reset
<1>6. CASE Install
  BY <1>6 DEF Install
<1>7. QED  BY <1>1, <1>2, <1>3, <1>4, <1>5, <1>6

LEMMA CreateSteps ==
  ASSUME DriverAssumption, BindingInv, NEW e \in EventNames, CreateEvent(e)
  PROVE  BindingInv'
BY DEF BindingInv, OpenWhileInstalled, TimerOnlyOnLive, Building, EventNames, Consoles,
       DriverAssumption, DriverTypeOK, CreateEvent, AfterCreate

LEMMA CleanUpStep ==
  ASSUME DriverAssumption, BindingInv, CleanUp
  PROVE  BindingInv'
<1> USE DEF BindingInv, Building, EventNames, Consoles, CleanUp
<1>1. /\ count \in 1..MaxStarts /\ count \notin freed /\ opened /\ ~installed
      /\ freed' \subseteq freed \union {count} /\ freed' \subseteq Consoles
      /\ failed' = failed \union {count}
      /\ armed' \subseteq armed /\ events' \subseteq events
  BY DEF Close, DriverTypeOK
<1>2. DriverTypeOK'
  <2>1. \A c \in armed' : <<"TimerEvent", c>> \in events'
    BY DEF DriverTypeOK, Close, Closed
  <2>2. QED  BY <1>1, <2>1 DEF DriverTypeOK
<1>3. OpenWhileInstalled' /\ TimerOnlyOnLive'
  BY <1>1 DEF OpenWhileInstalled, TimerOnlyOnLive
<1>4. freed' \subseteq 1..count'
  BY <1>1 DEF DriverTypeOK
<1>5. QED  BY <1>1, <1>2, <1>3, <1>4

LEMMA StopSteps ==
  ASSUME DriverAssumption, BindingInv, StopTimer \/ UninstallFails \/ Uninstall
  PROVE  BindingInv'
<1> USE DEF BindingInv, OpenWhileInstalled, TimerOnlyOnLive, Building, EventNames,
            Consoles, DriverAssumption, DriverTypeOK
<1>1. CASE StopTimer
  BY <1>1 DEF StopTimer, Close
<1>2. CASE UninstallFails
  BY <1>2 DEF UninstallFails
<1>3. CASE Uninstall
  <2>1. /\ count \in 1..MaxStarts /\ count \notin armed /\ ~installed' /\ ~opened'
        /\ freed' = freed \union {count} /\ armed' \subseteq armed /\ events' \subseteq events
        /\ pc' = "idle" /\ count' = count /\ usedFreed' = usedFreed /\ failed' = failed
    BY <1>3 DEF Uninstall, Close
  <2>2. DriverTypeOK'
    <3>1. \A c \in armed' : <<"TimerEvent", c>> \in events'
      BY <1>3, <2>1 DEF Uninstall, Close
    <3>2. QED  BY <1>3, <2>1, <3>1 DEF Uninstall
  <2>3. freed' \subseteq 1..count'
    BY <2>1
  <2>4. QED  BY <1>3, <2>1, <2>2, <2>3 DEF Uninstall
<1>4. QED  BY <1>1, <1>2, <1>3

LEMMA TimerStep ==
  ASSUME DriverAssumption, BindingInv, NEW c \in Consoles, TimerFires(c)
  PROVE  BindingInv'
BY DEF BindingInv, OpenWhileInstalled, TimerOnlyOnLive, Building, EventNames, Consoles,
       DriverAssumption, DriverTypeOK, TimerFires

LEMMA BindingStep == DriverAssumption /\ BindingInv /\ [DriverNext]_driverVars => BindingInv'
<1> SUFFICES ASSUME DriverAssumption, BindingInv, [DriverNext]_driverVars PROVE BindingInv'
  OBVIOUS
<1>1. CASE UNCHANGED driverVars
  BY <1>1 DEF BindingInv, OpenWhileInstalled, TimerOnlyOnLive, DriverTypeOK, driverVars
<1>2. CASE DriverNext
  BY <1>2, StartSteps, CreateSteps, CleanUpStep, StopSteps, TimerStep DEF DriverNext
<1>3. QED  BY <1>1, <1>2

\* Whatever step of Start or Stop fails, between calls the keypad protocol is
\* held open exactly while the text input protocols are installed.
THEOREM BindingBalanced == DriverSpec => []OpenWhileInstalled
<1>1. DriverInit => BindingInv
  BY BindingInit, DriverAssumption
<1>2. BindingInv /\ [DriverNext]_driverVars => BindingInv'
  BY BindingStep, DriverAssumption
<1>3. BindingInv => OpenWhileInstalled
  BY DEF BindingInv
<1>4. QED  BY <1>1, <1>2, <1>3, PTL DEF DriverSpec

\* The timer handler runs on a freed instance only after a Start that failed.
THEOREM StopSilencesTimer == DriverSpec => [](DriverTypeOK /\ TimerOnlyOnLive)
<1>1. DriverInit => BindingInv
  BY BindingInit, DriverAssumption
<1>2. BindingInv /\ [DriverNext]_driverVars => BindingInv'
  BY BindingStep, DriverAssumption
<1>3. BindingInv => DriverTypeOK /\ TimerOnlyOnLive
  BY DEF BindingInv
<1>4. QED  BY <1>1, <1>2, <1>3, PTL DEF DriverSpec

-----------------------------------------------------------------------------
\* A new instance begins with an empty queue, whatever the last one held.
LEMMA AllocateStep ==
  ASSUME QueueAssumption, Inv, AllocateConsole
  PROVE  Inv' /\ Fifo!Clear
<1>1. /\ N \in Nat \ {0, 1} /\ buffer' = [i \in 0..N-1 |-> NoKey] /\ head' = 0 /\ tail' = 0
      /\ last' = "init" /\ out' = out /\ out \in Keys \union {NoKey}
  BY DEF AllocateConsole, QueueAssumption, Inv, TypeOK
<1>2. TypeOK'
  BY <1>1 DEF TypeOK
<1>3. Length' = 0
  <2>1. (0 + N - 0) % N = 0
    BY <1>1, LengthWraps
  <2>2. QED  BY <1>1, <2>1 DEF Length
<1>4. Inv' /\ Contents' = <<>>
  BY <1>2, <1>3 DEF Inv, QueuedAreKeys, Contents
<1>5. QED  BY <1>1, <1>4 DEF Fifo!Clear

LEMMA ConsoleStep ==
  ASSUME QueueAssumption, Inv, [ConsoleNext]_<<vars, driverVars>>
  PROVE  Inv' /\ [Fifo!Next]_<<Contents, out, last>>
<1>1. CASE AllocateConsole
  BY <1>1, AllocateStep DEF Fifo!Next
<1>2. CASE [Next]_vars
  BY <1>2, NextStep
<1>3. ConsoleNext => AllocateConsole \/ [Next]_vars
  BY DEF ConsoleNext, ResetConsole, TimerPolls, TimerPollsNothing, Client, Binding, Next
<1>4. UNCHANGED <<vars, driverVars>> => [Next]_vars
  OBVIOUS
<1>5. QED  BY <1>1, <1>2, <1>3, <1>4

\* The queue that clients read is the FIFO, over every Start and Stop, with
\* the timer filling it while either runs.
THEOREM ConsoleIsFifo == ConsoleSpec => IsFifo
<1>1. ConsoleInit => Inv /\ Fifo!Init
  <2> SUFFICES ASSUME ConsoleInit PROVE Inv /\ Fifo!Init
    OBVIOUS
  <2>1. Init /\ Inv
    BY InvInit, QueueAssumption DEF ConsoleInit
  <2>2. Contents = <<>>
    BY <2>1, EmptyContents, QueueAssumption DEF Init
  <2>3. QED  BY <2>1, <2>2 DEF Init, Fifo!Init
<1>2. Inv /\ [ConsoleNext]_<<vars, driverVars>> => Inv' /\ [Fifo!Next]_<<Contents, out, last>>
  BY ConsoleStep, QueueAssumption
<1>3. QED  BY <1>1, <1>2, PTL DEF ConsoleSpec, IsFifo, Fifo!Spec

\* With a queue the binding does what it does without: what is proved of it is
\* true of the instance.
THEOREM ConsoleIsSafe == ConsoleSpec => [](OpenWhileInstalled /\ TimerOnlyOnLive)
<1>1. ConsoleInit => DriverInit /\ BindingInv
  BY BindingInit, DriverAssumption DEF ConsoleInit
<1>2. ASSUME BindingInv, [ConsoleNext]_<<vars, driverVars>> PROVE [DriverNext]_driverVars
  <2>1. CASE TimerPolls
    <3>1. count \in Consoles /\ TimerFires(count)
      BY <1>2, <2>1 DEF TimerPolls, TimerFires, BindingInv, DriverTypeOK
    <3>2. QED  BY <3>1 DEF DriverNext
  <2>2. CASE Client \/ UNCHANGED <<vars, driverVars>>
    BY <2>2 DEF Client
  <2>3. CASE AllocateConsole \/ ResetConsole \/ TimerPollsNothing \/ Binding
    BY <2>3 DEF AllocateConsole, ResetConsole, TimerPollsNothing, Binding, DriverNext
  <2>4. QED  BY <1>2, <2>1, <2>2, <2>3 DEF ConsoleNext
<1>3. BindingInv /\ [DriverNext]_driverVars => BindingInv'
  BY BindingStep, DriverAssumption
<1>4. ConsoleSpec => DriverSpec
  BY <1>1, <1>2, <1>3, PTL DEF ConsoleSpec, DriverSpec
<1>5. QED  BY <1>4, BindingBalanced, StopSilencesTimer, PTL

=============================================================================
