---------------------------- MODULE DebugLogProofs ----------------------------
(***************************************************************************)
(* The ring of the debug log and the text cursor stay inside their memory  *)
(* for every size of region and screen, whatever the header held at power  *)
(* on and wherever a reset comes.  Bounded adds to the claim what the      *)
(* steps before a store establish: cursor is 0 inside a fresh start and    *)
(* inside a wrap, and below Size once there is room.                       *)
(***************************************************************************)
EXTENDS DebugLog, SequenceTheorems, TLAPS

Bounded ==
  /\ cursor \in Nat /\ x \in Nat /\ y \in Nat
  /\ pc \in {"wrapped", "wrap"} => cursor = 0
  /\ pc \in {"store", "advance"} => cursor < Size
  /\ pc = "late" => cursor >= 1 /\ cursor <= Size
  /\ x < MaxX /\ y < MaxY

\* What a step does to the screen, drawing or newline.
LEMMA ScreenStep ==
  ASSUME DebugLogAssumption, x \in Nat, y \in Nat, x < MaxX, y < MaxY, WriteFrameBuffer
  PROVE  x' \in Nat /\ y' \in Nat /\ x' < MaxX /\ y' < MaxY
<1>1. AdvanceNewLine => x' \in Nat /\ y' \in Nat /\ x' < MaxX /\ y' < MaxY
  BY DEF AdvanceNewLine, DebugLogAssumption
<1>2. x + 1 < MaxX => (x' = x + 1 /\ y' = y => x' \in Nat /\ y' \in Nat /\ x' < MaxX /\ y' < MaxY)
  BY DEF DebugLogAssumption
<1>3. x' = 0 /\ y' = y => x' \in Nat /\ y' \in Nat /\ x' < MaxX /\ y' < MaxY
  BY DEF DebugLogAssumption
<1>4. \/ AdvanceNewLine
      \/ x' = 0 /\ y' = y
      \/ x + 1 < MaxX /\ x' = x + 1 /\ y' = y
      \/ UNCHANGED screen
  <2>1. CASE char = LF
    BY <2>1 DEF WriteFrameBuffer
  <2>2. CASE char # LF /\ char = CR
    BY <2>2 DEF WriteFrameBuffer
  <2>3. CASE char # LF /\ char # CR
    BY <2>3 DEF WriteFrameBuffer, DebugLogAssumption
  <2>4. QED  BY <2>1, <2>2, <2>3
<1>5. QED  BY <1>1, <1>2, <1>3, <1>4 DEF screen

LEMMA BoundedStep ==
  ASSUME DebugLogAssumption, Bounded, [Next]_vars
  PROVE  Bounded'
<1> USE DEF Bounded, ring, screen, past
<1>1. CASE SerialPortWrite
  BY <1>1 DEF SerialPortWrite
<1>2. CASE CopyMagic
  BY <1>2 DEF CopyMagic
<1>3. CASE ClearCursor
  BY <1>3 DEF ClearCursor
<1>4. CASE ClearWrapped
  BY <1>4 DEF ClearWrapped
<1>5. CASE KeepLog
  BY <1>5 DEF KeepLog
<1>6. CASE Wrap
  BY <1>6 DEF Wrap
<1>7. CASE SetWrapped
  BY <1>7 DEF SetWrapped, DebugLogAssumption
<1>8. CASE Room
  BY <1>8 DEF Room, Full, DebugLogAssumption
<1>9. CASE StoreText
  BY <1>9 DEF StoreText, AfterLog
<1>10. CASE Advance
  BY <1>10 DEF Advance, AfterLog, DebugLogAssumption
<1>11. CASE WriteFrameBuffer
  BY <1>11, ScreenStep DEF WriteFrameBuffer
<1>12. CASE Reset
  BY <1>12 DEF Reset, DebugLogAssumption
<1>13. CASE UNCHANGED vars
  BY <1>13 DEF vars
<1>14. QED
  BY <1>1, <1>2, <1>3, <1>4, <1>5, <1>6, <1>7, <1>8, <1>9, <1>10, <1>11, <1>12, <1>13 DEF Next

\* WriteLogBuffer never stores outside the text of the log region: for every
\* size, every header found at power on and a reset between any two stores.
THEOREM LogStaysInRegion == Spec => []StoresInRing
<1>1. Init => Bounded
  BY DebugLogAssumption DEF Init, Bounded, DebugLogAssumption
<1>2. Bounded /\ [Next]_vars => Bounded'
  BY BoundedStep, DebugLogAssumption
<1>3. Bounded => StoresInRing
  BY DebugLogAssumption DEF Bounded, StoresInRing, Slots, DebugLogAssumption
<1>4. QED  BY <1>1, <1>2, <1>3, PTL DEF Spec

\* WriteFrameBuffer draws inside the screen for every screen and font size.
THEOREM TextStaysOnScreen == Spec => []CursorOnScreen
<1>1. Init => Bounded
  BY DebugLogAssumption DEF Init, Bounded, DebugLogAssumption
<1>2. Bounded /\ [Next]_vars => Bounded'
  BY BoundedStep, DebugLogAssumption
<1>3. Bounded => CursorOnScreen
  BY DebugLogAssumption DEF Bounded, CursorOnScreen, DebugLogAssumption
<1>4. QED  BY <1>1, <1>2, <1>3, PTL DEF Spec

-----------------------------------------------------------------------------
(***************************************************************************)
(* The log reads back as the last bytes written.  Counted from the newest, *)
(* byte k of the log is in the slot SlotOf(c, k) when the cursor is at c,  *)
(* and CountOf many are there.  Agrees says that the history agrees with   *)
(* the text byte for byte, where Old agrees with everything.  Between the  *)
(* two stores of Text[Header->Cursor++] = Char the oldest byte is already  *)
(* overwritten ("advance": AgreesButOldest), or the cursor counts a slot   *)
(* not written yet ("late": one back).                                     *)
(***************************************************************************)
Bytes         == Chars \union {Old}
CountOf(c, w) == IF w \/ c >= Size THEN Size ELSE c
SlotOf(c, k)  == IF k < c THEN c - 1 - k ELSE Size + c - 1 - k

Agrees(s, t, c, w) == \A k \in 0..CountOf(c, w) - 1 : s[Len(s) - k] \in {Old, t[SlotOf(c, k)]}
AgreesButOldest(s, t, c, w) ==
  \A k \in 0..CountOf(c, w) - 1 : k # Size - 1 => s[Len(s) - k] \in {Old, t[SlotOf(c, k)]}
Enough(s, c, w, l) == Len(s) >= CountOf(c, w) /\ (Len(s) > CountOf(c, w) => l)
Reads(s, t, c, w, l) == Enough(s, c, w, l) /\ Agrees(s, t, c, w)

\* Two texts that differ at the cursor only.
SameBut(t, u, c) == \A i \in Slots : i # c => u[i] = t[i]

\* What a reader makes of the cursor.
InText(c) == IF c > Size THEN Size ELSE c

TextTyped == text \in [Slots -> Bytes] /\ wrapped \in BOOLEAN

TailTyped ==
  /\ said \in Seq(Bytes) /\ Len(said) <= Size
  /\ char \in Bytes /\ magic \in BOOLEAN /\ TextTyped

TailInv ==
  /\ Bounded
  /\ TailTyped
  /\ pc \in {"idle", "magic", "cursor", "wrapped", "room", "wrap", "store", "advance", "late", "draw"}
  /\ pc \in {"cursor", "wrapped", "room", "wrap", "store", "advance", "late"} => magic
  /\ pc \in {"cursor", "wrapped"} => said = <<>> /\ ~lost
  /\ pc \in {"idle", "magic", "draw", "room", "store"} /\ magic =>
       Reads(said, text, InText(cursor), wrapped, lost)
  /\ pc = "wrap" => Reads(said, text, 0, TRUE, lost)
  /\ pc = "advance" => /\ text[cursor] = char
                       /\ Enough(said, cursor, wrapped, lost)
                       /\ AgreesButOldest(said, text, cursor, wrapped)
  /\ pc = "late" => Reads(said, text, cursor - 1, wrapped, lost)

\* Byte k of the log before a store is byte k + 1 after it, in the same slot.
LEMMA SlotMoves ==
  ASSUME DebugLogAssumption, NEW c \in Slots, NEW k \in 1..Size - 1
  PROVE  /\ SlotOf(c + 1, k) = SlotOf(c, k - 1)
         /\ SlotOf(c + 1, k) # c
         /\ SlotOf(c + 1, 0) = c
         /\ SlotOf(c, k) \in Slots
  BY DEF DebugLogAssumption, Slots, SlotOf

LEMMA SlotInText ==
  ASSUME DebugLogAssumption, NEW c \in 0..Size, NEW k \in 0..Size - 1
  PROVE  SlotOf(c, k) \in Slots
  BY DEF DebugLogAssumption, Slots, SlotOf

\* A byte more: the history loses its oldest when it has more than fit.
LEMMA NewestIs ==
  ASSUME DebugLogAssumption, NEW s \in Seq(Bytes), Len(s) <= Size, NEW b \in Bytes
  PROVE  LET n == Newest(Append(s, b))
             m == IF Len(s) < Size THEN Len(s) + 1 ELSE Size
         IN  /\ n \in Seq(Bytes) /\ Len(n) = m
             /\ n[m] = b
             /\ \A k \in 1..m - 1 : n[m - k] = s[Len(s) - (k - 1)]
<1> DEFINE a == Append(s, b)
<1>1. a \in Seq(Bytes) /\ Len(a) = Len(s) + 1 /\ a[Len(s) + 1] = b
      /\ \A i \in 1..Len(s) : a[i] = s[i]
  OBVIOUS
<1>2. Len(s) \in Nat
  OBVIOUS
<1>3. Size \in Nat /\ Size >= 1
  BY DEF DebugLogAssumption
<1>4. CASE Len(s) < Size
  <2>1. Newest(a) = a
    BY <1>1, <1>2, <1>3, <1>4 DEF Newest
  <2>2. \A k \in 1..Len(s) : a[Len(s) + 1 - k] = s[Len(s) - (k - 1)]
    <3> SUFFICES ASSUME NEW k \in 1..Len(s) PROVE a[Len(s) + 1 - k] = s[Len(s) - (k - 1)]
      OBVIOUS
    <3>1. Len(s) + 1 - k \in 1..Len(s) /\ Len(s) - (k - 1) = Len(s) + 1 - k
      BY <1>2
    <3>2. QED  BY <3>1, <1>1
  <2>3. QED
    <3> HIDE DEF a
    <3>1. (Len(s) + 1) - 1 = Len(s)
      BY <1>2
    <3>2. QED  BY <1>1, <1>4, <2>1, <2>2, <3>1 DEF a
<1>5. CASE Len(s) = Size
  <2>1. Newest(a) = Tail(a)
    BY <1>1, <1>2, <1>3, <1>5 DEF Newest
  <2>2. Tail(a) \in Seq(Bytes) /\ Len(Tail(a)) = Len(s) /\ \A i \in 1..Len(s) : Tail(a)[i] = a[i + 1]
    <3>1. a # <<>>
      BY <1>1, <1>2
    <3>2. /\ Tail(a) \in Seq(Bytes) /\ Len(Tail(a)) = Len(a) - 1
          /\ \A i \in 1..Len(Tail(a)) : Tail(a)[i] = a[i + 1]
      <4> HIDE DEF a
      <4>1. QED  BY <1>1, <3>1, HeadTailProperties
    <3>3. Len(a) - 1 = Len(s)
      BY <1>1, <1>2
    <3>4. QED  BY <3>2, <3>3
  <2>3. Tail(a)[Len(s)] = b
    BY <2>2, <1>1, <1>2, <1>3, <1>5
  <2>4. \A k \in 1..Len(s) - 1 : Tail(a)[Len(s) - k] = s[Len(s) - (k - 1)]
    <3> SUFFICES ASSUME NEW k \in 1..Len(s) - 1 PROVE Tail(a)[Len(s) - k] = s[Len(s) - (k - 1)]
      OBVIOUS
    <3>1. Len(s) - k \in 1..Len(s) /\ (Len(s) - k) + 1 = Len(s) - (k - 1) /\ Len(s) - (k - 1) \in 1..Len(s)
      BY <1>2
    <3>2. Tail(a)[Len(s) - k] = a[(Len(s) - k) + 1]
      BY <3>1, <2>2
    <3>3. QED  BY <3>1, <3>2, <1>1
  <2>5. ~(Len(s) < Size)
    BY <1>3, <1>5
  <2>6. QED  BY <1>5, <2>1, <2>2, <2>3, <2>4, <2>5
<1>6. QED  BY <1>2, <1>3, <1>4, <1>5

LEMMA CountIs ==
  ASSUME DebugLogAssumption, NEW c \in Nat, NEW w \in BOOLEAN
  PROVE  /\ CountOf(c, w) \in Nat /\ CountOf(c, w) <= Size
         /\ c < Size => CountOf(c, w) <= CountOf(c + 1, w) /\ CountOf(c + 1, w) <= CountOf(c, w) + 1
         /\ c < Size => CountOf(c + 1, w) >= 1
         /\ CountOf(c, w) = CountOf(InText(c), w)
         /\ InText(c) \in 0..Size
  BY DEF CountOf, InText, DebugLogAssumption

\* Storing b at the cursor, in either order of the two stores, keeps the log readable:
\* u is the text once the byte is in it, and b is Old when a reset came first.
LEMMA ByteMore ==
  ASSUME DebugLogAssumption, NEW s \in Seq(Bytes), Len(s) <= Size, NEW b \in Bytes,
         NEW t, NEW u, NEW c \in Slots, NEW w \in BOOLEAN, NEW l,
         Enough(s, c, w, l), AgreesButOldest(s, t, c, w),
         SameBut(t, u, c), b \in {Old, u[c]}
  PROVE  LET n == Newest(Append(s, b))
         IN  n \in Seq(Bytes) /\ Len(n) <= Size /\ Reads(n, u, c + 1, w, l)
<1> DEFINE n == Newest(Append(s, b))
           m == IF Len(s) < Size THEN Len(s) + 1 ELSE Size
<1>1. /\ n \in Seq(Bytes) /\ Len(n) = m /\ n[m] = b
      /\ \A k \in 1..m - 1 : n[m - k] = s[Len(s) - (k - 1)]
  BY NewestIs
<1>2. Len(s) \in Nat /\ Size \in Nat /\ Size >= 1 /\ c \in Nat /\ c < Size
  BY DEF DebugLogAssumption, Slots
<1>3. /\ CountOf(c, w) \in Nat /\ CountOf(c + 1, w) \in Nat /\ CountOf(c + 1, w) <= Size
      /\ CountOf(c, w) <= CountOf(c + 1, w) /\ CountOf(c + 1, w) <= CountOf(c, w) + 1
      /\ CountOf(c + 1, w) >= 1
  BY <1>2, CountIs
<1>4. m \in Nat /\ m <= Size /\ CountOf(c + 1, w) <= m
  BY <1>2, <1>3 DEF Enough
<1>5. m > CountOf(c + 1, w) => Len(s) > CountOf(c, w)
  <2>1. CASE w
    BY <2>1, <1>2, <1>4 DEF CountOf
  <2>2. CASE ~w
    BY <2>2, <1>2, <1>3 DEF CountOf, Enough
  <2>3. QED  BY <2>1, <2>2
<1>6. ASSUME NEW k \in 0..CountOf(c + 1, w) - 1
      PROVE  n[Len(n) - k] \in {Old, u[SlotOf(c + 1, k)]}
  <2>1. CASE k = 0
    <3>1. SlotOf(c + 1, 0) = c
      BY <1>2 DEF SlotOf
    <3>2. m - 0 = m
      BY <1>4
    <3> HIDE DEF n, m
    <3>3. QED  BY <2>1, <3>1, <3>2, <1>1
  <2>2. CASE k # 0
    <3>1. k \in 1..Size - 1 /\ k \in 1..m - 1 /\ k - 1 \in 0..CountOf(c, w) - 1 /\ k - 1 # Size - 1
      BY <2>2, <1>2, <1>3, <1>4
    <3>2. SlotOf(c + 1, k) = SlotOf(c, k - 1) /\ SlotOf(c + 1, k) # c
      BY <3>1, SlotMoves
    <3>3. SlotOf(c + 1, k) \in Slots
      <4>1. c + 1 \in 0..Size /\ k \in 0..Size - 1
        BY <3>1, <1>2
      <4>2. QED  BY <4>1, SlotInText
    <3>4. s[Len(s) - (k - 1)] \in {Old, t[SlotOf(c, k - 1)]}
      BY <3>1 DEF AgreesButOldest
    <3> HIDE DEF n, m
    <3>5. QED  BY <1>1, <3>1, <3>2, <3>3, <3>4 DEF SameBut
  <2>3. QED  BY <2>1, <2>2
<1>7. QED
  <2> HIDE DEF n, m
  <2>1. Len(n) <= Size /\ Len(n) >= CountOf(c + 1, w) /\ (Len(n) > CountOf(c + 1, w) => l)
    BY <1>1, <1>4, <1>5 DEF Enough
  <2>2. Reads(n, u, c + 1, w, l)
    BY <2>1, <1>6 DEF Reads, Enough, Agrees
  <2>3. QED  BY <1>1, <2>1, <2>2 DEF n

\* A part of the ring as a sequence.
LEMMA SlotsAre ==
  ASSUME DebugLogAssumption, TextTyped, NEW a \in 0..Size, NEW b \in 0..Size, a <= b
  PROVE  /\ SlotsAsSeq(a, b) \in Seq(Bytes) /\ Len(SlotsAsSeq(a, b)) = b - a
         /\ \A i \in 1..b - a : SlotsAsSeq(a, b)[i] = text[a + i - 1]
<1>1. Size \in Nat
  BY DEF DebugLogAssumption
<1>2. b - a \in Nat
  BY <1>1
<1>3. \A i \in 1..b - a : text[a + i - 1] \in Bytes
  <2> SUFFICES ASSUME NEW i \in 1..b - a PROVE text[a + i - 1] \in Bytes
    OBVIOUS
  <2>1. a + i - 1 \in Slots
    BY <1>1 DEF Slots
  <2>2. QED  BY <2>1 DEF TextTyped
<1>4. QED  BY <1>2, <1>3 DEF SlotsAsSeq

\* What a reader recovers, from the oldest byte to the newest.
LEMMA RecoveredIs ==
  ASSUME DebugLogAssumption, TextTyped, cursor \in Nat
  PROVE  LET c == InText(cursor)
             n == CountOf(c, wrapped)
         IN  /\ Len(Recovered) = n
             /\ \A i \in 1..n : Recovered[i] = text[SlotOf(c, n - i)]
<1> DEFINE c == InText(cursor)
           n == CountOf(c, wrapped)
<1>1. Size \in Nat /\ Size >= 1 /\ wrapped \in BOOLEAN
  BY DEF DebugLogAssumption, TextTyped
<1>2. CASE cursor > Size
  <2>1. c = Size /\ n = Size /\ Recovered = SlotsAsSeq(0, Size)
    BY <1>2, <1>1 DEF InText, CountOf, Recovered
  <2>2. /\ Len(SlotsAsSeq(0, Size)) = Size
        /\ \A i \in 1..Size : SlotsAsSeq(0, Size)[i] = text[i - 1]
    <3>1. 0 \in 0..Size /\ Size \in 0..Size /\ 0 <= Size /\ Size - 0 = Size
      BY <1>1
    <3>2. /\ Len(SlotsAsSeq(0, Size)) = Size - 0
          /\ \A i \in 1..Size - 0 : SlotsAsSeq(0, Size)[i] = text[0 + i - 1]
      BY <3>1, SlotsAre
    <3>3. QED  BY <3>1, <3>2
  <2>3. \A i \in 1..Size : SlotOf(Size, Size - i) = i - 1
    BY <1>1 DEF SlotOf
  <2>4. QED  BY <2>1, <2>2, <2>3
<1>3. CASE ~(cursor > Size)
  <2>1. c = cursor /\ c \in 0..Size
    BY <1>1, <1>3 DEF InText
  <2> DEFINE p == IF wrapped THEN SlotsAsSeq(c, Size) ELSE <<>>
             q == SlotsAsSeq(0, c)
             z == IF wrapped THEN Size - c ELSE 0
  <2>2. Recovered = p \o q
    BY <1>3, <2>1 DEF Recovered
  <2>3. q \in Seq(Bytes) /\ Len(q) = c /\ \A i \in 1..c : q[i] = text[i - 1]
    <3>1. 0 \in 0..Size /\ 0 <= c /\ c - 0 = c
      BY <1>1, <2>1
    <3>2. /\ SlotsAsSeq(0, c) \in Seq(Bytes) /\ Len(SlotsAsSeq(0, c)) = c - 0
          /\ \A i \in 1..c - 0 : SlotsAsSeq(0, c)[i] = text[0 + i - 1]
      <4> HIDE DEF c
      <4>1. QED  BY <3>1, <2>1, SlotsAre
    <3>3. QED  BY <3>1, <3>2
  <2>4. z \in Nat /\ p \in Seq(Bytes) /\ Len(p) = z /\ \A i \in 1..z : p[i] = text[c + i - 1]
    <3>1. CASE wrapped
      <4>1. Size \in 0..Size /\ c <= Size
        BY <1>1, <2>1
      <4>2. /\ SlotsAsSeq(c, Size) \in Seq(Bytes) /\ Len(SlotsAsSeq(c, Size)) = Size - c
            /\ \A i \in 1..Size - c : SlotsAsSeq(c, Size)[i] = text[c + i - 1]
        <5> HIDE DEF c
        <5>1. QED  BY <4>1, <2>1, SlotsAre
      <4>3. Size - c \in Nat
        BY <1>1, <2>1
      <4>4. QED  BY <3>1, <4>2, <4>3
    <3>2. CASE ~wrapped
      BY <3>2
    <3>3. QED  BY <3>1, <3>2
  <2>5. n = z + c
    <3>1. CASE wrapped
      BY <3>1, <1>1, <2>1 DEF CountOf
    <3>2. CASE ~wrapped
      BY <3>2, <1>1, <2>1 DEF CountOf
    <3>3. QED  BY <3>1, <3>2
  <2>6. /\ Len(p \o q) = z + c
        /\ \A i \in 1..z + c : (p \o q)[i] = IF i <= z THEN p[i] ELSE q[i - z]
    <3> HIDE DEF p, q, z, c
    <3>1. p \in Seq(Bytes) /\ q \in Seq(Bytes) /\ Len(p) = z /\ Len(q) = c
      BY <2>3, <2>4
    <3>2. /\ Len(p \o q) = Len(p) + Len(q)
          /\ \A i \in 1..Len(p) + Len(q) : (p \o q)[i] = IF i <= Len(p) THEN p[i] ELSE q[i - Len(p)]
      BY <3>1, ConcatProperties
    <3>3. QED  BY <3>1, <3>2
  <2>7. ASSUME NEW i \in 1..z + c PROVE (p \o q)[i] = text[SlotOf(c, (z + c) - i)]
    <3>1. CASE i <= z
      <4>1. wrapped /\ z = Size - c
        BY <3>1, <2>4
      <4>2. SlotOf(c, (z + c) - i) = c + i - 1
        BY <4>1, <3>1, <1>1, <2>1 DEF SlotOf
      <4>3. i \in 1..z
        BY <3>1, <2>4
      <4> HIDE DEF p, q, z, c
      <4>4. QED  BY <3>1, <4>2, <4>3, <2>4, <2>6
    <3>2. CASE ~(i <= z)
      <4>1. SlotOf(c, (z + c) - i) = (i - z) - 1 /\ i - z \in 1..c
        <5> HIDE DEF z, c
        <5>1. QED  BY <3>2, <2>1, <2>4, <1>1 DEF SlotOf
      <4> HIDE DEF p, q, z, c
      <4>2. QED  BY <3>2, <4>1, <2>3, <2>6
    <3>3. QED  BY <3>1, <3>2
  <2>8. Len(Recovered) = n /\ \A i \in 1..n : Recovered[i] = text[SlotOf(c, n - i)]
    <3> HIDE DEF p, q, z, c, n
    <3>1. QED  BY <2>2, <2>5, <2>6, <2>7
  <2>9. QED  BY <2>8
<1>4. QED  BY <1>2, <1>3

\* With the log empty, or full of bytes nobody knows, a reader finds what is said.
LEMMA NothingSaid ==
  ASSUME DebugLogAssumption, NEW t, NEW l
  PROVE  Reads(<<>>, t, 0, FALSE, l)
  BY DEF Reads, Enough, Agrees, CountOf, DebugLogAssumption

LEMMA UnknownSaid ==
  ASSUME DebugLogAssumption, TextTyped, cursor \in Nat, NEW l
  PROVE  LET s == Unknown(Len(Recovered))
         IN  /\ s \in Seq(Bytes) /\ Len(s) <= Size
             /\ Reads(s, text, InText(cursor), wrapped, l)
<1> DEFINE c == InText(cursor)
           n == CountOf(c, wrapped)
<1>1. Len(Recovered) = n
  BY RecoveredIs
<1>2. n \in Nat /\ n <= Size
  <2>1. c \in Nat /\ wrapped \in BOOLEAN
    BY DEF InText, DebugLogAssumption, TextTyped
  <2>2. QED  BY <2>1, CountIs
<1>3. Unknown(n) \in Seq(Bytes) /\ Len(Unknown(n)) = n /\ \A i \in 1..n : Unknown(n)[i] = Old
  <2> HIDE DEF n
  <2>1. QED  BY <1>2 DEF Unknown, Bytes
<1>4. Agrees(Unknown(n), text, c, wrapped)
  <2> SUFFICES ASSUME NEW k \in 0..n - 1 PROVE Unknown(n)[Len(Unknown(n)) - k] = Old
    BY DEF Agrees
  <2> HIDE DEF n
  <2>1. n - k \in 1..n
    BY <1>2
  <2>2. QED  BY <2>1, <1>3
<1>5. Enough(Unknown(n), c, wrapped, l)
  BY <1>2, <1>3 DEF Enough
<1>6. QED  BY <1>1, <1>2, <1>3, <1>4, <1>5 DEF Reads

\* A full ring read from the front is the wrapped ring with the cursor at its start.
LEMMA FullIsWrapped ==
  ASSUME DebugLogAssumption, NEW s, NEW t, NEW w \in BOOLEAN, NEW l, Reads(s, t, Size, w, l)
  PROVE  Reads(s, t, 0, TRUE, l)
<1>1. Size \in Nat /\ Size >= 1
  BY DEF DebugLogAssumption
<1>2. CountOf(Size, w) = Size /\ CountOf(0, TRUE) = Size
  BY <1>1 DEF CountOf
<1>3. \A k \in 0..Size - 1 : SlotOf(Size, k) = SlotOf(0, k)
  BY <1>1 DEF SlotOf
<1>4. QED  BY <1>2, <1>3 DEF Reads, Enough, Agrees

LEMMA OldestDropped ==
  ASSUME DebugLogAssumption, NEW s \in Seq(Bytes), Len(s) <= Size, NEW t, NEW c \in Slots,
         NEW w \in BOOLEAN, NEW l, Enough(s, c, w, l), AgreesButOldest(s, t, c, w)
  PROVE  LET n == IF Len(s) = Size THEN <<Old>> \o Tail(s) ELSE s
         IN  n \in Seq(Bytes) /\ Len(n) <= Size /\ Reads(n, t, c, w, l)
<1>1. Size \in Nat /\ Size >= 1 /\ Len(s) \in Nat /\ c \in Nat /\ c < Size
  BY DEF DebugLogAssumption, Slots
<1>2. CountOf(c, w) \in Nat /\ CountOf(c, w) <= Size
  BY <1>1, CountIs
<1>3. CASE Len(s) = Size
  <2> DEFINE n == <<Old>> \o Tail(s)
  <2>1. Tail(s) \in Seq(Bytes) /\ Len(Tail(s)) = Size - 1 /\ \A i \in 1..Size - 1 : Tail(s)[i] = s[i + 1]
    <3>1. s # <<>>
      BY <1>1, <1>3
    <3>2. QED  BY <3>1, <1>3, HeadTailProperties
  <2>2. <<Old>> \in Seq(Bytes) /\ Len(<<Old>>) = 1 /\ <<Old>>[1] = Old
    BY DEF Bytes
  <2>3. /\ n \in Seq(Bytes) /\ Len(n) = 1 + (Size - 1)
        /\ \A i \in 1..1 + (Size - 1) : n[i] = IF i <= 1 THEN <<Old>>[i] ELSE Tail(s)[i - 1]
    BY <2>1, <2>2, ConcatProperties
  <2>4. Len(n) = Size /\ n[1] = Old /\ \A i \in 2..Size : n[i] = s[i]
    <3>1. 1 + (Size - 1) = Size /\ 1 \in 1..Size
      BY <1>1
    <3>2. ASSUME NEW i \in 2..Size PROVE n[i] = s[i]
      <4>1. i \in 1..1 + (Size - 1) /\ ~(i <= 1) /\ i - 1 \in 1..Size - 1 /\ (i - 1) + 1 = i
        BY <1>1
      <4> HIDE DEF n
      <4>2. QED  BY <4>1, <2>1, <2>3
    <3> HIDE DEF n
    <3>3. QED  BY <3>1, <3>2, <2>2, <2>3
  <2>5. Agrees(n, t, c, w)
    <3> SUFFICES ASSUME NEW k \in 0..CountOf(c, w) - 1 PROVE n[Len(n) - k] \in {Old, t[SlotOf(c, k)]}
      BY DEF Agrees
    <3>1. k \in Nat /\ k <= Size - 1 /\ (k # Size - 1 => Size - k \in 2..Size) /\ (k = Size - 1 => Size - k = 1)
      BY <1>1, <1>2
    <3> HIDE DEF n
    <3>2. QED  BY <1>3, <2>4, <3>1 DEF AgreesButOldest
  <2>6. QED
    <3> HIDE DEF n
    <3>1. Len(n) = Len(s) /\ Len(n) <= Size
      BY <1>1, <1>3, <2>4
    <3>2. QED  BY <1>3, <2>3, <2>5, <3>1 DEF Reads, Enough, n
<1>4. CASE Len(s) # Size
  <2>1. CountOf(c, w) < Size
    BY <1>1, <1>2, <1>4 DEF Enough
  <2>2. Agrees(s, t, c, w)
    <3> SUFFICES ASSUME NEW k \in 0..CountOf(c, w) - 1 PROVE s[Len(s) - k] \in {Old, t[SlotOf(c, k)]}
      BY DEF Agrees
    <3>1. k # Size - 1
      BY <1>1, <1>2, <2>1
    <3>2. QED  BY <3>1 DEF AgreesButOldest
  <2>3. QED  BY <1>4, <2>2 DEF Reads
<1>5. QED  BY <1>3, <1>4

LEMMA TailInit == Init => TailInv
<1> SUFFICES ASSUME Init PROVE TailInv
  OBVIOUS
<1> USE DebugLogAssumption
<1>1. Bounded /\ cursor \in Nat
  BY DEF Init, Bounded, DebugLogAssumption
<1>2. text \in [Slots -> Bytes] /\ char \in Bytes /\ wrapped \in BOOLEAN /\ magic \in BOOLEAN
  BY DEF Init, Bytes
<1>3. TailTyped /\ Reads(said, text, InText(cursor), wrapped, lost)
  <2>1. /\ said = Unknown(Len(Recovered)) /\ lost = FALSE
    BY DEF Init
  <2> DEFINE c == InText(cursor)
             n == CountOf(c, wrapped)
  <2>2. n \in Nat /\ n <= Size
    <3>1. c \in Nat
      BY <1>1 DEF InText, DebugLogAssumption
    <3>2. QED  BY <3>1, <1>2, CountIs
  <2>3. Len(Recovered) = n
    BY <1>1, <1>2, RecoveredIs DEF TextTyped
  <2>4. TailTyped
    <3> HIDE DEF n
    <3>1. Unknown(n) \in Seq(Bytes) /\ Len(Unknown(n)) = n
      BY <2>2 DEF Unknown, Bytes
    <3>2. QED  BY <1>2, <2>1, <2>2, <2>3, <3>1 DEF TailTyped, TextTyped
  <2>5. QED  BY <1>1, <2>1, <2>4, UnknownSaid DEF TailTyped
<1>4. QED  BY <1>1, <1>3 DEF Init, TailInv

\* The slot a byte is stored to is read by nobody else but the oldest byte.
LEMMA StoreApart ==
  ASSUME DebugLogAssumption, TailTyped, NEW c \in Slots, NEW b \in Bytes, AgreesButOldest(said, text, c, wrapped)
  PROVE  LET u == [text EXCEPT ![c] = b]
         IN  /\ u \in [Slots -> Bytes] /\ u[c] = b
             /\ \A i \in Slots : i # c => u[i] = text[i]
             /\ AgreesButOldest(said, u, c, wrapped)
<1> DEFINE u == [text EXCEPT ![c] = b]
<1>1. u \in [Slots -> Bytes] /\ u[c] = b /\ \A i \in Slots : i # c => u[i] = text[i]
  BY DEF TailTyped, TextTyped
<1>2. Size \in Nat /\ c \in Nat /\ c < Size /\ wrapped \in BOOLEAN
  BY DEF DebugLogAssumption, Slots, TailTyped, TextTyped
<1>3. ASSUME NEW k \in 0..CountOf(c, wrapped) - 1, k # Size - 1
      PROVE  SlotOf(c, k) \in Slots /\ SlotOf(c, k) # c
  <2>1. k \in Nat /\ k < Size - 1
    BY <1>2, <1>3, CountIs
  <2>2. QED  BY <1>2, <2>1 DEF SlotOf, Slots
<1>4. QED
  <2> HIDE DEF u
  <2>1. AgreesButOldest(said, u, c, wrapped)
    BY <1>1, <1>3 DEF AgreesButOldest
  <2>2. QED  BY <1>1, <2>1 DEF u

LEMMA ReadsOfMore ==
  ASSUME NEW s, NEW t, NEW c, NEW w, NEW l, NEW m, l => m, Reads(s, t, c, w, l)
  PROVE  Reads(s, t, c, w, m)
  BY DEF Reads, Enough

LEMMA InTextIs ==
  ASSUME DebugLogAssumption
  PROVE  /\ \A c \in Nat : c <= Size => InText(c) = c
         /\ \A c \in Nat : c >= Size => InText(c) = Size
  BY DEF InText, DebugLogAssumption

\* A reset: each half of a store leaves a log that reads back as what is said.
LEMMA TailReset ==
  ASSUME DebugLogAssumption, TailInv, Reset
  PROVE  TailTyped' /\ (magic => Reads(said', text, InText(cursor), wrapped, lost'))
<1>. USE DEF ring
<1>1. /\ UNCHANGED <<char, magic, cursor, wrapped, text>>
      /\ lost => lost'
      /\ pc = "wrap" /\ ~wrapped => lost'
  BY DEF Reset
<1>2. TailTyped /\ TextTyped /\ cursor \in Nat /\ wrapped \in BOOLEAN /\ Size \in Nat /\ Size >= 1
  BY DEF TailInv, TailTyped, TextTyped, Bounded, DebugLogAssumption
<1>3. said' \in Seq(Bytes) /\ Len(said') <= Size => TailTyped'
  BY <1>1, <1>2 DEF TailTyped, TextTyped
<1>4. CASE pc \in {"cursor", "wrapped"}
  <2>1. said' = Unknown(Len(Recovered))
    BY <1>4 DEF Reset
  <2>2. QED  BY <1>2, <1>3, <2>1, UnknownSaid
<1>5. CASE pc = "late"
  <2>1. said' = Newest(Append(said, Old))
    BY <1>5 DEF Reset
  <2>2. cursor - 1 \in Slots /\ (cursor - 1) + 1 = cursor /\ InText(cursor) = cursor
    BY <1>2, <1>5, InTextIs DEF TailInv, Bounded, Slots
  <2>3. /\ Enough(said, cursor - 1, wrapped, lost') /\ AgreesButOldest(said, text, cursor - 1, wrapped)
    BY <1>1, <1>5 DEF TailInv, Reads, Agrees, AgreesButOldest, Enough
  <2>4. Old \in Bytes /\ said \in Seq(Bytes) /\ Len(said) <= Size
    BY <1>2 DEF Bytes, TailTyped
  <2>5. said' \in Seq(Bytes) /\ Len(said') <= Size /\ Reads(said', text, (cursor - 1) + 1, wrapped, lost')
    BY <1>2, <2>1, <2>2, <2>3, <2>4, ByteMore DEF SameBut
  <2>6. QED  BY <1>3, <2>2, <2>5
<1>6. CASE pc = "advance"
  <2>1. said' = IF Len(said) = Size THEN <<Old>> \o Tail(said) ELSE said
    BY <1>6 DEF Reset
  <2>2. cursor \in Slots /\ InText(cursor) = cursor
    BY <1>2, <1>6, InTextIs DEF TailInv, Bounded, Slots
  <2>3. Enough(said, cursor, wrapped, lost') /\ AgreesButOldest(said, text, cursor, wrapped)
    BY <1>1, <1>6 DEF TailInv, Enough
  <2>4. said \in Seq(Bytes) /\ Len(said) <= Size
    BY <1>2 DEF TailTyped
  <2>5. said' \in Seq(Bytes) /\ Len(said') <= Size /\ Reads(said', text, cursor, wrapped, lost')
    BY <1>2, <2>1, <2>2, <2>3, <2>4, OldestDropped
  <2>6. QED  BY <1>3, <2>2, <2>5
<1>7. CASE pc \notin {"cursor", "wrapped", "late", "advance"} /\ magic
  <2>1. said' = said /\ said \in Seq(Bytes) /\ Len(said) <= Size
    BY <1>7, <1>2 DEF Reset, TailTyped
  <2>2. Reads(said, text, InText(cursor), wrapped, lost')
    <3>1. CASE pc = "wrap"
      <4>0. cursor = 0 /\ Reads(said, text, 0, TRUE, lost)
        BY <3>1 DEF TailInv, Bounded
      <4>1. InText(cursor) = 0 /\ Reads(said, text, 0, TRUE, lost')
        <5>1. InText(cursor) = 0
          BY <1>2, <4>0, InTextIs
        <5>2. Reads(said, text, 0, TRUE, lost')
          BY <1>1, <4>0 DEF Reads, Enough
        <5>3. QED  BY <5>1, <5>2
      <4>2. CASE wrapped
        <5>1. CountOf(0, wrapped) = CountOf(0, TRUE)
          BY <4>2 DEF CountOf
        <5>2. QED  BY <4>1, <5>1 DEF Reads, Enough, Agrees
      <4>3. CASE ~wrapped
        <5>1. lost' /\ CountOf(0, wrapped) = 0 /\ Len(said) >= 0
          BY <1>1, <1>2, <2>1, <3>1, <4>3 DEF CountOf
        <5>2. QED  BY <4>1, <5>1 DEF Reads, Enough, Agrees
      <4>4. QED  BY <4>2, <4>3
    <3>2. CASE pc # "wrap"
      <4>1. Reads(said, text, InText(cursor), wrapped, lost)
        BY <1>7, <3>2 DEF TailInv
      <4>2. QED  BY <1>1, <4>1, ReadsOfMore
    <3>3. QED  BY <3>1, <3>2
  <2>3. QED  BY <1>3, <2>1, <2>2
<1>8. CASE pc \notin {"cursor", "wrapped", "late", "advance"} /\ ~magic
  BY <1>8, <1>2, <1>3 DEF Reset, TailTyped
<1>9. QED  BY <1>4, <1>5, <1>6, <1>7, <1>8

LEMMA TailStep ==
  ASSUME DebugLogAssumption, TailInv, [Next]_vars
  PROVE  TailInv'
<1>. USE DEF ring, screen, past
<1>1. Bounded'
  BY BoundedStep DEF TailInv
<1>2. TailTyped /\ TextTyped /\ cursor \in Nat /\ wrapped \in BOOLEAN /\ Size \in Nat /\ Size >= 1
  BY DEF TailInv, TailTyped, TextTyped, Bounded, DebugLogAssumption
<1>3. said \in Seq(Bytes) /\ Len(said) <= Size /\ char \in Bytes
  BY <1>2 DEF TailTyped
<1>4. InText(0) = 0 /\ (cursor < Size => InText(cursor) = cursor) /\ (cursor >= Size => InText(cursor) = Size)
  BY <1>2, InTextIs
<1>5. AfterLog \in {"draw", "idle"}
  BY DEF AfterLog
<1>6. CASE SerialPortWrite
  <2>1. pc = "idle" /\ pc' \in {"magic", "draw", "idle"} /\ char' \in Bytes
        /\ UNCHANGED <<magic, cursor, wrapped, text, said, lost>>
    BY <1>6 DEF SerialPortWrite, Bytes
  <2>2. TailTyped'
    BY <1>2, <2>1 DEF TailTyped, TextTyped
  <2>3. magic => Reads(said, text, InText(cursor), wrapped, lost)
    BY <2>1 DEF TailInv
  <2>4. QED  BY <1>1, <2>1, <2>2, <2>3 DEF TailInv
<1>7. CASE CopyMagic
  <2>1. pc' = "cursor" /\ said' = <<>> /\ ~lost' /\ magic' = TRUE
        /\ UNCHANGED <<char, wrapped, text>>
    BY <1>7 DEF CopyMagic, Fresh
  <2>2. TailTyped'
    BY <1>2, <2>1 DEF TailTyped, TextTyped
  <2>3. QED  BY <1>1, <2>1, <2>2 DEF TailInv
<1>8. CASE ClearCursor
  <2>1. pc = "cursor" /\ pc' = "wrapped" /\ UNCHANGED <<char, magic, wrapped, text, said, lost>>
    BY <1>8 DEF ClearCursor
  <2>2. TailTyped'
    BY <1>2, <2>1 DEF TailTyped, TextTyped
  <2>3. QED  BY <1>1, <2>1, <2>2 DEF TailInv
<1>9. CASE ClearWrapped
  <2>1. pc = "wrapped" /\ pc' = "room" /\ wrapped' = FALSE /\ UNCHANGED <<char, magic, cursor, text, said, lost>>
    BY <1>9 DEF ClearWrapped
  <2>2. TailTyped'
    BY <1>2, <2>1 DEF TailTyped, TextTyped
  <2>3. said = <<>> /\ InText(cursor) = 0 /\ magic
    BY <1>4, <2>1 DEF TailInv, Bounded
  <2>4. Reads(said, text, InText(cursor), FALSE, lost)
    BY <2>3, NothingSaid
  <2>5. QED  BY <1>1, <2>1, <2>2, <2>3, <2>4 DEF TailInv
<1>10. CASE KeepLog
  <2>1. pc = "magic" /\ magic /\ pc' = "room" /\ UNCHANGED <<char, magic, cursor, wrapped, text, said, lost>>
    BY <1>10 DEF KeepLog, Fresh
  <2>2. TailTyped'
    BY <1>2, <2>1 DEF TailTyped, TextTyped
  <2>3. Reads(said, text, InText(cursor), wrapped, lost)
    BY <2>1 DEF TailInv
  <2>4. QED  BY <1>1, <2>1, <2>2, <2>3 DEF TailInv
<1>11. CASE Wrap
  <2>1. pc = "room" /\ cursor >= Size /\ pc' = "wrap" /\ UNCHANGED <<char, magic, wrapped, text, said, lost>>
    BY <1>11 DEF Wrap, Full
  <2>2. TailTyped'
    BY <1>2, <2>1 DEF TailTyped, TextTyped
  <2>3. magic /\ Reads(said, text, Size, wrapped, lost)
    BY <1>4, <2>1 DEF TailInv
  <2>4. Reads(said, text, 0, TRUE, lost)
    BY <1>2, <2>3, FullIsWrapped
  <2>5. QED  BY <1>1, <2>1, <2>2, <2>3, <2>4 DEF TailInv
<1>12. CASE SetWrapped
  <2>1. /\ pc = "wrap" /\ pc' = "store" /\ wrapped' = TRUE /\ ~lost'
        /\ UNCHANGED <<char, magic, cursor, text, said>>
    BY <1>12 DEF SetWrapped
  <2>2. TailTyped'
    BY <1>2, <2>1 DEF TailTyped, TextTyped
  <2>3. magic /\ Reads(said, text, 0, TRUE, lost) /\ cursor = 0
    BY <2>1 DEF TailInv, Bounded
  <2>4. Reads(said, text, 0, TRUE, lost')
    <3>1. ~(Len(said) > Size)
      BY <1>2, <1>3
    <3>2. QED  BY <2>3, <3>1 DEF Reads, Enough, CountOf
  <2>5. InText(cursor) = 0
    BY <1>4, <2>3
  <2>6. QED  BY <1>1, <2>1, <2>2, <2>3, <2>4, <2>5 DEF TailInv
<1>13. CASE Room
  <2>1. pc = "room" /\ pc' = "store" /\ UNCHANGED <<char, magic, cursor, wrapped, text, said, lost>>
    BY <1>13 DEF Room
  <2>2. TailTyped'
    BY <1>2, <2>1 DEF TailTyped, TextTyped
  <2>3. magic /\ Reads(said, text, InText(cursor), wrapped, lost)
    BY <2>1 DEF TailInv
  <2>4. QED  BY <1>1, <2>1, <2>2, <2>3 DEF TailInv
<1>14. ASSUME StoreText, pc = "store" PROVE TailInv'
  <2>1. /\ pc' = "advance" /\ text' = [text EXCEPT ![cursor] = char] /\ said' = said
        /\ UNCHANGED <<char, magic, cursor, wrapped, lost>>
    BY <1>14 DEF StoreText
  <2>2. cursor \in Slots /\ magic /\ Reads(said, text, cursor, wrapped, lost)
    BY <1>2, <1>4, <1>14 DEF TailInv, Bounded, Slots
  <2>3. AgreesButOldest(said, text, cursor, wrapped)
    BY <2>2 DEF Reads, Agrees, AgreesButOldest
  <2>4. text' \in [Slots -> Bytes] /\ text'[cursor] = char /\ AgreesButOldest(said, text', cursor, wrapped)
    BY <1>2, <1>3, <2>1, <2>2, <2>3, StoreApart
  <2>5. TailTyped'
    BY <1>2, <2>1, <2>4 DEF TailTyped, TextTyped
  <2>6. QED  BY <1>1, <2>1, <2>2, <2>4, <2>5 DEF TailInv, Reads
<1>15. ASSUME StoreText, pc = "late" PROVE TailInv'
  <2>1. /\ pc' = AfterLog /\ text' = [text EXCEPT ![cursor - 1] = char]
        /\ said' = Newest(Append(said, char)) /\ UNCHANGED <<char, magic, cursor, wrapped, lost>>
    BY <1>15 DEF StoreText
  <2>2. magic /\ Reads(said, text, cursor - 1, wrapped, lost)
    BY <1>15 DEF TailInv
  <2>3. cursor - 1 \in Slots /\ (cursor - 1) + 1 = cursor /\ InText(cursor) = cursor
    BY <1>2, <1>15, InTextIs DEF TailInv, Bounded, Slots
  <2>4. Enough(said, cursor - 1, wrapped, lost) /\ AgreesButOldest(said, text, cursor - 1, wrapped)
    BY <2>2 DEF Reads, Agrees, AgreesButOldest
  <2>5. /\ text' \in [Slots -> Bytes] /\ text'[cursor - 1] = char
        /\ \A i \in Slots : i # cursor - 1 => text'[i] = text[i]
    BY <1>2, <1>3, <2>1, <2>3, <2>4, StoreApart
  <2>6. /\ said' \in Seq(Bytes) /\ Len(said') <= Size
        /\ Reads(said', text', (cursor - 1) + 1, wrapped, lost)
    <3>1. char \in {Old, text'[cursor - 1]}
      BY <2>5
    <3> DEFINE c == cursor - 1
               u == text'
    <3>2. c \in Slots /\ Enough(said, c, wrapped, lost) /\ AgreesButOldest(said, text, c, wrapped)
      BY <2>3, <2>4
    <3>3. SameBut(text, u, c) /\ char \in {Old, u[c]}
      BY <2>5, <3>1 DEF SameBut
    <3>4. /\ Newest(Append(said, char)) \in Seq(Bytes) /\ Len(Newest(Append(said, char))) <= Size
          /\ Reads(Newest(Append(said, char)), u, c + 1, wrapped, lost)
      <4> HIDE DEF c, u
      <4>1. QED  BY <1>2, <1>3, <3>2, <3>3, ByteMore
    <3>5. QED  BY <2>1, <3>4
  <2>7. TailTyped'
    BY <1>2, <2>1, <2>5, <2>6 DEF TailTyped, TextTyped
  <2>8. Reads(said', text', InText(cursor), wrapped, lost)
    BY <2>3, <2>6
  <2>9. QED  BY <1>1, <1>5, <2>1, <2>2, <2>7, <2>8 DEF TailInv
<1>16. ASSUME Advance, pc = "store" PROVE TailInv'
  <2>1. /\ pc' = "late" /\ cursor' = cursor + 1 /\ said' = said
        /\ UNCHANGED <<char, magic, wrapped, text, lost>>
    BY <1>16 DEF Advance
  <2>2. TailTyped'
    BY <1>2, <2>1 DEF TailTyped, TextTyped
  <2>3. magic /\ Reads(said, text, cursor, wrapped, lost) /\ cursor' - 1 = cursor
    BY <1>2, <1>4, <1>16, <2>1 DEF TailInv, Bounded
  <2>4. QED  BY <1>1, <2>1, <2>2, <2>3 DEF TailInv
<1>17. ASSUME Advance, pc = "advance" PROVE TailInv'
  <2>1. /\ pc' = AfterLog /\ cursor' = cursor + 1 /\ said' = Newest(Append(said, char))
        /\ UNCHANGED <<char, magic, wrapped, text, lost>>
    BY <1>17 DEF Advance
  <2>2. /\ magic /\ text[cursor] = char /\ Enough(said, cursor, wrapped, lost)
        /\ AgreesButOldest(said, text, cursor, wrapped)
    BY <1>17 DEF TailInv
  <2>3. cursor \in Slots /\ InText(cursor + 1) = cursor + 1
    BY <1>2, <1>17, InTextIs DEF TailInv, Bounded, Slots
  <2>4. said' \in Seq(Bytes) /\ Len(said') <= Size /\ Reads(said', text, cursor + 1, wrapped, lost)
    BY <1>2, <1>3, <2>1, <2>2, <2>3, ByteMore DEF SameBut
  <2>5. TailTyped'
    BY <1>2, <2>1, <2>4 DEF TailTyped, TextTyped
  <2>6. QED  BY <1>1, <1>5, <2>1, <2>2, <2>3, <2>4, <2>5 DEF TailInv
<1>18. CASE WriteFrameBuffer
  <2>1. pc = "draw" /\ pc' = "idle" /\ UNCHANGED <<char, magic, cursor, wrapped, text, said, lost>>
    BY <1>18 DEF WriteFrameBuffer
  <2>2. TailTyped'
    BY <1>2, <2>1 DEF TailTyped, TextTyped
  <2>3. magic => Reads(said, text, InText(cursor), wrapped, lost)
    BY <2>1 DEF TailInv
  <2>4. QED  BY <1>1, <2>1, <2>2, <2>3 DEF TailInv
<1>19. CASE Reset
  <2>1. pc' = "idle" /\ UNCHANGED <<magic, cursor, wrapped, text>>
    BY <1>19 DEF Reset
  <2>2. TailTyped' /\ (magic => Reads(said', text, InText(cursor), wrapped, lost'))
    BY <1>19, TailReset
  <2>3. QED  BY <1>1, <2>1, <2>2 DEF TailInv
<1>20. CASE UNCHANGED vars
  <2>1. UNCHANGED <<pc, char, magic, cursor, wrapped, text, said, lost>>
    BY <1>20 DEF vars
  <2>2. TailTyped'
    BY <1>2, <2>1 DEF TailTyped, TextTyped
  <2>3. QED  BY <1>1, <2>1, <2>2 DEF TailInv
<1>21. CASE StoreText
  BY <1>21, <1>14, <1>15 DEF StoreText
<1>22. CASE Advance
  BY <1>22, <1>16, <1>17 DEF Advance
<1>23. QED
  BY <1>6, <1>7, <1>8, <1>9, <1>10, <1>11, <1>12, <1>13, <1>18, <1>19, <1>20, <1>21, <1>22 DEF Next

\* What the reader makes of a log that Reads.
LEMMA TailReads ==
  ASSUME DebugLogAssumption, TailInv
  PROVE  TailIsRecent
<1> SUFFICES ASSUME pc = "idle", magic
             PROVE  LET behind == Len(said) - Len(Recovered) IN
                    /\ behind >= 0 /\ (behind > 0 => lost)
                    /\ \A i \in 1..Len(Recovered) : said[behind + i] \in {Old, Recovered[i]}
  BY DEF TailIsRecent
<1> DEFINE c == InText(cursor)
           n == CountOf(c, wrapped)
<1>1. TextTyped /\ cursor \in Nat /\ wrapped \in BOOLEAN /\ said \in Seq(Bytes)
  BY DEF TailInv, TailTyped, TextTyped, Bounded
<1>2. Len(Recovered) = n /\ \A i \in 1..n : Recovered[i] = text[SlotOf(c, n - i)]
  BY <1>1, RecoveredIs
<1>3. n \in Nat /\ Len(said) \in Nat
  <2>1. c \in Nat
    BY <1>1 DEF InText, DebugLogAssumption
  <2>2. QED  BY <1>1, <2>1, CountIs
<1>4. Reads(said, text, c, wrapped, lost)
  BY DEF TailInv
<1>5. Len(said) >= n /\ (Len(said) > n => lost) /\ \A k \in 0..n - 1 : said[Len(said) - k] \in {Old, text[SlotOf(c, k)]}
  BY <1>4 DEF Reads, Enough, Agrees
<1>6. ASSUME NEW i \in 1..n PROVE said[(Len(said) - n) + i] \in {Old, Recovered[i]}
  <2> HIDE DEF c, n
  <2>1. n - i \in 0..n - 1 /\ Len(said) - (n - i) = (Len(said) - n) + i
    BY <1>3
  <2>2. QED  BY <1>2, <1>5, <2>1
<1>7. QED
  <2> HIDE DEF n
  <2>1. Len(said) - n >= 0 /\ (Len(said) - n > 0 => lost)
    BY <1>3, <1>5
  <2>2. QED  BY <1>2, <1>6, <2>1

\* "The Tail is always the most recent thing that happened" (FrameBufferSerialPort.c):
\* for every size, whatever header the memory held at power on, in whichever order the
\* build stores byte and cursor, and wherever resets cut the stores of WriteLogBuffer,
\* the log reads back as the last bytes written, all of them unless one cut a wrap.
THEOREM TailAlwaysRecent == Spec => []TailIsRecent
<1>1. Init => TailInv
  BY TailInit
<1>2. TailInv /\ [Next]_vars => TailInv'
  BY TailStep, DebugLogAssumption
<1>3. TailInv => TailIsRecent
  BY TailReads, DebugLogAssumption
<1>4. QED  BY <1>1, <1>2, <1>3, PTL DEF Spec

=============================================================================
