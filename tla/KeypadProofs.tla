------------------------------ MODULE KeypadProofs ------------------------------
(***************************************************************************)
(* The guarantees of the keypad driver and of the boot manager's hotkey,   *)
(* for every ring size, every set of keys, functions and handles, and any  *)
(* number of presses.                                                      *)
(*                                                                         *)
(* The first lemmas are about the operators of Keypad: what remains of a   *)
(* queue (KeptIs), the presses of a poll (PollIs), the copies made for the *)
(* registrations (CopiesAre) and the least place of a set (LeastExists).   *)
(* KeypadInv is inductive: types, the order of the queues, and that the    *)
(* list holds each allocated registration once.                            *)
(***************************************************************************)
EXTENDS KeypadClients, BootHotkey, SequenceTheorems, FiniteSetTheorems, TLAPS

\* A set of numbers that is not empty has a least element, and Min is it.
LEMMA LeastExists ==
  ASSUME NEW T \in SUBSET Nat, T # {}
  PROVE  Min(T) \in T /\ \A i \in T : Min(T) <= i
<1>1. \E x \in T : \A y \in T : ~(<<y, x>> \in OpToRel(<, Nat))
  BY WFMin, NatLessThanWellFounded
<1>2. \E x \in T : \A y \in T : x <= y
  <2>1. PICK x \in T : \A y \in T : ~(<<y, x>> \in OpToRel(<, Nat))
    BY <1>1
  <2>2. \A y \in T : ~(y < x)
    BY <2>1 DEF OpToRel
  <2>3. QED  BY <2>2
<1>3. QED  BY <1>2 DEF Min

\* The size of an interval from one.
LEMMA UpTo ==
  ASSUME NEW n \in Nat
  PROVE  IsFiniteSet(1..n) /\ Cardinality(1..n) = n
<1>1. IsFiniteSet(1..n) /\ Cardinality(1..n) = IF 1 > n THEN 0 ELSE n - 1 + 1
  BY FS_Interval
<1>2. (IF 1 > n THEN 0 ELSE n - 1 + 1) = n
  OBVIOUS
<1>3. QED  BY <1>1, <1>2

-----------------------------------------------------------------------------
\* What is left of a queue are its newest keys, at most Limit of them.
LEMMA KeptIs ==
  ASSUME KeypadAssumption, NEW S, NEW q \in Seq(S)
  PROVE  /\ Kept(q) \in Seq(S) /\ Len(Kept(q)) \in 0..Limit /\ Len(Kept(q)) <= Len(q)
         /\ \A i \in 1..Len(Kept(q)) : Kept(q)[i] = q[i + (Len(q) - Len(Kept(q)))]
         /\ Len(q) <= Limit => Kept(q) = q
         /\ q # <<>> => Kept(q) # <<>>
<1>1. Limit \in Nat \ {0} /\ Len(q) \in Nat /\ DOMAIN q = 1..Len(q)
  BY LenProperties DEF KeypadAssumption, Limit
<1>2. CASE Len(q) <= Limit
  BY <1>1, <1>2 DEF Kept
<1>3. CASE ~(Len(q) <= Limit)
  <2> DEFINE m == Len(q) - Limit + 1
  <2>1. m \in Int /\ Len(q) \in Int /\ m <= Len(q) /\ Len(q) - m + 1 = Limit
    BY <1>1, <1>3
  <2>2. \A i \in m..Len(q) : q[i] \in S
    BY <1>1, <1>3, <2>1, ElementOfSeq
  <2>3. /\ SubSeq(q, m, Len(q)) \in Seq(S)
        /\ Len(SubSeq(q, m, Len(q))) = Limit
        /\ \A i \in 1..Limit : SubSeq(q, m, Len(q))[i] = q[m + i - 1]
    <3> HIDE DEF m
    <3>1. QED  BY <2>1, <2>2, SubSeqProperties
  <2>4. Kept(q) = SubSeq(q, m, Len(q))
    BY <1>3 DEF Kept
  <2>5. \A i \in 1..Limit : m + i - 1 = i + (Len(q) - Limit)
    BY <1>1
  <2>6. Kept(q) # <<>>
    BY <1>1, <2>3, <2>4, EmptySeq
  <2> HIDE DEF m
  <2>7. QED  BY <1>1, <1>3, <2>3, <2>4, <2>5, <2>6
<1>4. QED  BY <1>2, <1>3

\* The presses of a poll are numbered on from those before.
LEMMA PollIs ==
  ASSUME KeypadAssumption, pressed \in 0..MaxPresses, NEW keys \in Accepted
  PROVE  /\ Presses(keys) \in Seq(Press) /\ Len(Presses(keys)) = Len(keys)
         /\ Len(keys) \in Nat /\ keys \in Seq(KeyData) /\ pressed + Len(keys) <= MaxPresses
         /\ \A i \in 1..Len(keys) :
              Presses(keys)[i].n = pressed + i /\ Presses(keys)[i].key = keys[i]
<1>1. keys \in Seq(KeyData) /\ pressed + Len(keys) <= MaxPresses
  BY DEF Accepted, GetKeys, BoundedSeq, SeqOf, KeypadAssumption
<1>2. Len(keys) \in Nat /\ \A i \in 1..Len(keys) : keys[i] \in KeyData
  BY <1>1, LenProperties, ElementOfSeq
<1>3. \A i \in 1..Len(keys) : [key |-> keys[i], n |-> pressed + i] \in Press
  BY <1>1, <1>2 DEF Press, KeypadAssumption
<1>4. QED  BY <1>1, <1>2, <1>3 DEF Presses

-----------------------------------------------------------------------------
\* The copies of a poll, press by press: their number grows with the presses,
\* and by one at least for a press that matches a registration.
LEMMA CountsAre ==
  ASSUME NEW presses, NEW count \in Nat, NEW n \in Nat, Len(notifyList) \in Nat, count <= n
  PROVE  /\ CopyCount(presses, count) \in Nat
         /\ CopyCount(presses, count) <= CopyCount(presses, n)
         /\ CopyCount(presses, 0) = 0
         /\ \A i \in 1..n : count < i /\ Matching(presses[i].key) # {}
              => CopyCount(presses, count) < CopyCount(presses, n)
         /\ CopyCount(presses, n) > 0
              => \E i \in 1..n : Matching(presses[i].key) # {}
<1> DEFINE Places == 1..Len(notifyList)
<1>1. IsFiniteSet((1..n) \X Places)
  <2>1. IsFiniteSet(1..n) /\ IsFiniteSet(Places)
    BY FS_Interval
  <2>2. QED  BY <2>1, FS_Product
<1>2. Copies(presses, n) \subseteq (1..n) \X Places
  BY DEF Copies
<1>3. IsFiniteSet(Copies(presses, n))
  BY <1>1, <1>2, FS_Subset
<1>4. Copies(presses, count) \subseteq Copies(presses, n)
  BY DEF Copies
<1>5. IsFiniteSet(Copies(presses, count)) /\ CopyCount(presses, count) <= CopyCount(presses, n)
  BY <1>3, <1>4, FS_Subset DEF CopyCount
<1>6. CopyCount(presses, count) \in Nat /\ CopyCount(presses, n) \in Nat
  BY <1>3, <1>5, FS_CardinalityType DEF CopyCount
<1>7. CopyCount(presses, 0) = 0
  <2>1. Copies(presses, 0) = {}
    BY DEF Copies
  <2>2. QED  BY <2>1, FS_EmptySet DEF CopyCount
<1>8. ASSUME NEW i \in 1..n, count < i, Matching(presses[i].key) # {}
      PROVE  CopyCount(presses, count) < CopyCount(presses, n)
  <2>1. PICK at \in Matching(presses[i].key) : at \in Places
    BY <1>8 DEF Matching
  <2>2. <<i, at>> \in Copies(presses, n) /\ <<i, at>> \notin Copies(presses, count)
    BY <1>8, <2>1 DEF Copies
  <2>3. CopyCount(presses, count) # CopyCount(presses, n)
    BY <1>3, <1>4, <2>2, FS_Subset DEF CopyCount
  <2>4. QED  BY <1>5, <1>6, <2>3
<1>9. ASSUME CopyCount(presses, n) > 0
      PROVE  \E i \in 1..n : Matching(presses[i].key) # {}
  <2>1. Copies(presses, n) # {}
    BY <1>9, FS_EmptySet DEF CopyCount
  <2>2. PICK c \in (1..n) \X Places : c[2] \in Matching(presses[c[1]].key)
    BY <2>1 DEF Copies
  <2>3. QED  BY <2>2
<1>10. QED  BY <1>5, <1>6, <1>7, <1>8, <1>9

\* Each copy belongs to one press, and the copies are in the order of the presses.
LEMMA CopiedIs ==
  ASSUME NEW presses, Len(presses) \in Nat, Len(notifyList) \in Nat,
         NEW c \in 1..CopyCount(presses, Len(presses))
  PROVE  /\ Copied(presses, c) \in 1..Len(presses)
         /\ CopyCount(presses, Copied(presses, c) - 1) < c
         /\ c <= CopyCount(presses, Copied(presses, c))
<1> DEFINE n == Len(presses)
           Reached == {i \in 0..n : c <= CopyCount(presses, i)}
<1>1. \A i \in 0..n : CopyCount(presses, i) \in Nat
  BY CountsAre
<1>2. CopyCount(presses, 0) = 0
  BY CountsAre
<1>3. Reached \in SUBSET Nat /\ n \in Reached /\ 0 \notin Reached
  BY <1>1, <1>2
<1> DEFINE i == Min(Reached)
<1>4. i \in Reached /\ \A j \in Reached : i <= j
  <2> HIDE DEF Reached
  <2>1. QED  BY <1>3, LeastExists
<1> HIDE DEF i
<1>5. i \in 1..n /\ i - 1 \in 0..n /\ i - 1 \notin Reached
  BY <1>3, <1>4
<1>6. CopyCount(presses, i - 1) < c /\ c <= CopyCount(presses, i)
  BY <1>1, <1>4, <1>5
<1>7. QED  BY <1>5, <1>6 DEF Copied

LEMMA CopiedInOrder ==
  ASSUME NEW presses, Len(presses) \in Nat, Len(notifyList) \in Nat,
         NEW c \in 1..CopyCount(presses, Len(presses)),
         NEW e \in 1..CopyCount(presses, Len(presses)), c <= e
  PROVE  Copied(presses, c) <= Copied(presses, e)
<1> DEFINE i == Copied(presses, c)
           j == Copied(presses, e)
<1>1. i \in 1..Len(presses) /\ CopyCount(presses, i - 1) < c
  BY CopiedIs
<1>2. j \in 1..Len(presses) /\ e <= CopyCount(presses, j)
  BY CopiedIs
<1> HIDE DEF i, j
<1>3. CopyCount(presses, i - 1) \in Nat /\ CopyCount(presses, j) \in Nat
  BY <1>1, <1>2, CountsAre
<1>4. CopyCount(presses, i - 1) < CopyCount(presses, j)
  BY <1>1, <1>2, <1>3, CountsAre
<1>5. ~(j <= i - 1)
  BY <1>1, <1>2, <1>3, <1>4, CountsAre
<1>6. i <= j
  BY <1>1, <1>2, <1>5
<1>7. QED  BY <1>6 DEF i, j

\* What a poll queues for notification: presses of that poll which match a
\* registration, in order, and every such press.
LEMMA CopiesAre ==
  ASSUME NEW S, NEW presses \in Seq(S), Len(notifyList) \in Nat
  PROVE  LET copies == ToNotify(presses) IN
         /\ copies \in Seq(S) /\ Len(copies) = CopyCount(presses, Len(presses))
         /\ \A c \in 1..Len(copies) :
              \E i \in 1..Len(presses) : i = Copied(presses, c) /\ copies[c] = presses[i]
         /\ \A c, e \in 1..Len(copies) : c <= e => Copied(presses, c) <= Copied(presses, e)
         /\ \A i \in 1..Len(presses) : Matching(presses[i].key) # {} =>
              \E c \in 1..Len(copies) : copies[c] = presses[i]
<1> DEFINE n == Len(presses)
           all == CopyCount(presses, n)
<1>1. n \in Nat /\ all \in Nat /\ \A i \in 1..n : presses[i] \in S
  BY LenProperties, ElementOfSeq, CountsAre
<1>2. \A c \in 1..all : Copied(presses, c) \in 1..n
  BY <1>1, CopiedIs
<1>3. \A c \in 1..all : presses[Copied(presses, c)] \in S
  BY <1>1, <1>2
<1>4. /\ ToNotify(presses) \in Seq(S) /\ Len(ToNotify(presses)) = all
      /\ \A c \in 1..all : ToNotify(presses)[c] = presses[Copied(presses, c)]
  <2> HIDE DEF all
  <2>1. ToNotify(presses) = [c \in 1..all |-> presses[Copied(presses, c)]]
    BY DEF ToNotify, all
  <2>2. QED  BY <1>1, <1>3, <2>1
<1>5. \A c, e \in 1..all : c <= e => Copied(presses, c) <= Copied(presses, e)
  BY <1>1, CopiedInOrder
<1>6. ASSUME NEW i \in 1..n, Matching(presses[i].key) # {}
      PROVE  \E c \in 1..all : ToNotify(presses)[c] = presses[i]
  <2> DEFINE c == CopyCount(presses, i)
  <2>1. c \in Nat /\ c <= all /\ CopyCount(presses, i - 1) \in Nat
    BY <1>1, CountsAre
  <2>2. CopyCount(presses, i - 1) < c
    <3>1. i - 1 \in Nat /\ i \in Nat /\ i - 1 <= i /\ i - 1 < i /\ i \in 1..i
      BY <1>1
    <3>2. QED  BY <1>6, <3>1, CountsAre
  <2>3. c \in 1..all
    BY <1>1, <2>1, <2>2
  <2> DEFINE j == Copied(presses, c)
  <2>4. j \in 1..n /\ CopyCount(presses, j - 1) < c /\ c <= CopyCount(presses, j)
    BY <1>1, <2>3, CopiedIs
  <2> HIDE DEF j
  <2>5. CopyCount(presses, j - 1) \in Nat /\ CopyCount(presses, j) \in Nat
    BY <1>1, <2>4, CountsAre
  <2>6. ~(i <= j - 1)
    BY <1>1, <2>1, <2>4, <2>5, CountsAre
  <2>7. ~(j <= i - 1)
    BY <1>1, <2>1, <2>2, <2>4, <2>5, CountsAre
  <2>8. i = j
    BY <1>1, <2>4, <2>6, <2>7
  <2>9. QED  BY <1>4, <2>3, <2>8 DEF j
<1>7. QED  BY <1>1, <1>2, <1>4, <1>5, <1>6

-----------------------------------------------------------------------------
Registration == [key : KeyData, fn : Functions]

\* Where the handler may be.
HandlerAt == {"idle", "pop", "call", "freed", "lost"}

KeypadTypeOK ==
  /\ queue \in Seq(Press) /\ Len(queue) <= Limit
  /\ notifyQueue \in Seq(Press) /\ Len(notifyQueue) <= Limit
  /\ notifyList \in Seq(Handles)
  /\ DOMAIN reg \subseteq Handles /\ \A h \in DOMAIN reg : reg[h] \in Registration
  /\ state \subseteq Bits /\ pending \in BOOLEAN
  /\ handler \in [pc : HandlerAt, press : Press, link : Handles \union {End}]
  /\ pressed \in 0..MaxPresses /\ lastRead \in 0..pressed

KeypadInv == KeypadTypeOK /\ NoKeySkipped /\ NotifyServed /\ WalkOnLive

LEMMA KeypadInit == KeypadAssumption /\ Init => KeypadInv
<1> SUFFICES ASSUME KeypadAssumption, Init PROVE KeypadInv
  OBVIOUS
<1>1. NoPress \in Press
  BY DEF NoPress, Press, KeyData, KeypadAssumption
<1>2. Limit \in Nat /\ MaxPresses \in Nat
  BY DEF Limit, KeypadAssumption
<1>3. queue = <<>> /\ queue \in Seq(Press) /\ Len(queue) = 0 /\ notifyList \in Seq(Handles)
  BY EmptySeq DEF Init
<1>4. KeypadTypeOK
  <2>1. handler \in [pc : HandlerAt, press : Press, link : Handles \union {End}]
    BY <1>1 DEF Init, Idle, HandlerAt
  <2>2. DOMAIN reg = {}
    BY DEF Init
  <2>3. notifyQueue = queue /\ Len(queue) <= Limit
    BY <1>2, <1>3 DEF Init
  <2>4. pressed \in 0..MaxPresses /\ lastRead \in 0..pressed
    BY <1>2 DEF Init
  <2>5. state \subseteq Bits /\ pending \in BOOLEAN
    BY DEF Init
  <2>6. QED  BY <1>3, <2>1, <2>2, <2>3, <2>4, <2>5 DEF KeypadTypeOK
<1>5. NoKeySkipped /\ NotifyServed
  BY <1>3 DEF Init, NoKeySkipped, NotifyServed
<1>6. WalkOnLive
  BY DEF Init, WalkOnLive, Idle, Range, IsInjective
<1>7. QED  BY <1>4, <1>5, <1>6 DEF KeypadInv

\* A queue that is a run of the newest keys pushed, all newer than the last read.
RunOf(q, newest) ==
  /\ q \in Seq(Press) /\ Len(q) <= Limit
  /\ \A i \in 1..Len(q) : q[i].n = newest - Len(q) + i
  /\ \A i \in 1..Len(q) : q[i].n > lastRead

LEMMA QueueIsRun ==
  ASSUME KeypadAssumption, KeypadInv
  PROVE  RunOf(queue, pressed)
<1>1. /\ queue \in Seq(Press) /\ Len(queue) <= Limit /\ Len(queue) \in Nat
      /\ pressed \in Nat /\ lastRead \in Nat
  BY LenProperties DEF KeypadInv, KeypadTypeOK, KeypadAssumption
<1>2. \A i \in 1..Len(queue) : queue[i].n = pressed - Len(queue) + i
  BY DEF KeypadInv, NoKeySkipped
<1>3. ASSUME NEW i \in 1..Len(queue) PROVE queue[i].n > lastRead
  <2>1. queue # <<>> /\ Head(queue) = queue[1] /\ 1 \in 1..Len(queue)
    BY <1>1, <1>3, EmptySeq
  <2>2. queue[1].n > lastRead
    BY <2>1 DEF KeypadInv, NoKeySkipped
  <2>3. queue[1].n = pressed - Len(queue) + 1 /\ queue[i].n = pressed - Len(queue) + i
    BY <1>2, <2>1
  <2>4. QED  BY <1>1, <2>2, <2>3
<1>4. QED  BY <1>1, <1>2, <1>3 DEF RunOf

\* The newest of a run are a run.
LEMMA SuffixIsRun ==
  ASSUME KeypadAssumption, NEW q \in Seq(Press), NEW r \in Seq(Press), NEW newest \in Nat,
         Len(r) <= Len(q), Len(r) <= Limit,
         \A i \in 1..Len(q) : q[i].n = newest - Len(q) + i,
         \A i \in 1..Len(q) : q[i].n > lastRead,
         \A i \in 1..Len(r) : r[i] = q[i + (Len(q) - Len(r))]
  PROVE  RunOf(r, newest)
<1>1. Len(q) \in Nat /\ Len(r) \in Nat
  BY LenProperties
<1>2. \A i \in 1..Len(r) : i + (Len(q) - Len(r)) \in 1..Len(q)
  BY <1>1
<1>3. ASSUME NEW i \in 1..Len(r) PROVE r[i].n = newest - Len(r) + i
  <2>1. r[i].n = newest - Len(q) + (i + (Len(q) - Len(r)))
    BY <1>2
  <2>2. QED  BY <1>1, <2>1
<1>4. \A i \in 1..Len(r) : r[i].n > lastRead
  BY <1>2
<1>5. QED  BY <1>3, <1>4 DEF RunOf

\* A poll: the readers' queue is a run up to the newest press, and keys that
\* wait for their notification have a signalled event.
LEMMA PollStep ==
  ASSUME KeypadAssumption, KeypadInv, NEW keys \in Accepted,
         KeypadTimerHandler(Presses(keys))
  PROVE  /\ pressed' \in pressed..MaxPresses /\ pending' \in BOOLEAN
         /\ RunOf(Polled(Presses(keys)), pressed')
         /\ notifyQueue' \in Seq(Press) /\ Len(notifyQueue') <= Limit
         /\ notifyQueue' # <<>> => pending' \/ notifyQueue # <<>>
<1> DEFINE presses == Presses(keys)
           long    == queue \o presses
           waiting == notifyQueue \o ToNotify(presses)
<1>1. /\ pressed \in 0..MaxPresses /\ MaxPresses \in Nat /\ pressed \in Nat /\ lastRead \in 0..pressed
      /\ queue \in Seq(Press) /\ notifyQueue \in Seq(Press) /\ notifyList \in Seq(Handles)
      /\ Len(notifyQueue) <= Limit
  BY DEF KeypadInv, KeypadTypeOK, KeypadAssumption
<1>2. /\ presses \in Seq(Press) /\ Len(presses) = Len(keys) /\ Len(keys) \in Nat
      /\ pressed + Len(keys) <= MaxPresses
      /\ \A i \in 1..Len(keys) : presses[i].n = pressed + i
  BY <1>1, PollIs
<1>3. pressed' = pressed + Len(keys) /\ pressed' \in pressed..MaxPresses /\ pressed' \in Nat
  BY <1>1, <1>2 DEF KeypadTimerHandler
<1>4. pending' = (pending \/ ToNotify(presses) # <<>>) /\ pending' \in BOOLEAN
  BY DEF KeypadTimerHandler
<1> HIDE DEF presses
<1>5. Len(queue) \in Nat /\ Len(notifyList) \in Nat
  BY <1>1, LenProperties
<1>6. /\ long \in Seq(Press) /\ Len(long) = Len(queue) + Len(keys)
      /\ \A i \in 1..Len(long) :
           long[i] = IF i <= Len(queue) THEN queue[i] ELSE presses[i - Len(queue)]
  <2>1. /\ long \in Seq(Press) /\ Len(long) = Len(queue) + Len(presses)
        /\ \A i \in 1..Len(queue) + Len(presses) :
             long[i] = IF i <= Len(queue) THEN queue[i] ELSE presses[i - Len(queue)]
    <3>1. queue \in Seq(Press) /\ presses \in Seq(Press)
      BY <1>1, <1>2
    <3>2. QED  BY <3>1, ConcatProperties
  <2>2. QED  BY <1>2, <2>1
<1>7. ASSUME NEW i \in 1..Len(long)
      PROVE  long[i].n = pressed' - Len(long) + i /\ long[i].n > lastRead
  <2>0. pressed' - Len(long) = pressed - Len(queue)
    BY <1>1, <1>2, <1>3, <1>5, <1>6
  <2>1. CASE i <= Len(queue)
    <3>1. i \in 1..Len(queue) /\ long[i] = queue[i]
      BY <1>5, <1>6, <2>1
    <3>2. queue[i].n = pressed - Len(queue) + i /\ queue[i].n > lastRead
      BY <3>1, QueueIsRun DEF RunOf
    <3>3. long[i].n = pressed - Len(queue) + i /\ long[i].n > lastRead
      BY <3>1, <3>2
    <3>4. QED  BY <2>0, <3>3
  <2>2. CASE ~(i <= Len(queue))
    <3>1. i - Len(queue) \in 1..Len(keys) /\ long[i] = presses[i - Len(queue)]
      BY <1>2, <1>5, <1>6, <2>2
    <3>2. long[i].n = pressed + (i - Len(queue))
      BY <1>2, <3>1
    <3> DEFINE at == i - Len(queue)
    <3>3. at \in Nat /\ at > 0 /\ long[i].n = pressed + at /\ i = at + Len(queue)
      BY <1>2, <1>5, <3>1, <3>2
    <3> HIDE DEF at
    <3>4. long[i].n = pressed - Len(queue) + i /\ long[i].n > lastRead
      BY <1>1, <1>5, <3>3
    <3>5. QED  BY <2>0, <3>4
  <2>3. QED  BY <2>1, <2>2
<1>8. RunOf(Polled(presses), pressed')
  <2>1. /\ Kept(long) \in Seq(Press) /\ Len(Kept(long)) \in 0..Limit /\ Len(Kept(long)) <= Len(long)
        /\ \A i \in 1..Len(Kept(long)) : Kept(long)[i] = long[i + (Len(long) - Len(Kept(long)))]
    BY <1>6, KeptIs
  <2> HIDE DEF long
  <2>2. Len(Kept(long)) <= Limit
    BY <2>1 DEF Limit, KeypadAssumption
  <2>3. RunOf(Kept(long), pressed')
    BY <1>3, <1>6, <1>7, <2>1, <2>2, SuffixIsRun
  <2>4. QED  BY <2>3 DEF Polled, long
<1>9. ToNotify(presses) \in Seq(Press)
  BY <1>2, <1>5, CopiesAre
<1>10. waiting \in Seq(Press) /\ notifyQueue' = Kept(waiting)
  BY <1>1, <1>9, ConcatProperties DEF KeypadTimerHandler, presses
<1>11. notifyQueue' \in Seq(Press) /\ Len(notifyQueue') <= Limit
  <2>1. notifyQueue' \in Seq(Press) /\ Len(notifyQueue') \in 0..Limit
    BY <1>10, KeptIs
  <2>2. QED  BY <2>1 DEF Limit, KeypadAssumption
<1>12. notifyQueue' # <<>> => pending' \/ notifyQueue # <<>>
  <2>1. CASE ToNotify(presses) = <<>>
    <3>1. waiting = notifyQueue
      BY <1>1, <2>1, ConcatEmptySeq
    <3>2. Kept(notifyQueue) = notifyQueue
      BY <1>1, KeptIs
    <3>3. QED  BY <1>10, <3>1, <3>2
  <2>2. CASE ToNotify(presses) # <<>>
    BY <1>4, <2>2
  <2>3. QED  BY <2>1, <2>2
<1>13. QED  BY <1>3, <1>4, <1>8, <1>11, <1>12 DEF presses

-----------------------------------------------------------------------------
\* Which registration is called next: the first that matches from a place on.
LEMMA CallFirstIs ==
  ASSUME notifyList \in Seq(Handles), WalkOnLive, NEW press \in Press, NEW from \in Nat,
         CallFirst(press, from)
  PROVE  \/ /\ handler' = NextKey /\ handler'.pc = "pop"
            /\ \A i \in Matching(press.key) : i < from
         \/ /\ handler'.pc = "call" /\ handler'.press = press
            /\ handler' \in [pc : {"call"}, press : Press, link : Handles]
            /\ \E i \in Matching(press.key) :
                 /\ from <= i /\ handler'.link = notifyList[i] /\ notifyList[i] \in DOMAIN reg
                 /\ \A j \in Matching(press.key) : from <= j => i <= j
<1> DEFINE links == {i \in Matching(press.key) : from <= i}
<1>1. Matching(press.key) \subseteq 1..Len(notifyList) /\ Len(notifyList) \in Nat
      /\ DOMAIN notifyList = 1..Len(notifyList)
  BY LenProperties DEF Matching
<1>2. CASE links = {}
  <2>1. handler' = NextKey
    BY <1>2 DEF CallFirst
  <2>2. NextKey.pc = "pop"
    BY DEF NextKey, Idle
  <2>3. \A i \in Matching(press.key) : i < from
    BY <1>1, <1>2
  <2>4. QED  BY <2>1, <2>2, <2>3
<1>3. CASE links # {}
  <2> DEFINE i == Min(links)
  <2>1. handler' = [pc |-> "call", press |-> press, link |-> notifyList[i]]
    BY <1>3 DEF CallFirst
  <2>2. links \in SUBSET Nat
    BY <1>1
  <2>3. i \in links /\ \A j \in links : i <= j
    <3> HIDE DEF links
    <3>1. QED  BY <1>3, <2>2, LeastExists
  <2> HIDE DEF i
  <2>4. i \in Matching(press.key) /\ from <= i /\ i \in 1..Len(notifyList)
        /\ \A j \in Matching(press.key) : from <= j => i <= j
    BY <1>1, <2>3
  <2>5. notifyList[i] \in Handles
    BY <2>4, ElementOfSeq
  <2>6. notifyList[i] \in DOMAIN reg
    BY <1>1, <2>4 DEF WalkOnLive, Range
  <2>7. QED  BY <2>1, <2>4, <2>5, <2>6
<1>4. QED  BY <1>2, <1>3

\* The place of a registration in the list.
LEMMA PlaceIs ==
  ASSUME notifyList \in Seq(Handles), WalkOnLive, NEW h \in DOMAIN reg
  PROVE  Place(h) \in 1..Len(notifyList) /\ notifyList[Place(h)] = h
<1>1. DOMAIN notifyList = 1..Len(notifyList)
  BY LenProperties
<1>2. \E i \in 1..Len(notifyList) : notifyList[i] = h
  BY <1>1 DEF WalkOnLive, Range
<1>3. QED  BY <1>2 DEF Place

\* Another registration joins the list, at its end.
LEMMA RegisterStep ==
  ASSUME KeypadInv, NEW k \in KeyData, NEW fn \in Functions, NEW h \in Handles \ DOMAIN reg,
         notifyList' = Append(notifyList, h),
         reg' = [i \in DOMAIN reg \union {h} |-> IF i = h THEN [key |-> k, fn |-> fn] ELSE reg[i]]
  PROVE  /\ notifyList' \in Seq(Handles)
         /\ DOMAIN reg' = DOMAIN reg \union {h}
         /\ \A i \in DOMAIN reg' : reg'[i] \in Registration
         /\ Range(notifyList') = DOMAIN reg' /\ IsInjective(notifyList')
<1>1. /\ notifyList \in Seq(Handles) /\ DOMAIN notifyList = 1..Len(notifyList)
      /\ Len(notifyList) \in Nat
  BY LenProperties DEF KeypadInv, KeypadTypeOK
<1> DEFINE n == Len(notifyList)
<1>2. /\ notifyList' \in Seq(Handles) /\ Len(notifyList') = n + 1
      /\ \A i \in 1..n : notifyList'[i] = notifyList[i]
      /\ notifyList'[n + 1] = h
  BY <1>1, AppendProperties
<1>3. DOMAIN notifyList' = (1..n) \union {n + 1}
  <2>1. DOMAIN notifyList' = 1..n + 1
    BY <1>2, LenProperties
  <2>2. QED  BY <1>1, <2>1
<1>4. DOMAIN reg' = DOMAIN reg \union {h} /\ \A i \in DOMAIN reg' : reg'[i] \in Registration
  BY DEF Registration, KeypadInv, KeypadTypeOK
<1>5. \A i \in 1..n : notifyList[i] \in DOMAIN reg
  BY <1>1 DEF KeypadInv, WalkOnLive, Range
<1>6. \A g \in DOMAIN reg : \E i \in 1..n : notifyList[i] = g
  BY <1>1 DEF KeypadInv, WalkOnLive, Range
<1>7. Range(notifyList') = DOMAIN reg'
  <2>1. ASSUME NEW i \in DOMAIN notifyList' PROVE notifyList'[i] \in DOMAIN reg'
    BY <1>2, <1>3, <1>4, <1>5
  <2>2. ASSUME NEW g \in DOMAIN reg' PROVE \E i \in DOMAIN notifyList' : notifyList'[i] = g
    <3>1. CASE g = h
      BY <1>2, <1>3, <3>1
    <3>2. CASE g \in DOMAIN reg
      <4>1. PICK i \in 1..n : notifyList[i] = g
        BY <1>6, <3>2
      <4>2. notifyList'[i] = g /\ i \in DOMAIN notifyList'
        BY <1>2, <1>3, <4>1
      <4>3. QED  BY <4>2
    <3>3. QED  BY <1>4, <3>1, <3>2
  <2>3. QED  BY <2>1, <2>2 DEF Range
<1>8. IsInjective(notifyList')
  <2> SUFFICES ASSUME NEW a \in DOMAIN notifyList', NEW b \in DOMAIN notifyList',
                      notifyList'[a] = notifyList'[b]
               PROVE  a = b
    BY DEF IsInjective
  <2>1. CASE a \in 1..n /\ b \in 1..n
    BY <1>1, <1>2, <2>1 DEF KeypadInv, WalkOnLive, IsInjective
  <2>2. CASE a = n + 1 \/ b = n + 1
    BY <1>2, <1>3, <1>5, <2>2
  <2>3. QED  BY <1>3, <2>1, <2>2
<1>9. QED  BY <1>2, <1>4, <1>7, <1>8

\* A registration leaves the list.
LEMMA UnregisterStep ==
  ASSUME KeypadInv, NEW h \in DOMAIN reg,
         notifyList' = Unlisted(h), reg' = [i \in DOMAIN reg \ {h} |-> reg[i]]
  PROVE  /\ notifyList' \in Seq(Handles) /\ Len(notifyList') = Len(notifyList) - 1
         /\ Place(h) \in 1..Len(notifyList)
         /\ \A i \in 1..Len(notifyList') :
              notifyList'[i] = IF i < Place(h) THEN notifyList[i] ELSE notifyList[i + 1]
         /\ DOMAIN reg' = DOMAIN reg \ {h}
         /\ \A i \in DOMAIN reg' : reg'[i] \in Registration
         /\ Range(notifyList') = DOMAIN reg' /\ IsInjective(notifyList')
<1>1. /\ notifyList \in Seq(Handles) /\ DOMAIN notifyList = 1..Len(notifyList)
      /\ Len(notifyList) \in Nat
  BY LenProperties DEF KeypadInv, KeypadTypeOK
<1> DEFINE n  == Len(notifyList)
           p  == Place(h)
           s1 == SubSeq(notifyList, 1, p - 1)
           s2 == SubSeq(notifyList, p + 1, n)
<1>2. p \in 1..n /\ notifyList[p] = h /\ p \in Int /\ n \in Int
  BY <1>1, PlaceIs DEF KeypadInv
<1> HIDE DEF p
<1>3. \A i \in 1..n : notifyList[i] \in Handles
  BY <1>1, ElementOfSeq
<1>4. s1 \in Seq(Handles) /\ Len(s1) = p - 1 /\ \A i \in 1..p - 1 : s1[i] = notifyList[i]
  <2>1. \A i \in 1..p - 1 : notifyList[i] \in Handles
    BY <1>1, <1>2, <1>3
  <2>2. /\ s1 \in Seq(Handles) /\ Len(s1) = IF 1 <= p - 1 THEN (p - 1) - 1 + 1 ELSE 0
        /\ \A i \in 1..(p - 1) - 1 + 1 : s1[i] = notifyList[1 + i - 1]
    BY <1>2, <2>1, SubSeqProperties
  <2>3. QED  BY <1>2, <2>2
<1>5. s2 \in Seq(Handles) /\ Len(s2) = n - p /\ \A i \in 1..n - p : s2[i] = notifyList[i + p]
  <2>1. \A i \in p + 1..n : notifyList[i] \in Handles
    BY <1>1, <1>2, <1>3
  <2>2. /\ s2 \in Seq(Handles) /\ Len(s2) = IF p + 1 <= n THEN n - (p + 1) + 1 ELSE 0
        /\ \A i \in 1..n - (p + 1) + 1 : s2[i] = notifyList[(p + 1) + i - 1]
    BY <1>2, <2>1, SubSeqProperties
  <2>3. QED  BY <1>2, <2>2
<1>6. notifyList' = s1 \o s2
  BY DEF Unlisted, RemoveAt, p
<1> HIDE DEF s1, s2
<1>7. /\ notifyList' \in Seq(Handles) /\ Len(notifyList') = n - 1
      /\ \A i \in 1..n - 1 :
           notifyList'[i] = IF i < p THEN notifyList[i] ELSE notifyList[i + 1]
  <2>1. /\ notifyList' \in Seq(Handles) /\ Len(notifyList') = (p - 1) + (n - p)
        /\ \A i \in 1..(p - 1) + (n - p) :
             notifyList'[i] = IF i <= p - 1 THEN s1[i] ELSE s2[i - (p - 1)]
    <3>1. /\ s1 \o s2 \in Seq(Handles) /\ Len(s1 \o s2) = Len(s1) + Len(s2)
          /\ \A i \in 1..Len(s1) + Len(s2) :
               (s1 \o s2)[i] = IF i <= Len(s1) THEN s1[i] ELSE s2[i - Len(s1)]
      BY <1>4, <1>5, ConcatProperties
    <3>2. QED  BY <1>4, <1>5, <1>6, <3>1
  <2>2. ASSUME NEW i \in 1..n - 1
        PROVE  notifyList'[i] = IF i < p THEN notifyList[i] ELSE notifyList[i + 1]
    <3>1. CASE i < p
      <4>1. i <= p - 1 /\ i \in 1..p - 1 /\ i \in 1..(p - 1) + (n - p)
        BY <1>2, <3>1
      <4>2. notifyList'[i] = s1[i]
        BY <2>1, <4>1
      <4>3. QED  BY <1>4, <3>1, <4>1, <4>2
    <3>2. CASE ~(i < p)
      <4>1. i - (p - 1) \in 1..n - p /\ i - (p - 1) + p = i + 1
        BY <1>2, <3>2
      <4>2. QED  BY <1>2, <1>5, <2>1, <3>2, <4>1
    <3>3. QED  BY <3>1, <3>2
  <2>3. QED  BY <1>2, <2>1, <2>2
<1>8. DOMAIN notifyList' = 1..n - 1
  BY <1>7, LenProperties
<1>9. DOMAIN reg' = DOMAIN reg \ {h} /\ \A i \in DOMAIN reg' : reg'[i] \in Registration
  BY DEF KeypadInv, KeypadTypeOK
<1>10. Range(notifyList) = DOMAIN reg /\ \A a, b \in 1..n : notifyList[a] = notifyList[b] => a = b
  BY <1>1 DEF KeypadInv, WalkOnLive, IsInjective
<1> DEFINE old(i) == IF i < p THEN i ELSE i + 1
<1>11. /\ \A i \in 1..n - 1 : old(i) \in 1..n /\ old(i) # p /\ notifyList'[i] = notifyList[old(i)]
       /\ \A i, j \in 1..n - 1 : old(i) = old(j) => i = j
       /\ \A j \in 1..n : j # p => \E i \in 1..n - 1 : j = old(i)
  <2>1. \A i \in 1..n - 1 : old(i) \in 1..n /\ old(i) # p /\ notifyList'[i] = notifyList[old(i)]
    BY <1>2, <1>7
  <2>2. \A i, j \in 1..n - 1 : old(i) = old(j) => i = j
    BY <1>2
  <2>3. ASSUME NEW j \in 1..n, j # p PROVE \E i \in 1..n - 1 : j = old(i)
    <3>1. CASE j < p
      BY <1>2, <3>1
    <3>2. CASE j > p
      <4>1. j - 1 \in 1..n - 1 /\ ~(j - 1 < p) /\ j = (j - 1) + 1
        BY <1>2, <3>2
      <4>2. QED  BY <4>1
    <3>3. QED  BY <1>2, <2>3, <3>1, <3>2
  <2>4. QED  BY <2>1, <2>2, <2>3
<1> HIDE DEF old
<1>12. Range(notifyList') = DOMAIN reg'
  <2>1. \A i \in 1..n - 1 : notifyList'[i] \in DOMAIN reg'
    <3> SUFFICES ASSUME NEW i \in 1..n - 1 PROVE notifyList'[i] \in DOMAIN reg'
      OBVIOUS
    <3>1. notifyList'[i] = notifyList[old(i)] /\ old(i) \in 1..n /\ old(i) # p
      BY <1>11
    <3>2. notifyList[old(i)] \in DOMAIN reg /\ notifyList[old(i)] # h
      BY <1>1, <1>2, <1>10, <3>1 DEF Range
    <3>3. QED  BY <1>9, <3>1, <3>2
  <2>2. ASSUME NEW g \in DOMAIN reg' PROVE \E i \in 1..n - 1 : notifyList'[i] = g
    <3>1. PICK j \in 1..n : notifyList[j] = g
      BY <1>1, <1>9, <1>10 DEF Range
    <3>2. j # p
      BY <1>2, <1>9, <3>1
    <3>3. QED  BY <1>11, <3>1, <3>2
  <2>3. QED  BY <1>8, <2>1, <2>2 DEF Range
<1>13. IsInjective(notifyList')
  BY <1>8, <1>10, <1>11 DEF IsInjective
<1>14. QED  BY <1>2, <1>7, <1>9, <1>12, <1>13 DEF p

-----------------------------------------------------------------------------
\* The queue of the readers after a step: a run, whose numbers say NoKeySkipped.
LEMMA RunIsNumbered ==
  ASSUME RunOf(queue, pressed)', lastRead' = lastRead, lastRead \in Nat
  PROVE  NoKeySkipped' /\ queue' \in Seq(Press) /\ Len(queue') <= Limit
<1>1. /\ queue' \in Seq(Press) /\ Len(queue') <= Limit
      /\ \A i \in 1..Len(queue') : queue'[i].n = pressed' - Len(queue') + i
      /\ \A i \in 1..Len(queue') : queue'[i].n > lastRead
  BY DEF RunOf, Limit
<1>2. ASSUME queue' # <<>> PROVE Head(queue').n > lastRead'
  <2>1. Len(queue') \in Nat /\ Len(queue') # 0
    BY <1>1, <1>2, EmptySeq
  <2>2. Head(queue') = queue'[1]
    BY <1>1, <1>2
  <2>3. QED  BY <1>1, <2>1, <2>2
<1>3. QED  BY <1>1, <1>2 DEF NoKeySkipped

\* A poll whose queue is handed on without its newest run being cut at the end.
LEMMA PollKeeps ==
  ASSUME KeypadAssumption, KeypadInv, NEW keys \in Accepted, KeypadTimerHandler(Presses(keys)),
         NoKeySkipped', queue' \in Seq(Press), Len(queue') <= Limit,
         lastRead' \in 0..pressed', handler.pc # "idle" \/ notifyQueue = <<>> \/ pending,
         UNCHANGED <<notifyList, reg, state, handler>>
  PROVE  KeypadInv'
<1>1. /\ pressed' \in pressed..MaxPresses /\ pending' \in BOOLEAN
      /\ notifyQueue' \in Seq(Press) /\ Len(notifyQueue') <= Limit
      /\ notifyQueue' # <<>> => pending' \/ notifyQueue # <<>>
  BY PollStep
<1>2. pressed' \in 0..MaxPresses
  BY <1>1 DEF KeypadInv, KeypadTypeOK, KeypadAssumption
<1>3. KeypadTypeOK'
  BY <1>1, <1>2 DEF KeypadInv, KeypadTypeOK, Limit
<1>4. NotifyServed'
  <2>1. pending => pending'
    BY DEF KeypadTimerHandler, KeypadInv, KeypadTypeOK
  <2>2. QED  BY <1>1, <2>1 DEF NotifyServed
<1>5. WalkOnLive'
  BY DEF KeypadInv, WalkOnLive
<1>6. QED  BY <1>3, <1>4, <1>5 DEF KeypadInv

LEMMA TimerKeeps ==
  ASSUME KeypadAssumption, KeypadInv, TimerEvent
  PROVE  KeypadInv'
<1>1. PICK keys \in Accepted : /\ KeypadTimerHandler(Presses(keys)) /\ queue' = Polled(Presses(keys))
  BY DEF TimerEvent
<1>2. UNCHANGED <<notifyList, reg, state, handler, lastRead>> /\ handler.pc = "idle"
  BY DEF TimerEvent
<1>3. lastRead \in 0..pressed /\ pressed' \in pressed..MaxPresses /\ pressed \in Nat
  BY <1>1, PollStep DEF KeypadInv, KeypadTypeOK, KeypadAssumption
<1>4. RunOf(queue, pressed)'
  BY <1>1, <1>2, PollStep DEF RunOf, Limit
<1>5. NoKeySkipped' /\ queue' \in Seq(Press) /\ Len(queue') <= Limit
  BY <1>2, <1>3, <1>4, RunIsNumbered
<1>6. lastRead' \in 0..pressed'
  BY <1>2, <1>3
<1>7. notifyQueue = <<>> \/ pending
  BY <1>2 DEF KeypadInv, NotifyServed
<1>8. QED  BY <1>1, <1>2, <1>5, <1>6, <1>7, PollKeeps

LEMMA ReadKeeps ==
  ASSUME KeypadAssumption, KeypadInv, NEW extended \in BOOLEAN, ReadKeyStroke(extended)
  PROVE  KeypadInv'
<1>1. PICK keys \in Accepted :
        LET filled == Polled(Presses(keys)) IN
        /\ KeypadTimerHandler(Presses(keys))
        /\ queue' = IF filled = <<>> THEN filled ELSE Tail(filled)
        /\ lastRead' = IF filled = <<>> \/ (~extended /\ PartialKey(Head(filled).key))
                       THEN lastRead ELSE Head(filled).n
  BY DEF ReadKeyStroke
<1>2. UNCHANGED <<notifyList, reg, state, handler>> /\ ClientRuns
  BY DEF ReadKeyStroke
<1> DEFINE filled == Polled(Presses(keys))
<1>3. /\ RunOf(filled, pressed') /\ pressed' \in pressed..MaxPresses /\ lastRead \in 0..pressed
      /\ pressed \in Nat
  BY <1>1, PollStep DEF KeypadInv, KeypadTypeOK, KeypadAssumption
<1>4. filled \in Seq(Press) /\ Len(filled) \in Nat /\ Len(filled) <= Limit
  BY <1>3, LenProperties DEF RunOf
<1>5. notifyQueue = <<>> \/ pending \/ handler.pc # "idle"
  BY DEF KeypadInv, NotifyServed
<1>6. CASE filled = <<>>
  <2>1. queue' = <<>> /\ lastRead' = lastRead /\ Len(queue') = 0
    BY <1>1, <1>6
  <2>2. NoKeySkipped' /\ queue' \in Seq(Press) /\ Len(queue') <= Limit
    BY <1>4, <1>6, <2>1 DEF NoKeySkipped
  <2>3. lastRead' \in 0..pressed'
    BY <1>3, <2>1
  <2>4. QED  BY <1>1, <1>2, <1>5, <2>2, <2>3, PollKeeps
<1>7. CASE filled # <<>>
  <2>1. queue' = Tail(filled)
    BY <1>1, <1>7
  <2> HIDE DEF filled
  <2>2. /\ queue' \in Seq(Press) /\ Len(queue') = Len(filled) - 1
        /\ \A i \in 1..Len(queue') : queue'[i] = filled[i + 1]
        /\ Head(filled) = filled[1] /\ 1 \in 1..Len(filled)
    BY <1>4, <1>7, <2>1, HeadTailProperties, EmptySeq
  <2>3. /\ \A i \in 1..Len(filled) : filled[i].n = pressed' - Len(filled) + i
        /\ \A i \in 1..Len(filled) : filled[i].n > lastRead
    BY <1>3 DEF RunOf
  <2>4. lastRead' = lastRead \/ lastRead' = filled[1].n
    BY <1>1, <2>2 DEF filled
  <2>5. ASSUME NEW i \in 1..Len(queue')
        PROVE  queue'[i].n = pressed' - Len(queue') + i /\ queue'[i].n > lastRead'
    <3>1. i + 1 \in 1..Len(filled) /\ queue'[i] = filled[i + 1]
      BY <1>4, <2>2
    <3>2. queue'[i].n = pressed' - Len(filled) + (i + 1) /\ queue'[i].n > lastRead
      BY <2>3, <3>1
    <3>3. filled[1].n = pressed' - Len(filled) + 1
      BY <2>2, <2>3
    <3>4. pressed' - Len(filled) + (i + 1) > pressed' - Len(filled) + 1
      BY <1>3, <1>4
    <3>5. QED  BY <1>3, <1>4, <2>2, <2>4, <3>2, <3>3, <3>4
  <2>6. NoKeySkipped'
    <3>1. ASSUME queue' # <<>> PROVE Head(queue').n > lastRead'
      <4>1. Head(queue') = queue'[1] /\ 1 \in 1..Len(queue')
        BY <1>4, <2>2, <3>1, EmptySeq
      <4>2. QED  BY <2>5, <4>1
    <3>2. QED  BY <2>5, <3>1 DEF NoKeySkipped
  <2>7. lastRead' \in 0..pressed'
    <3>1. filled[1].n = pressed' - Len(filled) + 1 /\ filled[1].n > lastRead
      BY <2>2, <2>3
    <3>2. QED  BY <1>3, <1>4, <2>2, <2>4, <3>1
  <2>8. Len(queue') <= Limit
    BY <1>4, <2>2 DEF Limit, KeypadAssumption
  <2>9. QED  BY <1>1, <1>2, <1>5, <2>2, <2>6, <2>7, <2>8, PollKeeps
<1>8. QED  BY <1>6, <1>7

\* The wait events drop keys at the front only.
LEMMA FromFullKeyIs ==
  ASSUME NEW q \in Seq(Press)
  PROVE  /\ FromFullKey(q) \in Seq(Press) /\ Len(FromFullKey(q)) <= Len(q)
         /\ \A i \in 1..Len(FromFullKey(q)) :
              FromFullKey(q)[i] = q[i + (Len(q) - Len(FromFullKey(q)))]
<1> DEFINE partials == {i \in 1..Len(q) : \A j \in 1..i : PartialKey(q[j].key)}
           c == Cardinality(partials)
           n == Len(q)
<1>1. n \in Nat /\ \A i \in 1..n : q[i] \in Press
  BY LenProperties, ElementOfSeq
<1>2. IsFiniteSet(1..n) /\ Cardinality(1..n) = n /\ partials \subseteq 1..n
  BY <1>1, UpTo
<1>3. c \in Nat /\ c <= n
  BY <1>2, FS_Subset, FS_CardinalityType
<1>4. FromFullKey(q) = SubSeq(q, c + 1, n)
  BY DEF FromFullKey
<1> HIDE DEF c
<1>5. \A i \in c + 1..n : q[i] \in Press
  BY <1>1, <1>3
<1>6. /\ SubSeq(q, c + 1, n) \in Seq(Press)
      /\ Len(SubSeq(q, c + 1, n)) = IF c + 1 <= n THEN n - (c + 1) + 1 ELSE 0
      /\ \A i \in 1..n - (c + 1) + 1 : SubSeq(q, c + 1, n)[i] = q[(c + 1) + i - 1]
  <2>1. c + 1 \in Int /\ n \in Int
    BY <1>1, <1>3
  <2>2. QED  BY <1>5, <2>1, SubSeqProperties
<1>7. Len(SubSeq(q, c + 1, n)) = n - c /\ n - c <= n
  BY <1>1, <1>3, <1>6
<1>8. \A i \in 1..n - c : SubSeq(q, c + 1, n)[i] = q[i + (n - (n - c))]
  BY <1>1, <1>3, <1>6
<1>9. QED  BY <1>4, <1>6, <1>7, <1>8

LEMMA WaitKeeps ==
  ASSUME KeypadAssumption, KeypadInv, KeypadWaitForKey
  PROVE  KeypadInv'
<1>1. PICK keys \in Accepted : /\ KeypadTimerHandler(Presses(keys))
                               /\ queue' = FromFullKey(Polled(Presses(keys)))
  BY DEF KeypadWaitForKey
<1>2. UNCHANGED <<notifyList, reg, state, handler, lastRead>> /\ ClientRuns
  BY DEF KeypadWaitForKey
<1> DEFINE filled == Polled(Presses(keys))
<1>3. /\ RunOf(filled, pressed') /\ pressed' \in pressed..MaxPresses /\ pressed \in Nat
      /\ lastRead \in 0..pressed
  BY <1>1, PollStep DEF KeypadInv, KeypadTypeOK, KeypadAssumption
<1> HIDE DEF filled
<1>4. /\ filled \in Seq(Press) /\ Len(filled) \in Nat /\ Len(filled) <= Limit
      /\ \A i \in 1..Len(filled) : filled[i].n = pressed' - Len(filled) + i
      /\ \A i \in 1..Len(filled) : filled[i].n > lastRead
  BY <1>3, LenProperties DEF RunOf
<1>5. /\ queue' \in Seq(Press) /\ Len(queue') <= Len(filled) /\ Len(queue') \in Nat
      /\ \A i \in 1..Len(queue') : queue'[i] = filled[i + (Len(filled) - Len(queue'))]
  BY <1>1, <1>4, FromFullKeyIs, LenProperties DEF filled
<1>6. pressed' \in Nat /\ Len(queue') <= Limit
  BY <1>3, <1>4, <1>5 DEF Limit, KeypadAssumption
<1>7. RunOf(queue', pressed')
  BY <1>4, <1>5, <1>6, SuffixIsRun
<1>8. RunOf(queue, pressed)'
  BY <1>2, <1>7 DEF RunOf, Limit
<1>9. NoKeySkipped'
  BY <1>2, <1>3, <1>8, RunIsNumbered
<1>10. lastRead' \in 0..pressed'
  BY <1>2, <1>3
<1>11. notifyQueue = <<>> \/ pending \/ handler.pc # "idle"
  BY DEF KeypadInv, NotifyServed
<1>12. QED  BY <1>1, <1>2, <1>5, <1>6, <1>9, <1>10, <1>11, PollKeeps

\* The services that poll nothing.
LEMMA ServiceKeeps ==
  ASSUME KeypadAssumption, KeypadInv,
         \/ KeypadEfiReset
         \/ \E bits \in SUBSET Bits : KeypadSetState(bits)
         \/ \E k \in KeyData, fn \in Functions : KeypadRegisterKeyNotify(k, fn)
         \/ \E h \in Handles : KeypadUnregisterKeyNotify(h)
  PROVE  KeypadInv'
<1>1. UNCHANGED <<pending, history>>
  BY DEF KeypadEfiReset, KeypadSetState, KeypadRegisterKeyNotify, KeypadUnregisterKeyNotify
<1>2. CASE KeypadEfiReset
  <2>1. queue' = <<>> /\ notifyQueue' = <<>> /\ state' = {} /\ UNCHANGED <<notifyList, reg, handler>>
    BY <1>2 DEF KeypadEfiReset
  <2>2. <<>> \in Seq(Press) /\ Len(<<>>) = 0 /\ 0 <= Limit
    BY EmptySeq DEF Limit, KeypadAssumption
  <2>3. KeypadTypeOK'
    BY <1>1, <2>1, <2>2 DEF KeypadInv, KeypadTypeOK, Limit, history
  <2>4. NoKeySkipped' /\ NotifyServed' /\ WalkOnLive'
    BY <1>1, <2>1, <2>2 DEF KeypadInv, NoKeySkipped, NotifyServed, WalkOnLive
  <2>5. QED  BY <2>3, <2>4 DEF KeypadInv
<1>3. CASE \E bits \in SUBSET Bits : KeypadSetState(bits)
  <2>1. PICK bits \in SUBSET Bits : KeypadSetState(bits)
    BY <1>3
  <2>2. state' \subseteq Bits /\ UNCHANGED <<queue, notifyQueue, notifyList, reg, handler>>
    BY <2>1 DEF KeypadSetState, StateOf
  <2>3. KeypadTypeOK'
    BY <1>1, <2>2 DEF KeypadInv, KeypadTypeOK, Limit, history
  <2>4. NoKeySkipped' /\ NotifyServed' /\ WalkOnLive'
    BY <1>1, <2>2 DEF KeypadInv, NoKeySkipped, NotifyServed, WalkOnLive, history
  <2>5. QED  BY <2>3, <2>4 DEF KeypadInv
<1>4. CASE \E k \in KeyData, fn \in Functions : KeypadRegisterKeyNotify(k, fn)
  <2>1. PICK k \in KeyData, fn \in Functions : KeypadRegisterKeyNotify(k, fn)
    BY <1>4
  <2>2. UNCHANGED <<queue, notifyQueue, state, handler>>
    BY <2>1 DEF KeypadRegisterKeyNotify
  <2>3. NoKeySkipped' /\ NotifyServed'
    BY <1>1, <2>2 DEF KeypadInv, NoKeySkipped, NotifyServed, history
  <2>4. CASE UNCHANGED <<notifyList, reg>>
    <3>1. KeypadTypeOK'
      BY <1>1, <2>2, <2>4 DEF KeypadInv, KeypadTypeOK, Limit, history
    <3>2. WalkOnLive'
      BY <2>2, <2>4 DEF KeypadInv, WalkOnLive
    <3>3. QED  BY <2>3, <3>1, <3>2 DEF KeypadInv
  <2>5. ASSUME NEW h \in Handles \ DOMAIN reg,
               notifyList' = Append(notifyList, h),
               reg' = [i \in DOMAIN reg \union {h} |->
                         IF i = h THEN [key |-> k, fn |-> fn] ELSE reg[i]]
        PROVE  KeypadInv'
    <3>1. /\ notifyList' \in Seq(Handles) /\ DOMAIN reg' = DOMAIN reg \union {h}
          /\ \A i \in DOMAIN reg' : reg'[i] \in Registration
          /\ Range(notifyList') = DOMAIN reg' /\ IsInjective(notifyList')
      BY <2>5, RegisterStep
    <3>2. KeypadTypeOK'
      BY <1>1, <2>2, <3>1 DEF KeypadInv, KeypadTypeOK, Limit, history
    <3>3. WalkOnLive'
      BY <2>2, <3>1 DEF KeypadInv, WalkOnLive
    <3>4. QED  BY <2>3, <3>2, <3>3 DEF KeypadInv
  <2>6. QED  BY <2>1, <2>4, <2>5 DEF KeypadRegisterKeyNotify
<1>5. CASE \E h \in Handles : KeypadUnregisterKeyNotify(h)
  <2>1. PICK h \in Handles : KeypadUnregisterKeyNotify(h)
    BY <1>5
  <2>2. /\ UNCHANGED <<queue, notifyQueue, state>> /\ h \in Range(notifyList)
        /\ notifyList' = Unlisted(h) /\ reg' = [i \in DOMAIN reg \ {h} |-> reg[i]]
        /\ handler' = IF InFunction /\ h = handler.link THEN [handler EXCEPT !.pc = "freed"]
                      ELSE handler
    BY <2>1 DEF KeypadUnregisterKeyNotify
  <2>3. h \in DOMAIN reg
    BY <2>2 DEF KeypadInv, WalkOnLive
  <2>4. /\ notifyList' \in Seq(Handles) /\ DOMAIN reg' = DOMAIN reg \ {h}
        /\ \A i \in DOMAIN reg' : reg'[i] \in Registration
        /\ Range(notifyList') = DOMAIN reg' /\ IsInjective(notifyList')
    BY <2>2, <2>3, UnregisterStep
  <2>9. /\ handler' \in [pc : HandlerAt, press : Press, link : Handles \union {End}]
        /\ handler'.pc = "call" => handler.pc = "call" /\ handler'.link = handler.link /\ h # handler.link
        /\ handler'.pc = "idle" => handler.pc = "idle"
    <3>1. handler \in [pc : HandlerAt, press : Press, link : Handles \union {End}]
      BY DEF KeypadInv, KeypadTypeOK
    <3>2. CASE InFunction /\ h = handler.link
      <4>1. handler' = [handler EXCEPT !.pc = "freed"]
        BY <2>2, <3>2
      <4>2. QED  BY <3>1, <4>1 DEF HandlerAt
    <3>3. CASE ~(InFunction /\ h = handler.link)
      <4>1. handler' = handler
        BY <2>2, <3>3
      <4>2. QED  BY <3>1, <3>3, <4>1 DEF InFunction
    <3>4. QED  BY <3>2, <3>3
  <2>5. KeypadTypeOK'
    BY <1>1, <2>2, <2>4, <2>9 DEF KeypadInv, KeypadTypeOK, Limit, history
  <2>6. WalkOnLive'
    BY <2>4, <2>9 DEF KeypadInv, WalkOnLive
  <2>7. NoKeySkipped' /\ NotifyServed'
    BY <1>1, <2>2, <2>9 DEF KeypadInv, NoKeySkipped, NotifyServed, history
  <2>8. QED  BY <2>5, <2>6, <2>7 DEF KeypadInv
<1>6. QED  BY <1>2, <1>3, <1>4, <1>5

\* The dispatcher and the notification handler.
LEMMA HandlerKeeps ==
  ASSUME KeypadAssumption, KeypadInv, Dispatch \/ KeyNotifyProcessHandler
  PROVE  KeypadInv'
<1>1. UNCHANGED <<queue, notifyList, reg, state, history>>
  BY DEF Dispatch, KeyNotifyProcessHandler, PopForNotify, NotifyQueueEmpty, FunctionReturns,
         FreedFunctionReturns, console
<1>2. NoKeySkipped'
  BY <1>1 DEF KeypadInv, NoKeySkipped, history
<1>3. /\ notifyQueue \in Seq(Press) /\ Len(notifyQueue) <= Limit /\ Len(notifyQueue) \in Nat
      /\ notifyList \in Seq(Handles) /\ WalkOnLive
      /\ handler \in [pc : HandlerAt, press : Press, link : Handles \union {End}]
      /\ handler.press \in Press
  BY LenProperties DEF KeypadInv, KeypadTypeOK
<1>4. NoPress \in Press
  BY DEF NoPress, Press, KeyData, KeypadAssumption
<1>5. SUFFICES /\ notifyQueue' \in Seq(Press) /\ Len(notifyQueue') <= Limit /\ pending' \in BOOLEAN
               /\ handler' \in [pc : HandlerAt, press : Press, link : Handles \union {End}]
               /\ NotifyServed' /\ (handler'.pc = "call" => handler'.link \in DOMAIN reg)
  BY <1>1, <1>2 DEF KeypadInv, KeypadTypeOK, WalkOnLive, Limit, history
<1>6. CASE Dispatch
  <2>1. pending' = FALSE /\ handler' = NextKey /\ UNCHANGED notifyQueue
    BY <1>6 DEF Dispatch
  <2>2. QED  BY <1>3, <1>4, <2>1 DEF NextKey, Idle, NotifyServed, HandlerAt
<1>7. CASE PopForNotify
  <2>1. /\ notifyQueue # <<>> /\ notifyQueue' = Tail(notifyQueue) /\ UNCHANGED pending
        /\ CallFirst(Head(notifyQueue), 1)
    BY <1>7 DEF PopForNotify
  <2>2. /\ Head(notifyQueue) \in Press /\ notifyQueue' \in Seq(Press)
        /\ Len(notifyQueue') = Len(notifyQueue) - 1
    BY <1>3, <2>1, HeadTailProperties
  <2>3. \/ handler' = NextKey
        \/ /\ handler'.pc = "call" /\ handler' \in [pc : {"call"}, press : Press, link : Handles]
           /\ handler'.link \in DOMAIN reg
    BY <1>3, <2>1, <2>2, CallFirstIs
  <2>4. Len(notifyQueue') <= Limit
    BY <1>3, <2>2 DEF Limit, KeypadAssumption
  <2>5. pending' \in BOOLEAN
    BY <2>1 DEF KeypadInv, KeypadTypeOK
  <2>6. QED  BY <1>4, <2>2, <2>3, <2>4, <2>5 DEF NextKey, Idle, NotifyServed, HandlerAt
<1>8. CASE NotifyQueueEmpty
  <2>1. notifyQueue = <<>> /\ handler' = Idle /\ UNCHANGED <<notifyQueue, pending>>
    BY <1>8 DEF NotifyQueueEmpty, console
  <2>2. pending' \in BOOLEAN
    BY <2>1 DEF KeypadInv, KeypadTypeOK
  <2>3. QED  BY <1>3, <1>4, <2>1, <2>2 DEF Idle, NotifyServed, HandlerAt
<1>9. CASE FunctionReturns
  <2>1. /\ handler.pc = "call" /\ UNCHANGED <<notifyQueue, pending>>
        /\ CallFirst(handler.press, Place(handler.link) + 1)
    BY <1>9 DEF FunctionReturns, console
  <2>2. handler.link \in DOMAIN reg
    BY <1>3, <2>1 DEF WalkOnLive
  <2>3. Place(handler.link) + 1 \in Nat
    BY <1>3, <2>2, PlaceIs, LenProperties
  <2>4. \/ handler' = NextKey
        \/ /\ handler'.pc = "call" /\ handler' \in [pc : {"call"}, press : Press, link : Handles]
           /\ handler'.link \in DOMAIN reg
    BY <1>3, <2>1, <2>3, CallFirstIs
  <2>5. pending' \in BOOLEAN
    BY <2>1 DEF KeypadInv, KeypadTypeOK
  <2>6. QED  BY <1>3, <1>4, <2>1, <2>4, <2>5 DEF NextKey, Idle, NotifyServed, HandlerAt
<1>10. CASE FreedFunctionReturns
  <2>1. UNCHANGED <<notifyQueue, pending>> /\ pending' \in BOOLEAN
    BY <1>10 DEF FreedFunctionReturns, console, KeypadInv, KeypadTypeOK
  <2>2. CASE handler' = [Idle EXCEPT !.pc = "lost"]
    BY <1>3, <1>4, <2>1, <2>2 DEF Idle, NotifyServed, HandlerAt
  <2>3. CASE \E from \in 1..Len(notifyList) + 1 : CallFirst(handler.press, from)
    <3>1. PICK from \in 1..Len(notifyList) + 1 : CallFirst(handler.press, from)
      BY <2>3
    <3>2. from \in Nat
      BY <1>3, LenProperties
    <3>3. \/ handler' = NextKey
          \/ /\ handler'.pc = "call" /\ handler' \in [pc : {"call"}, press : Press, link : Handles]
             /\ handler'.link \in DOMAIN reg
      BY <1>3, <3>1, <3>2, CallFirstIs
    <3>4. QED  BY <1>3, <1>4, <2>1, <3>3 DEF NextKey, Idle, NotifyServed, HandlerAt
  <2>4. QED  BY <1>10, <2>2, <2>3 DEF FreedFunctionReturns
<1>11. QED  BY <1>6, <1>7, <1>8, <1>9, <1>10 DEF KeyNotifyProcessHandler

LEMMA KeypadStep == KeypadAssumption /\ KeypadInv /\ [Next]_vars => KeypadInv'
<1> SUFFICES ASSUME KeypadAssumption, KeypadInv, [Next]_vars PROVE KeypadInv'
  OBVIOUS
<1>1. CASE TimerEvent
  BY <1>1, TimerKeeps
<1>2. CASE Client
  BY <1>2, ReadKeeps, WaitKeeps, ServiceKeeps DEF Client
<1>3. CASE Dispatch \/ KeyNotifyProcessHandler
  BY <1>3, HandlerKeeps
<1>4. CASE UNCHANGED vars
  BY <1>4 DEF vars, console, history, KeypadInv, KeypadTypeOK, Limit, NoKeySkipped,
              NotifyServed, WalkOnLive
<1>5. QED  BY <1>1, <1>2, <1>3, <1>4 DEF Next

LEMMA KeypadAlways == Init /\ [][Next]_vars => []KeypadInv
BY KeypadInit, KeypadStep, KeypadAssumption, PTL

\* Every poll, read, wait, reset and overflow leaves in the readers' queue the
\* newest run of keys, without a gap and newer than what was read last.
THEOREM KeysInARow == Spec => []NoKeySkipped
<1>1. KeypadInv => NoKeySkipped
  BY DEF KeypadInv
<1>2. QED  BY KeypadAlways, <1>1, PTL DEF Spec

\* Keys that wait for their notification are never left without a signalled
\* event or a handler at work.
THEOREM NothingLeftWaiting == Spec => []NotifyServed
<1>1. KeypadInv => NotifyServed
  BY DEF KeypadInv
<1>2. QED  BY KeypadAlways, <1>1, PTL DEF Spec

\* The walk of NotifyList stands on an allocated registration, unless the
\* function called took that very registration away, and the list names each
\* allocated registration once, whatever becomes of a walk.
THEOREM WalkIsSafe == Spec => []WalkOnLive
<1>1. KeypadInv => WalkOnLive
  BY DEF KeypadInv
<1>2. QED  BY KeypadAlways, <1>1, PTL DEF Spec

-----------------------------------------------------------------------------
\* The notify queue holds presses in the order they were made.
QueueOrdered ==
  /\ \A i \in 1..Len(notifyQueue) : notifyQueue[i].n \in 1..pressed
  /\ \A i, j \in 1..Len(notifyQueue) : i <= j => notifyQueue[i].n <= notifyQueue[j].n

\* A poll appends copies of its own presses, in order, and only drops others.
LEMMA PollOrder ==
  ASSUME KeypadAssumption, KeypadInv, QueueOrdered, NEW keys \in Accepted,
         KeypadTimerHandler(Presses(keys))
  PROVE  /\ QueueOrdered'
         /\ \A i \in 1..Len(notifyQueue') :
              \/ \E j \in 1..Len(notifyQueue) : notifyQueue'[i] = notifyQueue[j]
              \/ /\ notifyQueue'[i].n > pressed
                 /\ Matching(notifyQueue'[i].key) # {}
<1> DEFINE presses == Presses(keys)
           copies  == ToNotify(presses)
           waiting == notifyQueue \o copies
           all     == Len(notifyQueue) + Len(copies)
<1>1. /\ pressed \in 0..MaxPresses /\ MaxPresses \in Nat /\ pressed \in Nat
      /\ notifyQueue \in Seq(Press) /\ notifyList \in Seq(Handles)
      /\ Len(notifyQueue) \in Nat /\ Len(notifyList) \in Nat
  BY LenProperties DEF KeypadInv, KeypadTypeOK, KeypadAssumption
<1>2. /\ presses \in Seq(Press) /\ Len(presses) = Len(keys) /\ Len(keys) \in Nat
      /\ \A i \in 1..Len(keys) : presses[i].n = pressed + i
  BY <1>1, PollIs
<1>3. pressed' = pressed + Len(keys) /\ notifyQueue' = Kept(waiting)
  BY <1>2 DEF KeypadTimerHandler
<1> HIDE DEF presses
<1>4. /\ copies \in Seq(Press) /\ Len(copies) \in Nat
      /\ \A c \in 1..Len(copies) :
           /\ Copied(presses, c) \in 1..Len(keys) /\ copies[c] = presses[Copied(presses, c)]
           /\ copies[c].n = pressed + Copied(presses, c)
      /\ \A c, e \in 1..Len(copies) : c <= e => Copied(presses, c) <= Copied(presses, e)
  <2>1. /\ copies \in Seq(Press) /\ Len(copies) = CopyCount(presses, Len(presses))
        /\ \A c \in 1..Len(copies) :
             \E i \in 1..Len(presses) : i = Copied(presses, c) /\ copies[c] = presses[i]
        /\ \A c, e \in 1..Len(copies) : c <= e => Copied(presses, c) <= Copied(presses, e)
    BY <1>1, <1>2, CopiesAre
  <2>2. Len(copies) \in Nat
    BY <2>1, LenProperties
  <2> HIDE DEF copies
  <2>3. QED  BY <1>2, <2>1, <2>2
<1>5. \A c \in 1..Len(copies) : Matching(copies[c].key) # {}
  <2> SUFFICES ASSUME NEW c \in 1..Len(copies) PROVE Matching(copies[c].key) # {}
    OBVIOUS
  <2> DEFINE i == Copied(presses, c)
  <2>1. Len(copies) = CopyCount(presses, Len(presses))
    BY <1>1, <1>2, CopiesAre
  <2>2. i \in 1..Len(presses) /\ CopyCount(presses, i - 1) < c /\ c <= CopyCount(presses, i)
    BY <1>1, <1>2, <2>1, CopiedIs
  <2>3. copies[c] = presses[i]
    BY <1>4
  <2> HIDE DEF i
  <2>4. CopyCount(presses, i - 1) # CopyCount(presses, i)
    <3>1. CopyCount(presses, i) \in Nat /\ CopyCount(presses, i - 1) \in Nat
      BY <1>1, <1>2, <2>2, CountsAre
    <3>2. QED  BY <2>2, <3>1
  <2>5. Copies(presses, i) # Copies(presses, i - 1)
    BY <2>4 DEF CopyCount
  <2>6. PICK d \in (1..i) \X (1..Len(notifyList)) :
          d[2] \in Matching(presses[d[1]].key) /\ d \notin Copies(presses, i - 1)
    <3>1. Copies(presses, i - 1) \subseteq Copies(presses, i)
      BY <1>2, <2>2 DEF Copies
    <3>2. PICK d : d \in Copies(presses, i) /\ d \notin Copies(presses, i - 1)
      BY <2>5, <3>1
    <3>3. QED  BY <3>2 DEF Copies
  <2>7. d[1] \in 1..i /\ d[2] \in 1..Len(notifyList) /\ d = <<d[1], d[2]>>
    BY <2>6
  <2>8. d[1] \notin 1..i - 1
    BY <2>6, <2>7 DEF Copies
  <2>9. d[1] = i
    BY <1>2, <2>2, <2>7, <2>8
  <2>10. QED  BY <2>3, <2>6, <2>9
<1>6. /\ waiting \in Seq(Press) /\ Len(waiting) = all
      /\ \A i \in 1..all : waiting[i] = IF i <= Len(notifyQueue) THEN notifyQueue[i]
                                        ELSE copies[i - Len(notifyQueue)]
  BY <1>1, <1>4, ConcatProperties
<1> HIDE DEF copies
<1>7. ASSUME NEW i \in 1..all
      PROVE  /\ waiting[i].n \in 1..pressed'
             /\ \/ i \in 1..Len(notifyQueue) /\ waiting[i] = notifyQueue[i]
                \/ /\ i - Len(notifyQueue) \in 1..Len(copies)
                   /\ waiting[i] = copies[i - Len(notifyQueue)] /\ waiting[i].n > pressed
  <2>1. CASE i <= Len(notifyQueue)
    <3>1. i \in 1..Len(notifyQueue) /\ waiting[i] = notifyQueue[i]
      BY <1>1, <1>6, <2>1
    <3>2. notifyQueue[i].n \in 1..pressed
      BY <3>1 DEF QueueOrdered
    <3>3. QED  BY <1>1, <1>2, <1>3, <3>1, <3>2
  <2>2. CASE ~(i <= Len(notifyQueue))
    <3> DEFINE c == i - Len(notifyQueue)
    <3>1. c \in 1..Len(copies) /\ waiting[i] = copies[c]
      BY <1>1, <1>4, <1>6, <2>2
    <3>2. waiting[i].n = pressed + Copied(presses, c) /\ Copied(presses, c) \in 1..Len(keys)
      BY <1>4, <3>1
    <3> HIDE DEF c
    <3>3. waiting[i].n \in 1..pressed' /\ waiting[i].n > pressed
      BY <1>1, <1>2, <1>3, <3>2
    <3>4. QED  BY <3>1, <3>3 DEF c
  <2>3. QED  BY <2>1, <2>2
<1>8. ASSUME NEW i \in 1..all, NEW j \in 1..all, i <= j
      PROVE  waiting[i].n <= waiting[j].n
  <2>1. CASE j <= Len(notifyQueue)
    <3>1. i \in 1..Len(notifyQueue) /\ j \in 1..Len(notifyQueue)
      BY <1>1, <1>8, <2>1
    <3>2. QED  BY <1>6, <1>8, <3>1 DEF QueueOrdered
  <2>2. CASE i <= Len(notifyQueue) /\ ~(j <= Len(notifyQueue))
    <3>1. i \in 1..Len(notifyQueue) /\ waiting[i] = notifyQueue[i] /\ j \notin 1..Len(notifyQueue)
      BY <1>1, <1>6, <2>2
    <3>2. waiting[i].n \in 1..pressed /\ waiting[j].n > pressed /\ waiting[j].n \in 1..pressed'
      BY <1>7, <3>1 DEF QueueOrdered
    <3>3. QED  BY <1>1, <3>2
  <2>3. CASE ~(i <= Len(notifyQueue)) /\ ~(j <= Len(notifyQueue))
    <3> DEFINE c == i - Len(notifyQueue)
               e == j - Len(notifyQueue)
    <3>1. c \in 1..Len(copies) /\ e \in 1..Len(copies) /\ c <= e
          /\ waiting[i] = copies[c] /\ waiting[j] = copies[e]
      BY <1>1, <1>4, <1>6, <1>8, <2>3
    <3> HIDE DEF c, e
    <3>2. /\ waiting[i].n = pressed + Copied(presses, c)
          /\ waiting[j].n = pressed + Copied(presses, e)
          /\ Copied(presses, c) \in 1..Len(keys) /\ Copied(presses, e) \in 1..Len(keys)
          /\ Copied(presses, c) <= Copied(presses, e)
      BY <1>4, <3>1
    <3>3. QED  BY <1>1, <3>2
  <2>4. QED  BY <1>1, <1>4, <1>8, <2>1, <2>2, <2>3
<1>9. /\ Len(notifyQueue') \in Nat /\ Len(notifyQueue') <= all
      /\ \A i \in 1..Len(notifyQueue') :
           /\ notifyQueue'[i] = waiting[i + (all - Len(notifyQueue'))]
           /\ i + (all - Len(notifyQueue')) \in 1..all
  <2>1. /\ Kept(waiting) \in Seq(Press) /\ Len(Kept(waiting)) <= Len(waiting)
        /\ \A i \in 1..Len(Kept(waiting)) :
             Kept(waiting)[i] = waiting[i + (Len(waiting) - Len(Kept(waiting)))]
    BY <1>6, KeptIs
  <2> HIDE DEF waiting
  <2>2. Len(notifyQueue') \in Nat /\ all \in Nat
    BY <1>1, <1>3, <1>4, <2>1, LenProperties
  <2> HIDE DEF all
  <2>3. QED  BY <1>3, <1>6, <2>1, <2>2
<1>10. QueueOrdered'
  <2>1. \A i \in 1..Len(notifyQueue') : notifyQueue'[i].n \in 1..pressed'
    BY <1>7, <1>9
  <2>2. ASSUME NEW i \in 1..Len(notifyQueue'), NEW j \in 1..Len(notifyQueue'), i <= j
        PROVE  notifyQueue'[i].n <= notifyQueue'[j].n
    <3>1. all \in Nat
      BY <1>1, <1>4
    <3> HIDE DEF all, waiting
    <3>2. i + (all - Len(notifyQueue')) <= j + (all - Len(notifyQueue'))
      BY <1>9, <2>2, <3>1
    <3>3. QED  BY <1>8, <1>9, <3>2
  <2>3. QED  BY <2>1, <2>2 DEF QueueOrdered
<1>11. \A i \in 1..Len(notifyQueue') :
         \/ \E j \in 1..Len(notifyQueue) : notifyQueue'[i] = notifyQueue[j]
         \/ notifyQueue'[i].n > pressed /\ Matching(notifyQueue'[i].key) # {}
  <2> SUFFICES ASSUME NEW i \in 1..Len(notifyQueue')
               PROVE  \/ \E j \in 1..Len(notifyQueue) : notifyQueue'[i] = notifyQueue[j]
                      \/ notifyQueue'[i].n > pressed /\ Matching(notifyQueue'[i].key) # {}
    OBVIOUS
  <2> DEFINE j == i + (all - Len(notifyQueue'))
  <2>1. j \in 1..all /\ notifyQueue'[i] = waiting[j]
    BY <1>9
  <2> HIDE DEF j, all, waiting
  <2>2. QED  BY <1>5, <1>7, <2>1
<1>12. QED  BY <1>10, <1>11

\* The handler only takes the oldest press from the notify queue, and calls
\* functions for that.
LEMMA HandlerPops ==
  ASSUME KeypadAssumption, KeypadInv, KeyNotifyProcessHandler
  PROVE  /\ Len(notifyQueue') <= Len(notifyQueue) /\ Len(notifyQueue') \in Nat
         /\ \A i \in 1..Len(notifyQueue') :
              notifyQueue'[i] = notifyQueue[i + (Len(notifyQueue) - Len(notifyQueue'))]
         /\ handler'.pc = "call" =>
              /\ handler'.link \in Handles /\ handler'.link \in DOMAIN reg
              /\ IsKeyRegistered(reg[handler'.link].key, handler'.press.key)
              /\ \/ InFunction /\ handler'.press = handler.press
                 \/ Len(notifyQueue) > 0 /\ handler'.press = notifyQueue[1]
                    /\ Len(notifyQueue') = Len(notifyQueue) - 1
         /\ handler'.pc # "freed" /\ (handler'.pc = "lost" => handler.pc = "freed")
<1>1. /\ notifyQueue \in Seq(Press) /\ notifyList \in Seq(Handles) /\ WalkOnLive
      /\ Len(notifyQueue) \in Nat /\ handler.press \in Press
  BY LenProperties DEF KeypadInv, KeypadTypeOK
<1>2. CASE PopForNotify
  <2>1. /\ notifyQueue # <<>> /\ notifyQueue' = Tail(notifyQueue)
        /\ CallFirst(Head(notifyQueue), 1)
    BY <1>2 DEF PopForNotify
  <2>2. /\ Head(notifyQueue) \in Press /\ Head(notifyQueue) = notifyQueue[1]
        /\ Len(notifyQueue') = Len(notifyQueue) - 1 /\ Len(notifyQueue) > 0
        /\ \A i \in 1..Len(notifyQueue') : notifyQueue'[i] = notifyQueue[i + 1]
    BY <1>1, <2>1, HeadTailProperties, EmptySeq
  <2>6. handler'.pc \in {"pop", "call"}
    BY <1>1, <2>1, <2>2, CallFirstIs
  <2>3. handler'.pc = "call" =>
          /\ handler'.press = Head(notifyQueue) /\ handler'.link \in Handles /\ handler'.link \in DOMAIN reg
          /\ IsKeyRegistered(reg[handler'.link].key, handler'.press.key)
    BY <1>1, <2>1, <2>2, CallFirstIs DEF Matching
  <2>4. Len(notifyQueue) - Len(notifyQueue') = 1
    BY <1>1, <2>2
  <2>5. QED  BY <1>1, <2>2, <2>3, <2>4, <2>6
<1>3. CASE NotifyQueueEmpty
  <2>1. notifyQueue' = notifyQueue /\ handler'.pc = "idle"
    BY <1>3 DEF NotifyQueueEmpty, console, Idle
  <2>2. QED  BY <1>1, <2>1
<1>4. CASE FunctionReturns
  <2>1. /\ notifyQueue' = notifyQueue /\ handler.pc = "call"
        /\ CallFirst(handler.press, Place(handler.link) + 1)
    BY <1>4 DEF FunctionReturns, console
  <2>2. Place(handler.link) + 1 \in Nat
    BY <1>1, <2>1, PlaceIs, LenProperties DEF WalkOnLive
  <2>3. handler'.pc = "call" =>
          /\ handler'.press = handler.press /\ handler'.link \in Handles /\ handler'.link \in DOMAIN reg
          /\ IsKeyRegistered(reg[handler'.link].key, handler'.press.key)
    BY <1>1, <2>1, <2>2, CallFirstIs DEF Matching
  <2>5. handler'.pc \in {"pop", "call"}
    BY <1>1, <2>1, <2>2, CallFirstIs
  <2>4. QED  BY <1>1, <2>1, <2>3, <2>5 DEF InFunction
<1>5. CASE FreedFunctionReturns
  <2>1. notifyQueue' = notifyQueue /\ handler.pc = "freed"
    BY <1>5 DEF FreedFunctionReturns, console
  <2>2. CASE handler' = [Idle EXCEPT !.pc = "lost"]
    BY <1>1, <2>1, <2>2 DEF Idle
  <2>3. CASE \E from \in 1..Len(notifyList) + 1 : CallFirst(handler.press, from)
    <3>1. PICK from \in 1..Len(notifyList) + 1 : CallFirst(handler.press, from)
      BY <2>3
    <3>2. from \in Nat
      BY <1>1, LenProperties
    <3>3. handler'.pc = "call" =>
            /\ handler'.press = handler.press /\ handler'.link \in Handles /\ handler'.link \in DOMAIN reg
            /\ IsKeyRegistered(reg[handler'.link].key, handler'.press.key)
      BY <1>1, <3>1, <3>2, CallFirstIs DEF Matching
    <3>4. handler'.pc \in {"pop", "call"}
      BY <1>1, <3>1, <3>2, CallFirstIs
    <3>5. QED  BY <1>1, <2>1, <3>3, <3>4 DEF InFunction
  <2>4. QED  BY <1>5, <2>2, <2>3 DEF FreedFunctionReturns
<1>6. QED  BY <1>2, <1>3, <1>4, <1>5 DEF KeyNotifyProcessHandler

\* Every step of the driver keeps the notify queue in order.
LEMMA OrderStep ==
  ASSUME KeypadAssumption, KeypadInv, QueueOrdered, [Next]_vars
  PROVE  QueueOrdered'
<1>1. CASE \E keys \in Accepted : KeypadTimerHandler(Presses(keys))
  BY <1>1, PollOrder
<1>2. CASE notifyQueue' \in {notifyQueue, <<>>} /\ pressed' = pressed
  <2>1. \A i \in 1..Len(notifyQueue') : i \in 1..Len(notifyQueue) /\ notifyQueue'[i] = notifyQueue[i]
    BY <1>2, EmptySeq
  <2>2. QED  BY <1>2, <2>1 DEF QueueOrdered
<1>3. CASE KeyNotifyProcessHandler
  <2> DEFINE d == Len(notifyQueue) - Len(notifyQueue')
  <2>1. /\ Len(notifyQueue) \in Nat /\ Len(notifyQueue') \in Nat
        /\ Len(notifyQueue') <= Len(notifyQueue)
        /\ \A i \in 1..Len(notifyQueue') : notifyQueue'[i] = notifyQueue[i + d]
    BY <1>3, HandlerPops, LenProperties DEF KeypadInv, KeypadTypeOK
  <2>2. d \in Nat /\ \A i \in 1..Len(notifyQueue') : i + d \in 1..Len(notifyQueue)
    BY <2>1
  <2>3. pressed' = pressed
    BY <1>3 DEF KeyNotifyProcessHandler, PopForNotify, NotifyQueueEmpty, FunctionReturns,
                FreedFunctionReturns, history
  <2> HIDE DEF d
  <2>4. \A i, j \in 1..Len(notifyQueue') : i <= j => i + d <= j + d
    BY <2>2
  <2>5. QED  BY <2>1, <2>2, <2>3, <2>4 DEF QueueOrdered
<1>4. QED  BY <1>1, <1>2, <1>3
  DEF Next, TimerEvent, Client, ReadKeyStroke, KeypadWaitForKey, KeypadEfiReset, KeypadSetState,
      KeypadRegisterKeyNotify, KeypadUnregisterKeyNotify, Dispatch, vars, console, history

-----------------------------------------------------------------------------
\* No function was called for a key newer than the one it is called for now,
\* nor that than the keys that wait.
CallInv ==
  /\ lastCall \in [Handles -> Nat] /\ QueueOrdered
  /\ \A h \in Handles : lastCall[h] <= pressed
  /\ \A h \in Handles, i \in 1..Len(notifyQueue) : lastCall[h] <= notifyQueue[i].n
  /\ InFunction =>
       /\ \A h \in Handles : lastCall[h] <= handler.press.n
       /\ \A i \in 1..Len(notifyQueue) : handler.press.n <= notifyQueue[i].n
       /\ handler.press.n \in 1..pressed

NotCalledForOlder == \A h \in Handles : lastCall'[h] # Never => lastCall'[h] >= lastCall[h]

LEMMA CallInit == KeypadAssumption /\ CInit => CallInv
<1> SUFFICES ASSUME KeypadAssumption, CInit PROVE CallInv
  OBVIOUS
<1>1. Len(notifyQueue) = 0 /\ pressed = 0 /\ handler.pc = "idle"
  BY EmptySeq DEF CInit, Init, Idle
<1>2. lastCall = [h \in Handles |-> 0]
  BY DEF CInit, Never
<1>3. QED  BY <1>1, <1>2 DEF CallInv, QueueOrdered, InFunction

\* A poll, whoever makes it.
LEMMA PollCalls ==
  ASSUME KeypadAssumption, KeypadInv, CallInv, NEW keys \in Accepted,
         KeypadTimerHandler(Presses(keys)), handler' = handler, lastCall' = lastCall
  PROVE  CallInv' /\ NotCalledForOlder
<1>1. /\ QueueOrdered'
      /\ \A i \in 1..Len(notifyQueue') :
           \/ \E j \in 1..Len(notifyQueue) : notifyQueue'[i] = notifyQueue[j]
           \/ notifyQueue'[i].n > pressed
  BY PollOrder DEF CallInv
<1>2. /\ pressed \in Nat /\ pressed' \in pressed..MaxPresses /\ MaxPresses \in Nat
  BY PollStep DEF KeypadInv, KeypadTypeOK, KeypadAssumption
<1>3. \A i \in 1..Len(notifyQueue') : notifyQueue'[i].n \in Nat
  BY <1>1, <1>2 DEF QueueOrdered
<1>4. \A h \in Handles : lastCall[h] \in Nat /\ lastCall[h] <= pressed
  BY DEF CallInv
<1>5. \A h \in Handles, i \in 1..Len(notifyQueue') : lastCall[h] <= notifyQueue'[i].n
  BY <1>1, <1>2, <1>3, <1>4 DEF CallInv
<1>6. InFunction =>
        /\ handler.press.n \in 1..pressed
        /\ \A i \in 1..Len(notifyQueue') : handler.press.n <= notifyQueue'[i].n
  <2> SUFFICES ASSUME InFunction
               PROVE  /\ handler.press.n \in 1..pressed
                      /\ \A i \in 1..Len(notifyQueue') : handler.press.n <= notifyQueue'[i].n
    OBVIOUS
  <2>1. /\ handler.press.n \in 1..pressed
        /\ \A i \in 1..Len(notifyQueue) : handler.press.n <= notifyQueue[i].n
    BY DEF CallInv
  <2>2. QED  BY <1>1, <1>2, <1>3, <2>1
<1>7. \A h \in Handles : lastCall[h] <= pressed'
  BY <1>2, <1>4
<1>8. InFunction => handler.press.n \in 1..pressed'
  BY <1>2, <1>6
<1>9. CallInv'
  BY <1>1, <1>5, <1>6, <1>7, <1>8 DEF CallInv, InFunction
<1>10. QED  BY <1>4, <1>9 DEF NotCalledForOlder

\* A client's other services leave the queue as it is or empty it.
LEMMA ServiceCalls ==
  ASSUME KeypadAssumption, KeypadInv, CallInv,
         handler'.press = handler.press, InFunction' => InFunction, pressed' = pressed,
         notifyQueue' \in {notifyQueue, <<>>},
         \/ lastCall' = lastCall
         \/ \E h : lastCall' = [lastCall EXCEPT ![h] = Never]
  PROVE  CallInv' /\ NotCalledForOlder
<1>1. /\ \A i \in 1..Len(notifyQueue') : i \in 1..Len(notifyQueue) /\ notifyQueue'[i] = notifyQueue[i]
  BY EmptySeq
<1>2. /\ lastCall' \in [Handles -> Nat]
      /\ \A h \in Handles : lastCall'[h] = lastCall[h] \/ lastCall'[h] = 0
  BY DEF CallInv, Never
<1>3. \A h \in Handles : lastCall[h] \in Nat /\ lastCall'[h] \in Nat
  BY <1>2 DEF CallInv
<1>4. QueueOrdered'
  BY <1>1 DEF CallInv, QueueOrdered
<1>5. \A h \in Handles, i \in 1..Len(notifyQueue') : lastCall'[h] <= notifyQueue'[i].n
  BY <1>1, <1>2 DEF CallInv, QueueOrdered
<1>6. \A h \in Handles : lastCall'[h] <= pressed
  BY <1>2 DEF CallInv, KeypadInv, KeypadTypeOK
<1>7. InFunction =>
        /\ \A h \in Handles : lastCall'[h] <= handler.press.n
        /\ \A i \in 1..Len(notifyQueue') : handler.press.n <= notifyQueue'[i].n
        /\ handler.press.n \in 1..pressed
  BY <1>1, <1>2 DEF CallInv
<1>8. CallInv'
  BY <1>2, <1>4, <1>5, <1>6, <1>7 DEF CallInv
<1>9. NotCalledForOlder
  BY <1>2, <1>3 DEF NotCalledForOlder, Never
<1>10. QED  BY <1>8, <1>9

LEMMA HandledCalls ==
  ASSUME KeypadAssumption, KeypadInv, CallInv, Handled
  PROVE  CallInv' /\ NotCalledForOlder
<1>1. pressed' = pressed /\ pressed \in Nat
  BY DEF Handled, KeyNotifyProcessHandler, PopForNotify, NotifyQueueEmpty, FunctionReturns,
         FreedFunctionReturns, history, KeypadInv, KeypadTypeOK, KeypadAssumption
<1>2. /\ notifyQueue \in Seq(Press) /\ notifyList \in Seq(Handles) /\ WalkOnLive
      /\ Len(notifyQueue) \in Nat /\ handler.press \in Press
  BY LenProperties DEF KeypadInv, KeypadTypeOK
<1>3. /\ Len(notifyQueue') <= Len(notifyQueue) /\ Len(notifyQueue') \in Nat
      /\ \A i \in 1..Len(notifyQueue') :
           notifyQueue'[i] = notifyQueue[i + (Len(notifyQueue) - Len(notifyQueue'))]
      /\ handler'.pc = "call" =>
           /\ handler'.link \in Handles
           /\ \/ InFunction /\ handler'.press = handler.press
              \/ Len(notifyQueue) > 0 /\ handler'.press = notifyQueue[1]
                 /\ Len(notifyQueue') = Len(notifyQueue) - 1
      /\ handler'.pc # "freed"
  BY HandlerPops DEF Handled
<1>4. QueueOrdered'
  BY OrderStep DEF Handled, Next, CallInv
<1>5. \A h \in Handles, i \in 1..Len(notifyQueue') : lastCall[h] <= notifyQueue'[i].n
  <2>1. \A i \in 1..Len(notifyQueue') :
          i + (Len(notifyQueue) - Len(notifyQueue')) \in 1..Len(notifyQueue)
    BY <1>2, <1>3
  <2>2. QED  BY <1>3, <2>1 DEF CallInv
<1>6. CASE handler'.pc # "call"
  <2>1. lastCall' = lastCall
    BY <1>6 DEF Handled
  <2>2. CallInv'
    BY <1>1, <1>3, <1>4, <1>5, <1>6, <2>1 DEF CallInv, InFunction
  <2>3. QED  BY <2>1, <2>2 DEF NotCalledForOlder, CallInv
<1>7. CASE handler'.pc = "call"
  <2> DEFINE n == handler'.press.n
  <2>1. lastCall' = [lastCall EXCEPT ![handler'.link] = n]
    BY <1>7 DEF Handled
  <2>2. /\ n \in 1..pressed /\ \A h \in Handles : lastCall[h] <= n
        /\ \A i \in 1..Len(notifyQueue') : n <= notifyQueue'[i].n
    <3>1. \A i \in 1..Len(notifyQueue') :
            i + (Len(notifyQueue) - Len(notifyQueue')) \in 1..Len(notifyQueue)
      BY <1>2, <1>3
    <3>2. CASE InFunction /\ handler'.press = handler.press
      BY <1>3, <3>1, <3>2 DEF CallInv
    <3>3. CASE Len(notifyQueue) > 0 /\ handler'.press = notifyQueue[1]
      <4>1. 1 \in 1..Len(notifyQueue) /\ n = notifyQueue[1].n
        BY <1>2, <3>3
      <4>2. \A i \in 1..Len(notifyQueue) : n <= notifyQueue[i].n
        BY <4>1 DEF CallInv, QueueOrdered
      <4>3. n \in 1..pressed /\ \A h \in Handles : lastCall[h] <= n
        BY <4>1 DEF CallInv, QueueOrdered
      <4> HIDE DEF n
      <4>4. QED  BY <1>3, <3>1, <4>2, <4>3
    <3>4. QED  BY <1>3, <1>7, <3>2, <3>3
  <2>3. n \in Nat /\ handler'.link \in Handles
    BY <1>1, <1>3, <1>7, <2>2
  <2> HIDE DEF n
  <2>4. /\ lastCall' \in [Handles -> Nat]
        /\ \A h \in Handles : lastCall'[h] = IF h = handler'.link THEN n ELSE lastCall[h]
    BY <2>1, <2>3 DEF CallInv
  <2>5. \A h \in Handles : lastCall'[h] <= n
    BY <2>2, <2>3, <2>4
  <2>6. \A h \in Handles, i \in 1..Len(notifyQueue') : lastCall'[h] <= notifyQueue'[i].n
    BY <1>5, <2>2, <2>4
  <2>7. \A h \in Handles : lastCall'[h] <= pressed
    BY <1>1, <2>2, <2>4 DEF CallInv
  <2>8. CallInv'
    BY <1>1, <1>4, <2>2, <2>4, <2>5, <2>6, <2>7 DEF CallInv, InFunction, n
  <2>9. NotCalledForOlder
    BY <2>2, <2>3, <2>4 DEF NotCalledForOlder, CallInv
  <2>10. QED  BY <2>8, <2>9
<1>8. QED  BY <1>6, <1>7

\* A step of the clients is a step of the driver.
LEMMA ClientsAreDriver == [CNext]_cvars => [Next]_vars
BY DEF CNext, cvars, Next, Client, Registers, Handled, Others

LEMMA CallStep ==
  ASSUME KeypadAssumption, KeypadInv, CallInv, [CNext]_cvars
  PROVE  CallInv' /\ NotCalledForOlder
<1>1. CASE \E k \in KeyData, fn \in Functions : Registers(k, fn)
  <2>1. PICK k \in KeyData, fn \in Functions : Registers(k, fn)
    BY <1>1
  <2>2. handler' = handler /\ pressed' = pressed /\ notifyQueue' = notifyQueue
    BY <2>1 DEF Registers, KeypadRegisterKeyNotify, history
  <2>5. handler'.press = handler.press /\ (InFunction' => InFunction)
    BY <2>2 DEF InFunction
  <2>3. \/ lastCall' = lastCall
        \/ \E h : lastCall' = [lastCall EXCEPT ![h] = Never]
    BY <2>1 DEF Registers
  <2>4. QED  BY <2>2, <2>3, <2>5, ServiceCalls
<1>2. CASE Handled
  BY <1>2, HandledCalls
<1>3. CASE (TimerEvent \/ KeypadWaitForKey \/ \E extended \in BOOLEAN : ReadKeyStroke(extended))
           /\ UNCHANGED calls
  <2>1. /\ handler' = handler /\ lastCall' = lastCall
        /\ \E keys \in Accepted : KeypadTimerHandler(Presses(keys))
    BY <1>3 DEF TimerEvent, KeypadWaitForKey, ReadKeyStroke, calls
  <2>2. QED  BY <1>3, <2>1, PollCalls
<1>4. CASE /\ \/ KeypadEfiReset
              \/ \E h \in Handles : KeypadUnregisterKeyNotify(h)
              \/ \E bits \in SUBSET Bits : KeypadSetState(bits)
           /\ UNCHANGED calls
  <2>1. /\ pressed' = pressed /\ notifyQueue' \in {notifyQueue, <<>>} /\ lastCall' = lastCall
        /\ \/ handler' = handler
           \/ InFunction /\ handler' = [handler EXCEPT !.pc = "freed"]
    BY <1>4 DEF KeypadEfiReset, KeypadUnregisterKeyNotify, KeypadSetState, history, calls
  <2>2. handler'.press = handler.press /\ (InFunction' => InFunction)
    BY <2>1 DEF InFunction, KeypadInv, KeypadTypeOK
  <2>3. QED  BY <2>1, <2>2, ServiceCalls
<1>5. CASE Dispatch /\ UNCHANGED calls
  <2>1. handler'.pc = "pop" /\ pressed' = pressed /\ notifyQueue' = notifyQueue /\ lastCall' = lastCall
    BY <1>5 DEF Dispatch, NextKey, Idle, history, calls
  <2>2. CallInv'
    BY <2>1 DEF CallInv, QueueOrdered, InFunction
  <2>3. QED  BY <2>1, <2>2 DEF NotCalledForOlder, CallInv
<1>6. CASE UNCHANGED cvars
  <2>1. UNCHANGED <<lastCall, notifyQueue, handler, pressed>>
    BY <1>6 DEF cvars, vars, console, history, calls
  <2>2. CallInv'
    BY <2>1 DEF CallInv, QueueOrdered, InFunction
  <2>3. QED  BY <2>1, <2>2 DEF NotCalledForOlder, CallInv
<1>7. QED  BY <1>1, <1>2, <1>3, <1>4, <1>5, <1>6 DEF CNext, Others

LEMMA CallsAlways == CSpec => [](KeypadInv /\ CallInv)
<1>1. CInit => KeypadInv /\ CallInv
  BY KeypadInit, CallInit, KeypadAssumption DEF CInit
<1>2. KeypadInv /\ CallInv /\ [CNext]_cvars => KeypadInv' /\ CallInv'
  BY KeypadStep, CallStep, ClientsAreDriver, KeypadAssumption
<1>3. QED  BY <1>1, <1>2, PTL DEF CSpec

\* A registered function is called for keys in the order they were pressed,
\* over polls of the timer, of readers and of the functions themselves.
THEOREM CallsInOrder == CSpec => NotifiedInOrder
<1>1. KeypadInv /\ CallInv /\ [CNext]_cvars
        => [\A h \in Handles : lastCall'[h] # Never => lastCall'[h] >= lastCall[h]]_cvars
  BY CallStep, KeypadAssumption DEF NotCalledForOlder
<1>2. QED  BY <1>1, CallsAlways, PTL DEF CSpec, NotifiedInOrder

-----------------------------------------------------------------------------
\* The registrations up to the one that is called were called for this press.
CalledSoFar ==
  handler.pc = "call" /\ ~astray =>
    \A i, j \in 1..Len(notifyList) :
      /\ i <= j /\ notifyList[j] = handler.link
      /\ IsKeyRegistered(reg[notifyList[i]].key, handler.press.key)
      => lastCall[notifyList[i]] = handler.press.n

\* A registration is made: the new one is the last of the list.
LEMMA RegisterCalled ==
  ASSUME KeypadInv, CallInv, CalledSoFar, NEW k \in KeyData, NEW fn \in Functions, Registers(k, fn)
  PROVE  CalledSoFar'
<1>1. /\ notifyList \in Seq(Handles) /\ Len(notifyList) \in Nat /\ DOMAIN notifyList = 1..Len(notifyList)
      /\ handler' = handler /\ astray' = astray /\ Range(notifyList) = DOMAIN reg
  BY LenProperties DEF KeypadInv, KeypadTypeOK, WalkOnLive, Registers, KeypadRegisterKeyNotify
<1>2. CASE Covering(k, fn) # {}
  <2>1. UNCHANGED <<notifyList, reg, lastCall>>
    BY <1>2 DEF Registers, KeypadRegisterKeyNotify
  <2>2. QED  BY <1>1, <2>1 DEF CalledSoFar, IsKeyRegistered
<1>3. CASE Covering(k, fn) = {}
  <2>1. PICK h \in Handles \ DOMAIN reg :
          /\ notifyList' = Append(notifyList, h)
          /\ reg' = [i \in DOMAIN reg \union {h} |->
                       IF i = h THEN [key |-> k, fn |-> fn] ELSE reg[i]]
    BY <1>3 DEF Registers, KeypadRegisterKeyNotify
  <2>2. /\ Len(notifyList') = Len(notifyList) + 1 /\ notifyList'[Len(notifyList) + 1] = h
        /\ \A i \in 1..Len(notifyList) : notifyList'[i] = notifyList[i]
    BY <1>1, <2>1, AppendProperties
  <2>3. HandleFor(k, fn) = h /\ lastCall' = [lastCall EXCEPT ![h] = Never]
    BY <1>3, <2>2 DEF HandleFor, Last, Registers
  <2>4. \A i \in 1..Len(notifyList) : notifyList[i] \in DOMAIN reg /\ notifyList[i] # h
    BY <1>1, <2>1 DEF Range
  <2>5. \A g \in DOMAIN reg : reg'[g] = reg[g] /\ (g # h => lastCall'[g] = lastCall[g])
    BY <2>1, <2>3 DEF CallInv
  <2>6. SUFFICES ASSUME handler.pc = "call", ~astray,
                        NEW i \in 1..Len(notifyList'), NEW j \in 1..Len(notifyList'), i <= j,
                        notifyList'[j] = handler.link,
                        IsKeyRegistered(reg'[notifyList'[i]].key, handler.press.key)
                 PROVE  lastCall'[notifyList'[i]] = handler.press.n
    BY <1>1 DEF CalledSoFar, IsKeyRegistered
  <2>7. handler.link \in DOMAIN reg
    BY <2>6 DEF KeypadInv, WalkOnLive
  <2>8. j \in 1..Len(notifyList)
    BY <1>1, <2>1, <2>2, <2>6, <2>7
  <2>9. i \in 1..Len(notifyList)
    BY <1>1, <2>6, <2>8
  <2>10. lastCall[notifyList[i]] = handler.press.n
    BY <2>2, <2>4, <2>5, <2>6, <2>8, <2>9 DEF CalledSoFar
  <2>11. QED  BY <2>2, <2>4, <2>5, <2>9, <2>10
<1>4. QED  BY <1>2, <1>3

\* Another registration is taken away: those before ours stay before it.
LEMMA UnregisterCalled ==
  ASSUME KeypadInv, CalledSoFar, NEW h \in Handles, KeypadUnregisterKeyNotify(h), UNCHANGED calls
  PROVE  CalledSoFar'
<1>1. /\ notifyList \in Seq(Handles) /\ Len(notifyList) \in Nat /\ DOMAIN notifyList = 1..Len(notifyList)
      /\ Range(notifyList) = DOMAIN reg /\ UNCHANGED <<lastCall, astray>>
  BY LenProperties DEF KeypadInv, KeypadTypeOK, WalkOnLive, calls
<1>2. h \in DOMAIN reg
  BY <1>1 DEF KeypadUnregisterKeyNotify
<1> DEFINE p == Place(h)
<1>3. /\ p \in 1..Len(notifyList) /\ Len(notifyList') = Len(notifyList) - 1
      /\ \A i \in 1..Len(notifyList') :
           notifyList'[i] = IF i < p THEN notifyList[i] ELSE notifyList[i + 1]
      /\ Range(notifyList') = DOMAIN reg' /\ DOMAIN reg' = DOMAIN reg \ {h}
      /\ \A g \in DOMAIN reg' : reg'[g] = reg[g]
  BY <1>2, UnregisterStep DEF KeypadUnregisterKeyNotify
<1> HIDE DEF p
<1>4. CASE handler'.pc # "call"
  BY <1>4 DEF CalledSoFar
<1>5. CASE handler'.pc = "call"
  <2>1. handler' = handler
    BY <1>5 DEF KeypadUnregisterKeyNotify, KeypadInv, KeypadTypeOK
  <2>2. SUFFICES ASSUME handler.pc = "call", ~astray,
                        NEW i \in 1..Len(notifyList'), NEW j \in 1..Len(notifyList'), i <= j,
                        notifyList'[j] = handler.link,
                        IsKeyRegistered(reg'[notifyList'[i]].key, handler.press.key)
                 PROVE  lastCall[notifyList'[i]] = handler.press.n
    BY <1>1, <2>1 DEF CalledSoFar, IsKeyRegistered
  <2> DEFINE old(a) == IF a < p THEN a ELSE a + 1
  <2>3. /\ old(i) \in 1..Len(notifyList) /\ old(j) \in 1..Len(notifyList) /\ old(i) <= old(j)
        /\ notifyList'[i] = notifyList[old(i)] /\ notifyList'[j] = notifyList[old(j)]
    <3>1. Len(notifyList) \in Nat /\ Len(notifyList') = Len(notifyList) - 1
          /\ p \in 1..Len(notifyList)
      BY <1>1, <1>3
    <3>2. i \in 1..Len(notifyList') /\ j \in 1..Len(notifyList') /\ i <= j
      BY <2>2
    <3>3. old(i) \in 1..Len(notifyList) /\ old(j) \in 1..Len(notifyList) /\ old(i) <= old(j)
      BY <3>1, <3>2
    <3>4. notifyList'[i] = notifyList[old(i)] /\ notifyList'[j] = notifyList[old(j)]
      BY <1>3, <3>2
    <3>5. QED  BY <3>3, <3>4
  <2> HIDE DEF old
  <2>4. reg'[notifyList'[i]] = reg[notifyList[old(i)]]
    <3>1. DOMAIN notifyList' = 1..Len(notifyList')
      BY <1>2, UnregisterStep, LenProperties DEF KeypadUnregisterKeyNotify
    <3>2. notifyList'[i] \in DOMAIN reg'
      BY <1>3, <3>1 DEF Range
    <3>3. QED  BY <1>3, <2>3, <3>2
  <2>5. QED  BY <2>2, <2>3, <2>4 DEF CalledSoFar
<1>6. QED  BY <1>4, <1>5

\* The walk goes on: nothing it passes matches, and what it calls is called.
LEMMA WalkCalled ==
  ASSUME KeypadAssumption, KeypadInv, CallInv, CalledSoFar, Handled
  PROVE  /\ CalledSoFar'
         /\ handler.pc = "call" /\ ~astray /\ handler'.pc = "pop" =>
              \A h \in DOMAIN reg : IsKeyRegistered(reg[h].key, handler.press.key)
                                    => lastCall[h] = handler.press.n
<1>1. /\ notifyList \in Seq(Handles) /\ WalkOnLive /\ notifyQueue \in Seq(Press)
      /\ Len(notifyList) \in Nat /\ DOMAIN notifyList = 1..Len(notifyList)
      /\ handler.press \in Press /\ lastCall \in [Handles -> Nat]
  BY LenProperties DEF KeypadInv, KeypadTypeOK, CallInv
<1>2. UNCHANGED <<notifyList, reg>>
  BY DEF Handled, KeyNotifyProcessHandler, PopForNotify, NotifyQueueEmpty, FunctionReturns,
         FreedFunctionReturns, console
<1> DEFINE Called(press, from) ==
             \A i \in 1..Len(notifyList) : i < from /\ IsKeyRegistered(reg[notifyList[i]].key, press.key)
                                          => lastCall[notifyList[i]] = press.n
<1>3. ASSUME NEW press \in Press, NEW from \in Nat, CallFirst(press, from), Called(press, from)
      PROVE  CalledSoFar'
  <2>1. CASE handler'.pc # "call"
    BY <2>1 DEF CalledSoFar
  <2>2. CASE handler'.pc = "call"
    <3>1. PICK at \in Matching(press.key) :
            /\ handler'.press = press /\ handler'.link = notifyList[at]
            /\ \A j \in Matching(press.key) : from <= j => at <= j
      <4>1. NextKey.pc # "call"
        BY DEF NextKey, Idle
      <4>2. QED  BY <1>1, <1>3, <2>2, <4>1, CallFirstIs
    <3>2. at \in 1..Len(notifyList) /\ lastCall' = [lastCall EXCEPT ![notifyList[at]] = press.n]
      BY <2>2, <3>1 DEF Matching, Handled
    <3>3. \A i \in 1..Len(notifyList) : notifyList[i] \in Handles
      BY <1>1, ElementOfSeq
    <3>4. SUFFICES ASSUME NEW i \in 1..Len(notifyList), NEW j \in 1..Len(notifyList), i <= j,
                          notifyList[j] = notifyList[at],
                          IsKeyRegistered(reg[notifyList[i]].key, press.key)
                   PROVE  lastCall'[notifyList[i]] = press.n
      BY <1>2, <3>1 DEF CalledSoFar, IsKeyRegistered
    <3>5. j = at
      BY <1>1, <3>2, <3>4 DEF WalkOnLive, IsInjective
    <3>6. i \in Matching(press.key)
      BY <3>4 DEF Matching
    <3>7. CASE i = at
      BY <1>1, <3>2, <3>3, <3>7
    <3>8. CASE i # at
      <4>1. i < from
        BY <1>1, <3>1, <3>2, <3>4, <3>5, <3>6, <3>8
      <4>2. lastCall[notifyList[i]] = press.n
        BY <1>3, <3>4, <4>1
      <4>3. QED  BY <1>1, <3>2, <3>3, <4>2
    <3>9. QED  BY <3>7, <3>8
  <2>3. QED  BY <2>1, <2>2
<1> HIDE DEF Called
<1>4. CASE PopForNotify
  <2>1. /\ Head(notifyQueue) \in Press /\ CallFirst(Head(notifyQueue), 1) /\ handler.pc = "pop"
    BY <1>1, <1>4, HeadTailProperties DEF PopForNotify
  <2>2. Called(Head(notifyQueue), 1)
    BY DEF Called
  <2>3. QED  BY <1>3, <2>1, <2>2
<1>5. CASE NotifyQueueEmpty
  BY <1>5 DEF NotifyQueueEmpty, Idle, CalledSoFar
<1>6. CASE FunctionReturns
  <2>1. handler.pc = "call" /\ CallFirst(handler.press, Place(handler.link) + 1)
    BY <1>6 DEF FunctionReturns
  <2>2. Place(handler.link) \in 1..Len(notifyList) /\ notifyList[Place(handler.link)] = handler.link
    BY <1>1, <2>1, PlaceIs DEF WalkOnLive
  <2> DEFINE p == Place(handler.link)
  <2>3. p + 1 \in Nat /\ p \in 1..Len(notifyList) /\ notifyList[p] = handler.link
    BY <1>1, <2>2
  <2> HIDE DEF p
  <2>4. CASE astray
    <3>1. handler'.pc # "call" \/ astray'
      BY <2>1, <2>4 DEF Handled
    <3>2. QED  BY <2>4, <3>1 DEF CalledSoFar
  <2>5. CASE ~astray
    <3>1. Called(handler.press, p + 1)
      <4>1. \A i \in 1..Len(notifyList) : i < p + 1 => i <= p
        BY <2>3
      <4>2. QED  BY <2>1, <2>3, <2>5, <4>1 DEF CalledSoFar, Called
    <3>2. CalledSoFar'
      BY <1>1, <1>3, <2>1, <2>3, <3>1 DEF p
    <3>3. ASSUME handler'.pc = "pop", NEW h \in DOMAIN reg,
                 IsKeyRegistered(reg[h].key, handler.press.key)
          PROVE  lastCall[h] = handler.press.n
      <4>1. \A i \in Matching(handler.press.key) : i < p + 1
        BY <1>1, <2>1, <2>3, <3>3, CallFirstIs DEF p
      <4>2. PICK i \in 1..Len(notifyList) : notifyList[i] = h
        BY <1>1 DEF WalkOnLive, Range
      <4>3. i \in Matching(handler.press.key)
        BY <3>3, <4>2 DEF Matching
      <4>4. QED  BY <3>1, <3>3, <4>1, <4>2, <4>3 DEF Called
    <3>4. QED  BY <3>2, <3>3
  <2>6. QED  BY <2>4, <2>5
<1>7. CASE FreedFunctionReturns
  <2>1. handler.pc = "freed" /\ (handler'.pc # "call" \/ astray')
    BY <1>7 DEF FreedFunctionReturns, Handled
  <2>2. QED  BY <2>1 DEF CalledSoFar
<1>8. QED  BY <1>4, <1>5, <1>6, <1>7 DEF Handled, KeyNotifyProcessHandler

LEMMA CalledStep ==
  ASSUME KeypadAssumption, KeypadInv, CallInv, CalledSoFar, [CNext]_cvars
  PROVE  /\ CalledSoFar'
         /\ [handler.pc = "call" /\ ~astray /\ handler'.pc = "pop" =>
               \A h \in DOMAIN reg : IsKeyRegistered(reg[h].key, handler.press.key)
                                     => lastCall[h] = handler.press.n]_cvars
<1>1. CASE \E k \in KeyData, fn \in Functions : Registers(k, fn)
  <2>1. handler' = handler /\ CalledSoFar'
    BY <1>1, RegisterCalled DEF Registers, KeypadRegisterKeyNotify
  <2>2. QED  BY <2>1
<1>2. CASE Handled
  BY <1>2, WalkCalled
<1>3. CASE \/ TimerEvent /\ UNCHANGED calls
           \/ KeypadWaitForKey /\ UNCHANGED calls
           \/ (\E extended \in BOOLEAN : ReadKeyStroke(extended)) /\ UNCHANGED calls
           \/ KeypadEfiReset /\ UNCHANGED calls
           \/ (\E bits \in SUBSET Bits : KeypadSetState(bits)) /\ UNCHANGED calls
           \/ UNCHANGED cvars
  <2>1. UNCHANGED <<notifyList, reg, handler, lastCall, astray>>
    BY <1>3 DEF TimerEvent, KeypadWaitForKey, ReadKeyStroke, KeypadEfiReset, KeypadSetState, calls,
                cvars, vars, console
  <2>2. QED  BY <2>1 DEF CalledSoFar, IsKeyRegistered
<1>4. CASE Dispatch /\ UNCHANGED calls
  <2>1. handler.pc = "idle" /\ handler'.pc = "pop"
    BY <1>4 DEF Dispatch, NextKey, Idle
  <2>2. QED  BY <2>1 DEF CalledSoFar
<1>5. CASE (\E h \in Handles : KeypadUnregisterKeyNotify(h)) /\ UNCHANGED calls
  <2>1. PICK h \in Handles : KeypadUnregisterKeyNotify(h)
    BY <1>5
  <2>2. handler.pc = "call" => handler'.pc # "pop"
    BY <2>1 DEF KeypadUnregisterKeyNotify, KeypadInv, KeypadTypeOK
  <2>3. QED  BY <1>5, <2>1, <2>2, UnregisterCalled
<1>6. QED  BY <1>1, <1>2, <1>3, <1>4, <1>5 DEF CNext, Others

\* Each walk that no function led astray calls every registration for its key,
\* those that leave and join the list meanwhile notwithstanding.
THEOREM NobodyLeftOut == CSpec => AllNotified
<1>1. CInit => CalledSoFar
  BY DEF CInit, Init, Idle, CalledSoFar
<1>2. KeypadInv /\ CallInv /\ CalledSoFar /\ [CNext]_cvars => CalledSoFar'
  BY CalledStep, KeypadAssumption
<1>3. KeypadInv /\ CallInv /\ CalledSoFar /\ [CNext]_cvars
        => [handler.pc = "call" /\ ~astray /\ handler'.pc = "pop" =>
              \A h \in DOMAIN reg : IsKeyRegistered(reg[h].key, handler.press.key)
                                    => lastCall[h] = handler.press.n]_cvars
  BY CalledStep, KeypadAssumption
<1>4. QED  BY <1>1, <1>2, <1>3, CallsAlways, PTL DEF CSpec, AllNotified

\* What holds of the driver holds of it with the clients beside it.
THEOREM ClientsAreSafe == CSpec => [](NoKeySkipped /\ NotifyServed /\ WalkOnLive)
<1>1. KeypadInv => NoKeySkipped /\ NotifyServed /\ WalkOnLive
  BY DEF KeypadInv
<1>2. QED  BY CallsAlways, <1>1, PTL

-----------------------------------------------------------------------------
IsVolumeUp(press) == press.key.code = SCAN_UP

\* The boot manager's registration is the only one of KeyNotify, and nobody but
\* the boot manager takes it back.
OursInv ==
  /\ mNotifyHandle \in Handles \union {NoHandle}
  /\ bm \in {"console", "register", "countdown", "decide", "menu", "menu_not_found", "boot"}
  /\ mEnterBootManager \in BOOLEAN /\ heard \in BOOLEAN
  /\ \A h \in DOMAIN reg : reg[h].fn = KeyNotify
       => h = mNotifyHandle /\ reg[h].key = VolumeUp /\ bm = "countdown"
  /\ bm = "countdown" /\ mNotifyHandle # NoHandle => Registered
  /\ bm \in {"console", "register"} =>
       mNotifyHandle = NoHandle /\ ~mEnterBootManager /\ ~heard
  /\ handler.pc \notin {"freed", "lost"}

\* KeyNotify hears of no press that was not polled while it was registered.
HeardInv ==
  /\ mEnterBootManager => heard
  /\ Registered => \A i \in 1..Len(notifyQueue) : IsVolumeUp(notifyQueue[i]) => heard
  /\ Registered /\ handler.pc = "call" /\ IsVolumeUp(handler.press) => heard
  /\ bm \in {"menu", "menu_not_found"} => heard

\* The step of one registration coming or going.
LEMMA RegisteredIs ==
  ASSUME HotkeyAssumption, OursInv, KeypadInv
  PROVE  /\ Registered => bm = "countdown" /\ mNotifyHandle \in DOMAIN reg
                          /\ reg[mNotifyHandle].key = VolumeUp
         /\ \A h \in DOMAIN reg : reg[h].fn = KeyNotify => Registered
         /\ NoHandle \notin DOMAIN reg
BY DEF HotkeyAssumption, OursInv, Registered, KeypadInv, KeypadTypeOK

\* A step of the boot is one of the driver.
LEMMA BootIsDriver ==
  ASSUME KeypadAssumption, HotkeyAssumption, KeypadInv, [HNext]_hvars
  PROVE  [Next]_vars
<1>1. CASE BootManager
  <2>1. CASE NoKeypad \/ RegisterOutOfResources \/ EnterBootManager
    BY <2>1 DEF NoKeypad, RegisterOutOfResources, EnterBootManager
  <2>2. CASE SetupKeypad
    BY <2>2 DEF SetupKeypad, Next, Client
  <2>3. CASE RegisterKeyNotify
    <3>1. VolumeUp \in KeyData /\ KeyNotify \in Functions
      BY DEF VolumeUp, KeyData, KeypadAssumption, HotkeyAssumption
    <3>2. QED  BY <2>3, <3>1 DEF RegisterKeyNotify, Next, Client
  <2>4. CASE UnregisterKeyCallback
    <3>1. CASE UNCHANGED vars
      BY <3>1
    <3>2. CASE KeypadUnregisterKeyNotify(mNotifyHandle)
      <4>1. mNotifyHandle \in Handles
        BY <3>2 DEF KeypadUnregisterKeyNotify, KeypadInv, KeypadTypeOK, WalkOnLive
      <4>2. QED  BY <3>2, <4>1 DEF Next, Client
    <3>3. QED  BY <2>4, <3>1, <3>2 DEF UnregisterKeyCallback
  <2>5. QED  BY <1>1, <2>1, <2>2, <2>3, <2>4 DEF BootManager
<1>2. CASE TimerEvent \/ Dispatch \/ Notify
  BY <1>2 DEF Next, Notify
<1>3. CASE OtherClient
  <2>1. \A h \in DOMAIN reg : h \in Handles
    BY DEF KeypadInv, KeypadTypeOK
  <2>2. QED  BY <1>3, <2>1 DEF OtherClient, Next, Client
<1>4. CASE UNCHANGED hvars
  BY <1>4 DEF hvars
<1>5. QED  BY <1>1, <1>2, <1>3, <1>4 DEF HNext

LEMMA HotkeyInit ==
  ASSUME KeypadAssumption, HotkeyAssumption, HInit
  PROVE  OursInv /\ HeardInv
<1>1. DOMAIN reg = {} /\ notifyQueue = <<>> /\ handler.pc = "idle"
  BY DEF HInit, Init, Idle
<1>2. ~Registered
  BY <1>1 DEF Registered
<1>3. QED  BY <1>1, <1>2 DEF HInit, OursInv, HeardInv

\* When the boot manager runs nothing waits for its notification.
LEMMA QuietWhenAppRuns ==
  ASSUME KeypadInv, AppRuns
  PROVE  notifyQueue = <<>> /\ handler.pc = "idle" /\ Len(notifyQueue) = 0
<1>1. notifyQueue = <<>>
  BY DEF KeypadInv, NotifyServed, AppRuns
<1>2. QED  BY <1>1, EmptySeq DEF AppRuns

\* The boot manager's own steps.
LEMMA BootManagerHears ==
  ASSUME KeypadAssumption, HotkeyAssumption, KeypadInv, KeypadInv', OursInv, HeardInv, BootManager
  PROVE  /\ OursInv' /\ HeardInv' /\ Len(notifyQueue') = 0 /\ handler'.pc = "idle"
         /\ heard' = heard /\ mEnterBootManager' = mEnterBootManager
<1>1. AppRuns
  BY DEF BootManager, NoKeypad, SetupKeypad, RegisterKeyNotify, RegisterOutOfResources,
         UnregisterKeyCallback, EnterBootManager
<1>2. notifyQueue = <<>> /\ handler.pc = "idle" /\ Len(notifyQueue) = 0
  BY <1>1, QuietWhenAppRuns
<1>3. /\ handler' = handler /\ notifyQueue' = <<>> /\ Len(notifyQueue') = 0
      /\ UNCHANGED <<mEnterBootManager, heard>>
  BY <1>2, EmptySeq
     DEF BootManager, NoKeypad, SetupKeypad, RegisterKeyNotify, RegisterOutOfResources,
         UnregisterKeyCallback, EnterBootManager, KeypadEfiReset, KeypadRegisterKeyNotify,
         KeypadUnregisterKeyNotify, InFunction, vars, console, history
<1>4. SUFFICES OursInv' /\ (bm' \in {"menu", "menu_not_found"} => heard')
  BY <1>2, <1>3 DEF HeardInv
<1>5. CASE NoKeypad \/ SetupKeypad \/ RegisterOutOfResources
  <2>1. /\ UNCHANGED <<reg, mNotifyHandle>> /\ mNotifyHandle = NoHandle
        /\ bm \in {"console", "register"} /\ bm' \in {"register", "countdown"}
    BY <1>5 DEF NoKeypad, SetupKeypad, RegisterOutOfResources, KeypadEfiReset, OursInv, vars, console
  <2>2. QED  BY <1>3, <2>1 DEF OursInv, Registered
<1>6. CASE RegisterKeyNotify
  <2>1. bm = "register" /\ bm' = "countdown" /\ \A h \in DOMAIN reg : reg[h].fn # KeyNotify
    BY <1>6 DEF RegisterKeyNotify, OursInv
  <2>2. Covering(VolumeUp, KeyNotify) = {}
    <3>1. DOMAIN notifyList = 1..Len(notifyList)
      BY LenProperties DEF KeypadInv, KeypadTypeOK
    <3>2. \A i \in 1..Len(notifyList) : notifyList[i] \in DOMAIN reg
      BY <3>1 DEF KeypadInv, WalkOnLive, Range
    <3>3. QED  BY <2>1, <3>2 DEF Covering, Matching
  <2>3. PICK h \in Handles \ DOMAIN reg :
          /\ notifyList' = Append(notifyList, h)
          /\ reg' = [i \in DOMAIN reg \union {h} |->
                       IF i = h THEN [key |-> VolumeUp, fn |-> KeyNotify] ELSE reg[i]]
    BY <1>6, <2>2 DEF RegisterKeyNotify, KeypadRegisterKeyNotify
  <2>4. mNotifyHandle' = h
    <3>1. mNotifyHandle' = Last(notifyList')
      BY <1>6, <2>2 DEF RegisterKeyNotify, HandleFor
    <3>2. Len(notifyList') = Len(notifyList) + 1 /\ notifyList'[Len(notifyList) + 1] = h
      BY <2>3, AppendProperties DEF KeypadInv, KeypadTypeOK
    <3>3. QED  BY <3>1, <3>2 DEF Last
  <2>5. /\ DOMAIN reg' = DOMAIN reg \union {h} /\ reg'[h] = [key |-> VolumeUp, fn |-> KeyNotify]
        /\ \A i \in DOMAIN reg : reg'[i] = reg[i]
    BY <2>3
  <2>6. QED  BY <1>3, <2>1, <2>3, <2>4, <2>5 DEF OursInv, Registered
<1>7. CASE UnregisterKeyCallback
  <2>1. bm = "countdown" /\ bm' = "decide" /\ mNotifyHandle' = mNotifyHandle
    BY <1>7 DEF UnregisterKeyCallback
  <2>2. \A i \in DOMAIN reg' : i \in DOMAIN reg /\ reg'[i] = reg[i] /\ i # mNotifyHandle
    <3>1. CASE mNotifyHandle = NoHandle
      <4>1. reg' = reg
        BY <1>7, <3>1 DEF UnregisterKeyCallback, vars, console
      <4>2. QED  BY <3>1, <4>1, RegisteredIs
    <3>2. CASE mNotifyHandle # NoHandle
      <4>1. reg' = [i \in DOMAIN reg \ {mNotifyHandle} |-> reg[i]]
        BY <1>7, <3>2 DEF UnregisterKeyCallback, KeypadUnregisterKeyNotify
      <4>2. QED  BY <4>1
    <3>3. QED  BY <3>1, <3>2
  <2>3. \A i \in DOMAIN reg' : reg'[i].fn # KeyNotify
    BY <2>2 DEF OursInv
  <2>4. QED  BY <1>3, <2>1, <2>3 DEF OursInv
<1>8. CASE EnterBootManager
  <2>1. bm = "decide" /\ bm' \in Decision /\ UNCHANGED <<reg, mNotifyHandle>>
    BY <1>8 DEF EnterBootManager, vars, console
  <2>2. QED  BY <1>3, <2>1 DEF OursInv, HeardInv, Decision
<1>9. QED  BY <1>5, <1>6, <1>7, <1>8 DEF BootManager

\* The functions of other drivers keep the registration they are called through.
LEMMA OthersKeepWalk ==
  ASSUME TimerEvent \/ OtherClient
  PROVE  handler' = handler
<1>1. ASSUME NEW h \in DOMAIN reg \ {handler.link}, KeypadUnregisterKeyNotify(h)
      PROVE  handler' = handler
  BY <1>1 DEF KeypadUnregisterKeyNotify
<1>2. QED  BY <1>1 DEF TimerEvent, OtherClient, ReadKeyStroke, KeypadWaitForKey, KeypadEfiReset,
                       KeypadRegisterKeyNotify

\* Other drivers and readers, and the timer: they do not touch what is ours.
LEMMA OthersLeaveOurs ==
  ASSUME HotkeyAssumption, KeypadAssumption, KeypadInv, OursInv, TimerEvent \/ OtherClient,
         UNCHANGED <<bm, mNotifyHandle, mEnterBootManager>>, heard' \in BOOLEAN,
         heard' = heard \/ Registered
  PROVE  OursInv' /\ (Registered' <=> Registered)
<1>1. \A h \in DOMAIN reg : reg[h].fn = KeyNotify => h \in DOMAIN reg' /\ reg'[h] = reg[h]
  <2>1. CASE TimerEvent \/ (\E extended \in BOOLEAN : ReadKeyStroke(extended)) \/ KeypadWaitForKey
             \/ KeypadEfiReset
    BY <2>1 DEF TimerEvent, ReadKeyStroke, KeypadWaitForKey, KeypadEfiReset
  <2>2. CASE \E k \in KeyData, fn \in Functions \ {KeyNotify} : KeypadRegisterKeyNotify(k, fn)
    <3>1. PICK k \in KeyData, fn \in Functions \ {KeyNotify} : KeypadRegisterKeyNotify(k, fn)
      BY <2>2
    <3>2. CASE UNCHANGED reg
      BY <3>2
    <3>3. ASSUME NEW h \in Handles \ DOMAIN reg,
                 reg' = [i \in DOMAIN reg \union {h} |->
                           IF i = h THEN [key |-> k, fn |-> fn] ELSE reg[i]]
          PROVE  \A g \in DOMAIN reg : g \in DOMAIN reg' /\ reg'[g] = reg[g]
      BY <3>3
    <3>4. QED  BY <3>1, <3>2, <3>3 DEF KeypadRegisterKeyNotify
  <2>3. CASE \E h \in DOMAIN reg : reg[h].fn # KeyNotify /\ KeypadUnregisterKeyNotify(h)
    BY <2>3 DEF KeypadUnregisterKeyNotify
  <2>4. QED  BY <2>1, <2>2, <2>3 DEF OtherClient
<1>2. \A h \in DOMAIN reg' : reg'[h].fn = KeyNotify => h \in DOMAIN reg /\ reg'[h] = reg[h]
  <2>1. CASE TimerEvent \/ (\E extended \in BOOLEAN : ReadKeyStroke(extended)) \/ KeypadWaitForKey
             \/ KeypadEfiReset
    BY <2>1 DEF TimerEvent, ReadKeyStroke, KeypadWaitForKey, KeypadEfiReset
  <2>2. CASE \E k \in KeyData, fn \in Functions \ {KeyNotify} : KeypadRegisterKeyNotify(k, fn)
    <3>1. PICK k \in KeyData, fn \in Functions \ {KeyNotify} : KeypadRegisterKeyNotify(k, fn)
      BY <2>2
    <3>2. CASE UNCHANGED reg
      BY <3>2
    <3>3. ASSUME NEW h \in Handles \ DOMAIN reg,
                 reg' = [i \in DOMAIN reg \union {h} |->
                           IF i = h THEN [key |-> k, fn |-> fn] ELSE reg[i]]
          PROVE  \A g \in DOMAIN reg' : reg'[g].fn = KeyNotify => g \in DOMAIN reg /\ reg'[g] = reg[g]
      BY <3>1, <3>3
    <3>4. QED  BY <3>1, <3>2, <3>3 DEF KeypadRegisterKeyNotify
  <2>3. CASE \E h \in DOMAIN reg : reg[h].fn # KeyNotify /\ KeypadUnregisterKeyNotify(h)
    BY <2>3 DEF KeypadUnregisterKeyNotify
  <2>4. QED  BY <2>1, <2>2, <2>3 DEF OtherClient
<1>3. Registered' <=> Registered
  BY <1>1, <1>2 DEF Registered
<1>4. bm \in {"console", "register"} => ~heard'
  BY RegisteredIs DEF OursInv
<1>5. QED  BY <1>2, <1>3, <1>4, OthersKeepWalk DEF OursInv

\* A poll, or another service, on the way of a press to KeyNotify.
LEMMA OthersHear ==
  ASSUME HotkeyAssumption, KeypadAssumption, KeypadInv, KeypadInv', QueueOrdered, QueueOrdered',
         OursInv, HeardInv, TimerEvent \/ OtherClient, HearsVolumeUp,
         UNCHANGED <<bm, mNotifyHandle, mEnterBootManager>>
  PROVE  OursInv' /\ HeardInv'
<1>1. heard' = heard \/ Registered
  BY DEF HearsVolumeUp, OursInv
<1>2. heard' \in BOOLEAN /\ (heard => heard')
  BY DEF HearsVolumeUp, OursInv
<1>3. OursInv' /\ (Registered' <=> Registered)
  BY <1>1, <1>2, OthersLeaveOurs
<1>4. handler' = handler
  BY OthersKeepWalk
<1>5. \A i \in 1..Len(notifyQueue') :
        \/ \E j \in 1..Len(notifyQueue) : notifyQueue'[i] = notifyQueue[j]
        \/ notifyQueue'[i].n > pressed
  <2>1. CASE \E keys \in Accepted : KeypadTimerHandler(Presses(keys))
    BY <2>1, PollOrder
  <2>2. CASE notifyQueue' \in {notifyQueue, <<>>}
    BY <2>2, EmptySeq
  <2>3. QED  BY <2>1, <2>2 DEF TimerEvent, OtherClient, ReadKeyStroke, KeypadWaitForKey,
         KeypadEfiReset, KeypadRegisterKeyNotify, KeypadUnregisterKeyNotify
<1>6. ASSUME Registered, NEW i \in 1..Len(notifyQueue'), IsVolumeUp(notifyQueue'[i])
      PROVE  heard'
  <2>1. CASE \E j \in 1..Len(notifyQueue) : notifyQueue'[i] = notifyQueue[j]
    BY <1>2, <1>6, <2>1 DEF HeardInv
  <2>2. CASE notifyQueue'[i].n > pressed
    <3>1. i \in DOMAIN notifyQueue'
      BY LenProperties DEF KeypadInv, KeypadTypeOK
    <3>2. QED  BY <1>6, <2>2, <3>1 DEF HearsVolumeUp, IsVolumeUp
  <2>3. QED  BY <1>5, <1>6, <2>1, <2>2
<1>7. HeardInv'
  BY <1>2, <1>3, <1>4, <1>6 DEF HeardInv, IsVolumeUp
<1>8. QED  BY <1>3, <1>7

\* KeyNotify is called for a press of Volume Up that was polled while it was
\* registered.
LEMMA NotifyHears ==
  ASSUME HotkeyAssumption, KeypadAssumption, KeypadInv, OursInv, HeardInv,
         KeyNotifyProcessHandler, UNCHANGED <<bm, mNotifyHandle, heard>>,
         mEnterBootManager' =
           (mEnterBootManager \/ (handler'.pc = "call" /\ reg[handler'.link].fn = KeyNotify))
  PROVE  OursInv' /\ HeardInv'
<1>1. UNCHANGED <<reg, notifyList>> /\ (Registered' <=> Registered)
  BY DEF KeyNotifyProcessHandler, PopForNotify, NotifyQueueEmpty, FunctionReturns,
         FreedFunctionReturns, console, Registered
<1>2. ASSUME handler'.pc = "call", Registered, IsVolumeUp(handler'.press) PROVE heard
  <2>1. CASE handler.pc = "call" /\ handler'.press = handler.press
    BY <1>2, <2>1 DEF HeardInv
  <2>2. CASE Len(notifyQueue) > 0 /\ handler'.press = notifyQueue[1]
    <3>1. 1 \in 1..Len(notifyQueue)
      BY <2>2, LenProperties DEF KeypadInv, KeypadTypeOK
    <3>2. QED  BY <1>2, <2>2, <3>1 DEF HeardInv
  <2>3. InFunction => handler.pc = "call"
    BY DEF OursInv, InFunction
  <2>4. QED  BY <1>2, <2>1, <2>2, <2>3, HandlerPops
<1>3. ASSUME handler'.pc = "call", reg[handler'.link].fn = KeyNotify
      PROVE  Registered /\ IsVolumeUp(handler'.press)
  <2>1. handler'.link \in DOMAIN reg /\ IsKeyRegistered(reg[handler'.link].key, handler'.press.key)
    BY <1>3, HandlerPops
  <2>2. reg[handler'.link].key = VolumeUp /\ Registered
    BY <1>3, <2>1, RegisteredIs DEF OursInv
  <2>3. QED  BY <2>1, <2>2 DEF IsKeyRegistered, VolumeUp, IsVolumeUp
<1>4. mEnterBootManager' \in BOOLEAN /\ (mEnterBootManager' => heard)
  BY <1>2, <1>3 DEF OursInv, HeardInv
<1>5. OursInv'
  <2>1. bm \in {"console", "register"} => ~mEnterBootManager'
    BY <1>4 DEF OursInv
  <2>2. handler'.pc \notin {"freed", "lost"}
    BY HandlerPops DEF OursInv
  <2>3. QED  BY <1>1, <1>4, <2>1, <2>2 DEF OursInv
<1>6. ASSUME Registered, NEW i \in 1..Len(notifyQueue'), IsVolumeUp(notifyQueue'[i])
      PROVE  heard
  <2> DEFINE j == i + (Len(notifyQueue) - Len(notifyQueue'))
  <2>1. notifyQueue'[i] = notifyQueue[j] /\ j \in 1..Len(notifyQueue)
    <3>1. Len(notifyQueue) \in Nat
      BY LenProperties DEF KeypadInv, KeypadTypeOK
    <3>2. QED  BY <3>1, HandlerPops
  <2> HIDE DEF j
  <2>2. QED  BY <1>6, <2>1 DEF HeardInv
<1>7. HeardInv'
  BY <1>1, <1>2, <1>4, <1>6 DEF HeardInv, IsVolumeUp
<1>8. QED  BY <1>5, <1>7

HotkeyInv == KeypadInv /\ QueueOrdered /\ OursInv /\ HeardInv

LEMMA HotkeyStep ==
  ASSUME KeypadAssumption, HotkeyAssumption, HotkeyInv, [HNext]_hvars
  PROVE  HotkeyInv'
<1>1. KeypadInv /\ QueueOrdered /\ OursInv /\ HeardInv /\ [Next]_vars
  BY BootIsDriver DEF HotkeyInv
<1>2. KeypadInv' /\ QueueOrdered'
  BY <1>1, KeypadStep, OrderStep
<1>3. SUFFICES OursInv' /\ HeardInv'
  BY <1>2 DEF HotkeyInv
<1>4. CASE BootManager
  BY <1>1, <1>2, <1>4, BootManagerHears
<1>5. CASE /\ (TimerEvent \/ OtherClient) /\ HearsVolumeUp
           /\ UNCHANGED <<bm, mNotifyHandle, mEnterBootManager>>
  BY <1>1, <1>2, <1>5, OthersHear
<1>6. CASE Dispatch /\ UNCHANGED boot
  <2>1. handler'.pc = "pop" /\ UNCHANGED <<reg, notifyQueue, bm, mNotifyHandle, mEnterBootManager, heard>>
    BY <1>6 DEF Dispatch, NextKey, Idle, boot
  <2>2. QED  BY <1>1, <2>1 DEF OursInv, HeardInv, Registered, IsVolumeUp
<1>7. CASE Notify
  BY <1>1, <1>7, NotifyHears DEF Notify
<1>8. CASE UNCHANGED hvars
  BY <1>1, <1>8 DEF OursInv, HeardInv, Registered, IsVolumeUp, hvars, vars, console
<1>9. QED  BY <1>4, <1>5, <1>6, <1>7, <1>8 DEF HNext

LEMMA HotkeyAlways == HSpec => []HotkeyInv
<1>1. HInit => HotkeyInv
  <2>1. SUFFICES ASSUME HInit PROVE HotkeyInv
    OBVIOUS
  <2>2. KeypadInv /\ OursInv /\ HeardInv
    BY <2>1, KeypadInit, HotkeyInit, KeypadAssumption, HotkeyAssumption DEF HInit
  <2>3. QueueOrdered
    BY <2>1, EmptySeq DEF HInit, Init, QueueOrdered
  <2>4. QED  BY <2>2, <2>3 DEF HotkeyInv
<1>2. HotkeyInv /\ [HNext]_hvars => HotkeyInv'
  BY HotkeyStep, KeypadAssumption, HotkeyAssumption
<1>3. QED  BY <1>1, <1>2, PTL DEF HSpec

\* Whatever the other clients register and unregister, the handle the boot
\* manager keeps names its own registration until it takes that back.
THEOREM HandleStaysOurs == HSpec => []HandleIsOurs
<1>1. HotkeyInv => HandleIsOurs
  BY DEF HotkeyInv, OursInv, HandleIsOurs
<1>2. QED  BY <1>1, HotkeyAlways, PTL

\* The menu is never asked for unless Volume Up was polled while KeyNotify was
\* registered, whatever the size of the notify queue.
THEOREM MenuOnlyWhenPressed == HSpec => [](bm \in {"menu", "menu_not_found"} => heard)
<1>1. HotkeyInv => (bm \in {"menu", "menu_not_found"} => heard)
  BY DEF HotkeyInv, HeardInv
<1>2. QED  BY <1>1, HotkeyAlways, PTL

-----------------------------------------------------------------------------
(***************************************************************************)
(* The other direction, a press that was heard starts the menu, needs room *)
(* in the notify queue: a full ring drops the oldest key.                  *)
(***************************************************************************)
\* A press of Volume Up will still reach KeyNotify: it waits, or the walk for
\* it has not come to the boot manager's registration yet.
OnTheWay ==
  /\ Registered
  /\ \/ \E i \in 1..Len(notifyQueue) : IsVolumeUp(notifyQueue[i])
     \/ /\ handler.pc = "call" /\ IsVolumeUp(handler.press)
        /\ \E i, j \in 1..Len(notifyList) :
             i < j /\ notifyList[i] = handler.link /\ notifyList[j] = mNotifyHandle

\* A copy for every press and registration, at most, waits.
RoomInv == Len(notifyQueue) <= Cardinality(Handles) * pressed

WayInv ==
  /\ heard => mEnterBootManager \/ OnTheWay
  /\ bm = "boot" => ~heard

LEMMA ListFits ==
  ASSUME KeypadInv, IsFiniteSet(Handles)
  PROVE  Len(notifyList) <= Cardinality(Handles)
<1>1. /\ Len(notifyList) \in Nat /\ DOMAIN notifyList = 1..Len(notifyList)
      /\ \A i \in 1..Len(notifyList) : notifyList[i] \in Handles
  BY LenProperties, ElementOfSeq DEF KeypadInv, KeypadTypeOK
<1> DEFINE f == [i \in 1..Len(notifyList) |-> notifyList[i]]
<1>2. f \in Injection(1..Len(notifyList), Handles)
  <2>1. f \in [1..Len(notifyList) -> Handles]
    BY <1>1
  <2>2. \A a, b \in 1..Len(notifyList) : f[a] = f[b] => a = b
    BY <1>1 DEF KeypadInv, WalkOnLive, IsInjective
  <2>3. QED  BY <2>1, <2>2 DEF Injection, IsInjective
<1>3. Cardinality(1..Len(notifyList)) <= Cardinality(Handles)
  BY <1>2, FS_Injection
<1>4. Cardinality(1..Len(notifyList)) = Len(notifyList)
  BY <1>1, UpTo
<1>5. QED  BY <1>3, <1>4

LEMMA ProductGrows ==
  ASSUME NEW a \in Nat, NEW b \in Nat, NEW c \in Nat, b <= c
  PROVE  a * b <= a * c /\ a * b \in Nat /\ a * b = b * a /\ a * (b + c) = a * b + a * c
OBVIOUS

LEMMA CopiesRoom ==
  ASSUME KeypadInv, IsFiniteSet(Handles), NEW presses, Len(presses) \in Nat
  PROVE  CopyCount(presses, Len(presses)) <= Cardinality(Handles) * Len(presses)
<1> DEFINE n == Len(presses)
           l == Len(notifyList)
<1>1. l \in Nat /\ l <= Cardinality(Handles) /\ Cardinality(Handles) \in Nat
  BY ListFits, LenProperties, FS_CardinalityType DEF KeypadInv, KeypadTypeOK
<1>2. IsFiniteSet(1..n) /\ Cardinality(1..n) = n /\ IsFiniteSet(1..l) /\ Cardinality(1..l) = l
  BY <1>1, UpTo
<1>3. IsFiniteSet((1..n) \X (1..l)) /\ Cardinality((1..n) \X (1..l)) = n * l
  <2> DEFINE S == 1..n
             T == 1..l
  <2> HIDE DEF S, T
  <2>1. IsFiniteSet(S) /\ IsFiniteSet(T) /\ Cardinality(S) = n /\ Cardinality(T) = l
    BY <1>2 DEF S, T
  <2>2. IsFiniteSet(S \X T) /\ Cardinality(S \X T) = Cardinality(S) * Cardinality(T)
    BY <2>1, FS_Product
  <2>3. QED  BY <2>1, <2>2 DEF S, T
<1>4. Copies(presses, n) \subseteq (1..n) \X (1..l)
  BY DEF Copies
<1>5. CopyCount(presses, n) <= n * l /\ CopyCount(presses, n) \in Nat
  BY <1>3, <1>4, FS_Subset, FS_CardinalityType DEF CopyCount
<1> HIDE DEF n, l
<1>6. n \in Nat
  BY DEF n
<1>7. n * l <= n * Cardinality(Handles) /\ n * Cardinality(Handles) = Cardinality(Handles) * n
      /\ n * l \in Nat /\ n * Cardinality(Handles) \in Nat
  BY <1>1, <1>6, ProductGrows
<1> HIDE DEF CopyCount
<1>8. CopyCount(presses, n) <= Cardinality(Handles) * n
  BY <1>5, <1>7
<1>9. QED  BY <1>8 DEF n

\* Where there is room, a poll drops nothing that waits.
LEMMA PollDropsNothing ==
  ASSUME CopiesFit, KeypadAssumption, KeypadInv, RoomInv, NEW keys \in Accepted,
         KeypadTimerHandler(Presses(keys))
  PROVE  /\ RoomInv' /\ Len(notifyQueue) <= Len(notifyQueue')
         /\ \A i \in 1..Len(notifyQueue) : notifyQueue'[i] = notifyQueue[i]
<1> DEFINE presses == Presses(keys)
           copies  == ToNotify(presses)
           waiting == notifyQueue \o copies
           card    == Cardinality(Handles)
<1>1. /\ pressed \in 0..MaxPresses /\ MaxPresses \in Nat /\ pressed \in Nat
      /\ notifyQueue \in Seq(Press) /\ notifyList \in Seq(Handles)
      /\ Len(notifyQueue) \in Nat /\ Len(notifyList) \in Nat
  BY LenProperties DEF KeypadInv, KeypadTypeOK, KeypadAssumption
<1>2. card \in Nat /\ IsFiniteSet(Handles) /\ card * MaxPresses <= Limit
      /\ Limit \in Nat
  BY FS_CardinalityType DEF CopiesFit, Limit, KeypadAssumption
<1>3. /\ presses \in Seq(Press) /\ Len(presses) = Len(keys) /\ Len(keys) \in Nat
      /\ pressed + Len(keys) <= MaxPresses
  BY <1>1, PollIs
<1>4. pressed' = pressed + Len(keys) /\ notifyQueue' = Kept(waiting)
  BY <1>3 DEF KeypadTimerHandler
<1> HIDE DEF presses
<1>5. copies \in Seq(Press) /\ Len(copies) = CopyCount(presses, Len(presses))
  BY <1>1, <1>3, CopiesAre
<1>6. Len(copies) \in Nat /\ Len(copies) <= card * Len(keys)
  BY <1>2, <1>3, <1>5, CopiesRoom, LenProperties
<1> HIDE DEF copies
<1>7. /\ waiting \in Seq(Press) /\ Len(waiting) = Len(notifyQueue) + Len(copies)
      /\ \A i \in 1..Len(notifyQueue) : waiting[i] = notifyQueue[i]
  <2>1. /\ waiting \in Seq(Press) /\ Len(waiting) = Len(notifyQueue) + Len(copies)
        /\ \A i \in 1..Len(notifyQueue) + Len(copies) :
             waiting[i] = IF i <= Len(notifyQueue) THEN notifyQueue[i]
                          ELSE copies[i - Len(notifyQueue)]
    BY <1>1, <1>5, ConcatProperties
  <2> HIDE DEF waiting
  <2>2. \A i \in 1..Len(notifyQueue) : i \in 1..Len(notifyQueue) + Len(copies)
    BY <1>1, <1>6
  <2>3. QED  BY <2>1, <2>2
<1> HIDE DEF waiting, card
<1>8. Len(waiting) <= card * (pressed + Len(keys))
  <2>1. Len(notifyQueue) <= card * pressed
    BY DEF RoomInv, card
  <2>2. card * (pressed + Len(keys)) = card * pressed + card * Len(keys)
    BY <1>1, <1>2, <1>3
  <2>3. card * pressed \in Nat /\ card * Len(keys) \in Nat
    BY <1>1, <1>2, <1>3
  <2>4. QED  BY <1>1, <1>6, <1>7, <2>1, <2>2, <2>3
<1>9. Len(waiting) <= Limit
  <2>1. pressed + Len(keys) \in Nat /\ Len(waiting) \in Nat
    BY <1>1, <1>3, <1>6, <1>7
  <2>2. card * (pressed + Len(keys)) <= card * MaxPresses
        /\ card * (pressed + Len(keys)) \in Nat /\ card * MaxPresses \in Nat
    BY <1>1, <1>2, <1>3, <2>1, ProductGrows
  <2>3. QED  BY <1>2, <1>8, <2>1, <2>2
<1>10. notifyQueue' = waiting
  BY <1>4, <1>9 DEF Kept
<1>11. RoomInv'
  BY <1>4, <1>8, <1>10 DEF RoomInv, card
<1>12. QED  BY <1>1, <1>6, <1>7, <1>10, <1>11

\* Registering and unregistering others keeps the order of the list.
LEMMA OrderOfList ==
  ASSUME HotkeyAssumption, KeypadAssumption, KeypadInv, OursInv, OtherClient, Registered,
         NEW i \in 1..Len(notifyList), NEW j \in 1..Len(notifyList), i < j,
         handler.pc = "call", notifyList[i] = handler.link, notifyList[j] = mNotifyHandle
  PROVE  \E a, b \in 1..Len(notifyList') :
           a < b /\ notifyList'[a] = handler.link /\ notifyList'[b] = mNotifyHandle
<1>1. notifyList \in Seq(Handles) /\ Len(notifyList) \in Nat
  BY LenProperties DEF KeypadInv, KeypadTypeOK
<1>2. CASE UNCHANGED notifyList
  BY <1>2
<1>3. CASE \E k \in KeyData, fn \in Functions \ {KeyNotify} : KeypadRegisterKeyNotify(k, fn)
  <2>1. CASE UNCHANGED notifyList
    BY <2>1
  <2>2. ASSUME NEW h \in Handles, notifyList' = Append(notifyList, h)
        PROVE  /\ i \in 1..Len(notifyList') /\ j \in 1..Len(notifyList')
               /\ notifyList'[i] = notifyList[i] /\ notifyList'[j] = notifyList[j]
    <3>1. /\ Len(notifyList') = Len(notifyList) + 1
          /\ \A a \in 1..Len(notifyList) : notifyList'[a] = notifyList[a]
      BY <1>1, <2>2, AppendProperties
    <3>2. QED  BY <1>1, <3>1
  <2>3. QED  BY <1>3, <2>1, <2>2 DEF KeypadRegisterKeyNotify
<1>4. CASE \E h \in DOMAIN reg \ {handler.link} :
             reg[h].fn # KeyNotify /\ KeypadUnregisterKeyNotify(h)
  <2>1. PICK h \in DOMAIN reg \ {handler.link} :
          reg[h].fn # KeyNotify /\ KeypadUnregisterKeyNotify(h)
    BY <1>4
  <2>2. h # handler.link /\ h # mNotifyHandle
    BY <2>1 DEF KeypadUnregisterKeyNotify, Registered
  <2> DEFINE p == Place(h)
             At(k) == IF k < p THEN k ELSE k - 1
  <2>3. /\ Len(notifyList') = Len(notifyList) - 1 /\ p \in 1..Len(notifyList)
        /\ \A a \in 1..Len(notifyList') :
             notifyList'[a] = IF a < p THEN notifyList[a] ELSE notifyList[a + 1]
    BY <2>1, UnregisterStep DEF KeypadUnregisterKeyNotify
  <2>4. notifyList[p] = h
    BY <1>1, PlaceIs DEF KeypadInv
  <2> HIDE DEF p
  <2>5. p # i /\ p # j
    BY <2>2, <2>4
  <2>6. /\ At(i) \in 1..Len(notifyList') /\ At(j) \in 1..Len(notifyList') /\ At(i) < At(j)
        /\ At(i) < p => At(i) = i
        /\ ~(At(i) < p) => At(i) + 1 = i
        /\ At(j) < p => At(j) = j
        /\ ~(At(j) < p) => At(j) + 1 = j
    BY <1>1, <2>3, <2>5
  <2> HIDE DEF At
  <2>7. notifyList'[At(i)] = notifyList[i] /\ notifyList'[At(j)] = notifyList[j]
    BY <2>3, <2>6
  <2>8. QED  BY <2>6, <2>7
<1>5. QED  BY <1>2, <1>3, <1>4 DEF OtherClient, ReadKeyStroke, KeypadWaitForKey, KeypadEfiReset

LEMMA OthersOnTheWay ==
  ASSUME CopiesFit, HotkeyAssumption, KeypadAssumption, HotkeyInv, HotkeyInv', RoomInv, WayInv,
         TimerEvent \/ OtherClient, HearsVolumeUp, UNCHANGED <<bm, mNotifyHandle, mEnterBootManager>>
  PROVE  RoomInv' /\ WayInv'
<1>1. /\ KeypadInv /\ KeypadInv' /\ OursInv /\ HeardInv /\ QueueOrdered /\ QueueOrdered'
      /\ heard \in BOOLEAN /\ heard' \in BOOLEAN
  BY DEF HotkeyInv, OursInv
<1>2. handler' = handler
  BY OthersKeepWalk
<1>3. Registered' <=> Registered
  <2>1. heard' = heard \/ Registered
    BY <1>1 DEF HearsVolumeUp
  <2>2. QED  BY <1>1, <2>1, OthersLeaveOurs
<1>4. /\ Len(notifyQueue) \in Nat /\ Len(notifyQueue') \in Nat
      /\ DOMAIN notifyQueue' = 1..Len(notifyQueue')
  BY <1>1, LenProperties DEF KeypadInv, KeypadTypeOK
<1>5. bm' = "boot" => ~heard'
  <2>1. bm = "boot" => ~Registered /\ ~heard
    BY <1>1, RegisteredIs DEF WayInv
  <2>2. QED  BY <2>1 DEF HearsVolumeUp
<1>6. SUFFICES RoomInv' /\ (heard' => mEnterBootManager \/ OnTheWay')
  BY <1>5 DEF WayInv
<1>7. ASSUME handler.pc = "call", Registered, IsVolumeUp(handler.press),
             \E i, j \in 1..Len(notifyList) :
               i < j /\ notifyList[i] = handler.link /\ notifyList[j] = mNotifyHandle
      PROVE  OnTheWay'
  <2>1. PICK i \in 1..Len(notifyList), j \in 1..Len(notifyList) :
          i < j /\ notifyList[i] = handler.link /\ notifyList[j] = mNotifyHandle
    BY <1>7
  <2>2. OtherClient
    BY <1>7 DEF TimerEvent
  <2>3. \E a, b \in 1..Len(notifyList') :
          a < b /\ notifyList'[a] = handler.link /\ notifyList'[b] = mNotifyHandle
    BY <1>1, <1>7, <2>1, <2>2, OrderOfList
  <2>4. QED  BY <1>2, <1>3, <1>7, <2>3 DEF OnTheWay, IsVolumeUp
<1>8. CASE \E keys \in Accepted : KeypadTimerHandler(Presses(keys))
  <2>1. /\ RoomInv' /\ Len(notifyQueue) <= Len(notifyQueue')
        /\ \A i \in 1..Len(notifyQueue) : notifyQueue'[i] = notifyQueue[i]
    BY <1>1, <1>8, PollDropsNothing
  <2>2. \A i \in 1..Len(notifyQueue) : i \in 1..Len(notifyQueue')
    BY <1>4, <2>1
  <2>3. OnTheWay => OnTheWay'
    BY <1>3, <1>7, <2>1, <2>2 DEF OnTheWay, IsVolumeUp
  <2>4. ASSUME heard', ~heard PROVE OnTheWay'
    BY <1>3, <1>4, <2>4 DEF HearsVolumeUp, OnTheWay, IsVolumeUp
  <2>5. QED  BY <2>1, <2>3, <2>4 DEF WayInv
<1>9. CASE UNCHANGED <<notifyQueue, pressed>>
  <2>1. RoomInv'
    BY <1>9 DEF RoomInv
  <2>2. heard' => heard
    <3>1. \A i \in 1..Len(notifyQueue') : notifyQueue'[i].n \in 1..pressed
      BY <1>1, <1>9 DEF QueueOrdered
    <3>2. \A i \in DOMAIN notifyQueue' : ~(notifyQueue'[i].n > pressed)
      <4>1. pressed \in Nat
        BY <1>1 DEF KeypadInv, KeypadTypeOK, KeypadAssumption
      <4>2. QED  BY <1>4, <3>1, <4>1
    <3>3. QED  BY <3>2 DEF HearsVolumeUp
  <2>3. OnTheWay => OnTheWay'
    BY <1>3, <1>7, <1>9 DEF OnTheWay, IsVolumeUp
  <2>4. QED  BY <2>1, <2>2, <2>3 DEF WayInv
<1>10. CASE handler.pc = "idle" /\ KeypadEfiReset
  <2>1. AppRuns /\ notifyQueue' = <<>> /\ pressed' = pressed
    BY <1>10 DEF KeypadEfiReset, ClientRuns, InFunction, AppRuns, history
  <2>2. notifyQueue = <<>> /\ Len(notifyQueue) = 0
    BY <1>1, <2>1, QuietWhenAppRuns
  <2>3. QED  BY <1>9, <2>1, <2>2
<1>11. QED  BY <1>8, <1>9, <1>10
  DEF TimerEvent, OtherClient, ReadKeyStroke, KeypadWaitForKey, KeypadRegisterKeyNotify,
      KeypadUnregisterKeyNotify, history

\* The handler brings a press that waits to KeyNotify: it calls the functions
\* before it in the list, then KeyNotify.
LEMMA HandlerOnTheWay ==
  ASSUME HotkeyAssumption, KeypadAssumption, HotkeyInv, WayInv, Notify
  PROVE  WayInv'
<1>1. KeypadInv /\ OursInv /\ HeardInv
  BY DEF HotkeyInv
<1>2. /\ notifyQueue \in Seq(Press) /\ notifyList \in Seq(Handles) /\ WalkOnLive
      /\ Len(notifyQueue) \in Nat /\ handler.press \in Press /\ Len(notifyList) \in Nat
      /\ DOMAIN notifyList = 1..Len(notifyList)
  BY <1>1, LenProperties DEF KeypadInv, KeypadTypeOK
<1>3. /\ UNCHANGED <<reg, notifyList, pressed, bm, mNotifyHandle, heard>>
      /\ (Registered' <=> Registered)
      /\ mEnterBootManager \in BOOLEAN
      /\ mEnterBootManager' =
           (mEnterBootManager \/ (handler'.pc = "call" /\ reg[handler'.link].fn = KeyNotify))
  BY <1>1 DEF Notify, KeyNotifyProcessHandler, PopForNotify, NotifyQueueEmpty, FunctionReturns,
              FreedFunctionReturns, console, history, Registered, OursInv
\* The walk from a place at or before ours: it ends at ours or goes on before it.
<1>4. ASSUME NEW press \in Press, NEW from \in Nat, CallFirst(press, from),
             Registered, IsVolumeUp(press),
             NEW j \in 1..Len(notifyList), notifyList[j] = mNotifyHandle, from <= j
      PROVE  mEnterBootManager' \/ OnTheWay'
  <2>1. j \in Matching(press.key)
    <3>1. reg[mNotifyHandle].key = VolumeUp
      BY <1>1, <1>4, RegisteredIs
    <3>2. QED  BY <1>4, <3>1 DEF Matching, IsKeyRegistered, VolumeUp, IsVolumeUp
  <2>2. ~(j < from)
    BY <1>2, <1>4
  <2>3. /\ handler'.pc = "call" /\ handler'.press = press
        /\ \E i \in Matching(press.key) :
             /\ from <= i /\ handler'.link = notifyList[i] /\ notifyList[i] \in DOMAIN reg
             /\ \A k \in Matching(press.key) : from <= k => i <= k
    BY <1>2, <1>4, <2>1, <2>2, CallFirstIs
  <2>4. PICK i \in Matching(press.key) :
          /\ handler'.link = notifyList[i]
          /\ \A k \in Matching(press.key) : from <= k => i <= k
    BY <2>3
  <2>5. i \in 1..Len(notifyList) /\ i <= j
    BY <1>4, <2>1, <2>4 DEF Matching
  <2>6. CASE i = j
    BY <1>3, <1>4, <2>3, <2>4, <2>6 DEF Registered
  <2>7. CASE i < j
    <3>1. IsVolumeUp(handler'.press)
      BY <1>4, <2>3
    <3>2. \E a, b \in 1..Len(notifyList') :
            a < b /\ notifyList'[a] = handler'.link /\ notifyList'[b] = mNotifyHandle'
      BY <1>3, <1>4, <2>4, <2>5, <2>7
    <3>3. QED  BY <1>3, <1>4, <2>3, <3>1, <3>2 DEF OnTheWay, IsVolumeUp
  <2>8. QED  BY <1>2, <2>5, <2>6, <2>7
<1>5. ASSUME Registered
      PROVE  \E j \in 1..Len(notifyList) : notifyList[j] = mNotifyHandle
  BY <1>2, <1>5 DEF Registered, WalkOnLive, Range
<1>6. CASE PopForNotify
  <2>1. /\ notifyQueue # <<>> /\ notifyQueue' = Tail(notifyQueue) /\ handler.pc = "pop"
        /\ CallFirst(Head(notifyQueue), 1)
    BY <1>6 DEF PopForNotify
  <2>2. /\ Head(notifyQueue) \in Press /\ Head(notifyQueue) = notifyQueue[1]
        /\ Len(notifyQueue') = Len(notifyQueue) - 1
        /\ \A i \in 1..Len(notifyQueue') : notifyQueue'[i] = notifyQueue[i + 1]
    BY <1>2, <2>1, HeadTailProperties
  <2>3. ASSUME Registered, NEW i \in 1..Len(notifyQueue), IsVolumeUp(notifyQueue[i])
        PROVE  mEnterBootManager' \/ OnTheWay'
    <3>1. CASE i = 1
      <4>1. PICK j \in 1..Len(notifyList) : notifyList[j] = mNotifyHandle
        BY <1>5, <2>3
      <4>2. 1 <= j /\ 1 \in Nat
        BY <1>2
      <4>3. IsVolumeUp(Head(notifyQueue))
        BY <2>2, <2>3, <3>1
      <4>4. QED  BY <1>4, <2>1, <2>2, <2>3, <4>1, <4>2, <4>3
    <3>2. CASE i # 1
      <4>1. i - 1 \in 1..Len(notifyQueue') /\ (i - 1) + 1 = i
        BY <1>2, <2>2, <3>2
      <4>2. notifyQueue'[i - 1] = notifyQueue[i]
        BY <2>2, <4>1
      <4>3. QED  BY <1>3, <2>3, <4>1, <4>2 DEF OnTheWay, IsVolumeUp
    <3>3. QED  BY <3>1, <3>2
  <2>4. OnTheWay => mEnterBootManager' \/ OnTheWay'
    BY <2>1, <2>3 DEF OnTheWay
  <2>5. QED  BY <1>3, <2>4 DEF WayInv
<1>7. CASE NotifyQueueEmpty
  <2>1. notifyQueue = <<>> /\ Len(notifyQueue) = 0 /\ handler.pc = "pop" /\ notifyQueue' = notifyQueue
    BY <1>7, EmptySeq DEF NotifyQueueEmpty, console
  <2>2. ~OnTheWay
    BY <2>1 DEF OnTheWay
  <2>3. QED  BY <1>3, <2>1, <2>2 DEF WayInv
<1>8. CASE FunctionReturns
  <2>1. /\ notifyQueue' = notifyQueue /\ handler.pc = "call"
        /\ CallFirst(handler.press, Place(handler.link) + 1)
    BY <1>8 DEF FunctionReturns, console
  <2>2. /\ Place(handler.link) \in 1..Len(notifyList)
        /\ notifyList[Place(handler.link)] = handler.link
    BY <1>2, <2>1, PlaceIs DEF WalkOnLive
  <2>3. ASSUME Registered, IsVolumeUp(handler.press),
               NEW i \in 1..Len(notifyList), NEW j \in 1..Len(notifyList), i < j,
               notifyList[i] = handler.link, notifyList[j] = mNotifyHandle
        PROVE  mEnterBootManager' \/ OnTheWay'
    <3>1. Place(handler.link) = i
      BY <1>2, <2>2, <2>3 DEF WalkOnLive, IsInjective
    <3>2. i + 1 \in Nat /\ i + 1 <= j
      BY <1>2, <2>3
    <3>3. QED  BY <1>2, <1>4, <2>1, <2>3, <3>1, <3>2
  <2>4. OnTheWay => mEnterBootManager' \/ OnTheWay'
    <3>1. ASSUME Registered, NEW i \in 1..Len(notifyQueue), IsVolumeUp(notifyQueue[i])
          PROVE  OnTheWay'
      BY <1>3, <2>1, <3>1 DEF OnTheWay, IsVolumeUp
    <3>2. QED  BY <2>3, <3>1 DEF OnTheWay
  <2>5. QED  BY <1>3, <2>1, <2>4 DEF WayInv
<1>9. ~FreedFunctionReturns
  BY <1>1 DEF OursInv, FreedFunctionReturns
<1>10. QED  BY <1>6, <1>7, <1>8, <1>9 DEF Notify, KeyNotifyProcessHandler

LEMMA WayStep ==
  ASSUME CopiesFit, KeypadAssumption, HotkeyAssumption, HotkeyInv, RoomInv, WayInv, [HNext]_hvars
  PROVE  RoomInv' /\ WayInv'
<1>1. HotkeyInv'
  BY HotkeyStep
<1>2. KeypadInv /\ KeypadInv' /\ OursInv /\ HeardInv
  BY <1>1 DEF HotkeyInv
<1>3. /\ Len(notifyQueue) \in Nat /\ Len(notifyQueue') \in Nat /\ pressed \in Nat
      /\ Cardinality(Handles) * pressed \in Nat
  <2>1. Cardinality(Handles) \in Nat
    BY FS_CardinalityType DEF CopiesFit
  <2>2. pressed \in Nat
    BY <1>2 DEF KeypadInv, KeypadTypeOK, KeypadAssumption
  <2>3. QED  BY <1>2, <2>1, <2>2, ProductGrows, LenProperties DEF KeypadInv, KeypadTypeOK
<1>4. ASSUME Len(notifyQueue') <= Len(notifyQueue), pressed' = pressed PROVE RoomInv'
  <2> DEFINE room == Cardinality(Handles) * pressed
  <2>1. room \in Nat /\ Len(notifyQueue) <= room
    BY <1>3 DEF RoomInv
  <2> HIDE DEF room
  <2>2. Len(notifyQueue') <= room
    BY <1>3, <1>4, <2>1
  <2>3. QED  BY <1>4, <2>2 DEF RoomInv, room
<1>5. CASE BootManager
  <2>1. AppRuns
    BY <1>5 DEF BootManager, NoKeypad, SetupKeypad, RegisterKeyNotify, RegisterOutOfResources,
                UnregisterKeyCallback, EnterBootManager
  <2>2. notifyQueue = <<>> /\ handler.pc = "idle" /\ Len(notifyQueue) = 0
    BY <1>2, <2>1, QuietWhenAppRuns
  <2>3. ~OnTheWay
    BY <2>2 DEF OnTheWay
  <2>4. Len(notifyQueue') = 0 /\ heard' = heard /\ mEnterBootManager' = mEnterBootManager
    BY <1>1, <1>2, <1>5, BootManagerHears
  <2>5. bm' = "boot" => ~heard'
    <3>1. bm' = "boot" => ~mEnterBootManager
      BY <1>5 DEF BootManager, NoKeypad, SetupKeypad, RegisterKeyNotify, RegisterOutOfResources,
                  UnregisterKeyCallback, EnterBootManager, Decision
    <3>2. QED  BY <2>3, <2>4, <3>1 DEF WayInv
  <2>6. pressed' = pressed
    BY <1>5 DEF BootManager, NoKeypad, SetupKeypad, RegisterKeyNotify, RegisterOutOfResources,
                UnregisterKeyCallback, EnterBootManager, KeypadEfiReset, KeypadRegisterKeyNotify,
                KeypadUnregisterKeyNotify, vars, history
  <2>7. QED  BY <1>3, <1>4, <2>2, <2>3, <2>4, <2>5, <2>6 DEF WayInv
<1>6. CASE /\ (TimerEvent \/ OtherClient) /\ HearsVolumeUp
           /\ UNCHANGED <<bm, mNotifyHandle, mEnterBootManager>>
  BY <1>1, <1>6, OthersOnTheWay
<1>7. CASE Dispatch /\ UNCHANGED boot
  <2>1. /\ handler.pc = "idle" /\ UNCHANGED <<reg, notifyQueue, notifyList, pressed>>
        /\ UNCHANGED <<bm, mNotifyHandle, mEnterBootManager, heard>>
    BY <1>7 DEF Dispatch, boot, history
  <2>2. OnTheWay => OnTheWay'
    BY <2>1 DEF OnTheWay, Registered, IsVolumeUp
  <2>3. QED  BY <1>3, <1>4, <2>1, <2>2 DEF WayInv
<1>8. CASE Notify
  <2>1. KeyNotifyProcessHandler /\ pressed' = pressed
    BY <1>8 DEF Notify, KeyNotifyProcessHandler, PopForNotify, NotifyQueueEmpty, FunctionReturns,
                FreedFunctionReturns, history
  <2>2. Len(notifyQueue') <= Len(notifyQueue)
    BY <1>2, <2>1, HandlerPops
  <2>3. QED  BY <1>4, <1>8, <2>1, <2>2, HandlerOnTheWay
<1>9. CASE UNCHANGED hvars
  <2>1. RoomInv'
    BY <1>3, <1>4, <1>9 DEF hvars, vars, console, history
  <2>2. WayInv'
    BY <1>9 DEF WayInv, OnTheWay, Registered, IsVolumeUp, hvars, vars, console
  <2>3. QED  BY <2>1, <2>2
<1>10. QED  BY <1>5, <1>6, <1>7, <1>8, <1>9 DEF HNext

\* Where the notify queue has room for every press and registration, the menu is
\* asked for exactly when Volume Up was polled while KeyNotify was registered.
THEOREM MenuDecided == ASSUME CopiesFit PROVE HSpec => []MenuWhenPressed
<1>1. HInit => RoomInv /\ WayInv
  <2>1. SUFFICES ASSUME HInit PROVE RoomInv /\ WayInv
    OBVIOUS
  <2>2. Len(notifyQueue) = 0 /\ pressed = 0 /\ heard = FALSE /\ bm = "console"
    BY <2>1, EmptySeq DEF HInit, Init
  <2>3. Cardinality(Handles) \in Nat
    BY FS_CardinalityType DEF CopiesFit
  <2>4. Cardinality(Handles) * 0 = 0
    BY <2>3
  <2>5. QED  BY <2>2, <2>4 DEF RoomInv, WayInv
<1>2. HotkeyInv /\ RoomInv /\ WayInv /\ [HNext]_hvars => RoomInv' /\ WayInv'
  BY WayStep, KeypadAssumption, HotkeyAssumption
<1>3. HotkeyInv /\ WayInv => MenuWhenPressed
  BY DEF HotkeyInv, HeardInv, WayInv, MenuWhenPressed
<1>4. QED  BY <1>1, <1>2, <1>3, HotkeyAlways, PTL DEF HSpec

=============================================================================
