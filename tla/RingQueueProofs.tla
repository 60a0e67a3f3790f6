--------------------------- MODULE RingQueueProofs ---------------------------
(***************************************************************************)
(* What a push does to a ring, whatever its capacity: the arithmetic of    *)
(* its slots, then its states index by index, then its whole contents.     *)
(***************************************************************************)
EXTENDS RingQueue, TLAPS

(* Between 0 and twice the capacity, one subtraction is the whole of %.    *)
LEMMA ModOnce ==
  ASSUME NEW c \in Nat \ {0}, NEW x \in 0 .. 2 * c - 1
  PROVE  /\ x % c = IF x < c THEN x ELSE x - c
         /\ x % c \in 0 .. c - 1
  OBVIOUS

(* The head walks round the ring.                                          *)
LEMMA HeadWraps ==
  ASSUME NEW c \in Nat \ {0}, NEW h \in 0 .. c - 1
  PROVE  (h + 1) % c = IF h + 1 = c THEN 0 ELSE h + 1
<1>1. CASE h + 1 = c
  BY <1>1
<1>2. CASE h + 1 < c
  BY <1>2
<1> QED
  BY <1>1, <1>2

(* Two logical indices less than a capacity apart share no slot.           *)
LEMMA SlotsDistinct ==
  ASSUME NEW c \in Nat \ {0}, NEW h \in 0 .. c - 1,
         NEW i \in 0 .. c - 1, NEW j \in 0 .. c - 1, i # j
  PROVE  (h + i) % c # (h + j) % c
<1>1. h + i \in 0 .. 2 * c - 1 /\ h + j \in 0 .. 2 * c - 1
  OBVIOUS
<1>2. (h + i) % c = IF h + i < c THEN h + i ELSE (h + i) - c
  BY <1>1, ModOnce
<1>3. (h + j) % c = IF h + j < c THEN h + j ELSE (h + j) - c
  BY <1>1, ModOnce
<1> DEFINE x == (h + i) % c
           y == (h + j) % c
<1> HIDE DEF x, y
<1>4. x # y
  BY <1>2, <1>3 DEF x, y
<1> QED
  BY <1>4 DEF x, y

(* Moving the head on by one moves every index on by one.                  *)
LEMMA HeadMoves ==
  ASSUME NEW c \in Nat \ {0}, NEW h \in 0 .. c - 1, NEW i \in 0 .. c - 2
  PROVE  (((h + 1) % c) + i) % c = (h + (i + 1)) % c
<1>1. CASE h + 1 < c
  <2>1. (h + 1) % c = h + 1
    BY <1>1, HeadWraps
  <2> QED
    BY <2>1
<1>2. CASE h + 1 = c
  <2>1. (h + 1) % c = 0
    BY <1>2, HeadWraps
  <2>2. h + (i + 1) = c + i /\ c + i \in 0 .. 2 * c - 1 /\ i \in 0 .. 2 * c - 1
    BY <1>2
  <2>3. (c + i) % c = i /\ i % c = i
    BY <2>2, ModOnce
  <2> QED
    BY <2>1, <2>2, <2>3
<1> QED
  BY <1>1, <1>2

(* The head's slot, seen from the moved head, is the newest one.           *)
LEMMA HeadBecomesLast ==
  ASSUME NEW c \in Nat \ {0}, NEW h \in 0 .. c - 1
  PROVE  (((h + 1) % c) + (c - 1)) % c = h
<1>1. CASE h + 1 < c
  <2>1. (h + 1) % c = h + 1
    BY <1>1, HeadWraps
  <2>2. (h + 1) + (c - 1) = h + c /\ h + c \in 0 .. 2 * c - 1
    BY <1>1
  <2>3. (h + c) % c = h
    BY <2>2, ModOnce
  <2> QED
    BY <2>1, <2>2, <2>3
<1>2. CASE h + 1 = c
  <2>1. (h + 1) % c = 0
    BY <1>2, HeadWraps
  <2> QED
    BY <1>2, <2>1, ModOnce
<1> QED
  BY <1>1, <1>2

-----------------------------------------------------------------------------

(* A push keeps a queue a queue, of the same capacity.                     *)
LEMMA PushType ==
  ASSUME NEW c \in Nat \ {0}, NEW S, NEW r \in QueueOf(c, S), NEW b \in S
  PROVE  Push(r, b) \in QueueOf(c, S)
<1>1. /\ r.buf \in [0 .. c - 1 -> S \cup {NoState}]
      /\ r.cap = c /\ r.len \in 0 .. c /\ r.head \in 0 .. c - 1
  BY DEF QueueOf
<1>2. CASE r.len < c
  <2>1. (r.head + r.len) % c \in 0 .. c - 1
    BY <1>1
  <2> QED
    BY <1>1, <1>2, <2>1 DEF QueueOf, Push, Slot
<1>3. CASE r.len = c
  <2>1. (r.head + 1) % c \in 0 .. c - 1
    BY <1>1
  <2> QED
    BY <1>1, <1>3, <2>1 DEF QueueOf, Push, Slot
<1> QED
  BY <1>1, <1>2, <1>3

(* What a push adds below capacity: b after what was there.                *)
LEMMA PushGrows ==
  ASSUME NEW c \in Nat \ {0}, NEW S, NEW r \in QueueOf(c, S), NEW b \in S,
         r.len < c
  PROVE  /\ Push(r, b).len = r.len + 1
         /\ At(Push(r, b), r.len) = b
         /\ \A i \in 0 .. r.len - 1 : At(Push(r, b), i) = At(r, i)
<1> DEFINE p == Push(r, b)
<1>1. /\ r.buf \in [0 .. c - 1 -> S \cup {NoState}]
      /\ r.cap = c /\ r.len \in 0 .. c /\ r.head \in 0 .. c - 1
  BY DEF QueueOf
<1>2. /\ p.buf = [r.buf EXCEPT ![(r.head + r.len) % c] = b]
      /\ p.cap = c /\ p.len = r.len + 1 /\ p.head = r.head
  BY <1>1 DEF Push, Slot
<1>3. (r.head + r.len) % c \in 0 .. c - 1
  BY <1>1
<1>4. At(p, r.len) = b
  BY <1>1, <1>2, <1>3 DEF At, Slot
<1>5. ASSUME NEW i \in 0 .. r.len - 1
      PROVE  At(p, i) = At(r, i)
  <2> DEFINE h == r.head
             l == r.len
  <2>0. h \in 0 .. c - 1 /\ l \in 0 .. c - 1 /\ i \in 0 .. c - 1 /\ i # l
    BY <1>1
  <2>1. (h + i) % c # (h + l) % c
    <3> HIDE DEF h, l
    <3> QED
      BY <2>0, SlotsDistinct
  <2>2. (r.head + i) % c \in 0 .. c - 1
    BY <1>1
  <2> QED
    BY <1>1, <1>2, <2>1, <2>2 DEF At, Slot
<1> QED
  BY <1>2, <1>4, <1>5

(* What a push adds at capacity: b last, and every index down by one.      *)
LEMMA PushEvicts ==
  ASSUME NEW c \in Nat \ {0}, NEW S, NEW r \in QueueOf(c, S), NEW b \in S,
         r.len = c
  PROVE  /\ Push(r, b).len = c
         /\ At(Push(r, b), c - 1) = b
         /\ \A i \in 0 .. c - 2 : At(Push(r, b), i) = At(r, i + 1)
<1> DEFINE p == Push(r, b)
<1>1. /\ r.buf \in [0 .. c - 1 -> S \cup {NoState}]
      /\ r.cap = c /\ r.head \in 0 .. c - 1
  BY DEF QueueOf
<1>2. /\ p.buf = [r.buf EXCEPT ![r.head] = b]
      /\ p.cap = c /\ p.len = c /\ p.head = (r.head + 1) % c
  BY <1>1 DEF Push
<1>3. At(p, c - 1) = b
  <2>1. Slot(p, c - 1) = r.head
    BY <1>1, <1>2, HeadBecomesLast DEF Slot
  <2> QED
    BY <1>1, <1>2, <2>1 DEF At
<1>4. ASSUME NEW i \in 0 .. c - 2
      PROVE  At(p, i) = At(r, i + 1)
  <2>1. (((r.head + 1) % c) + i) % c = (r.head + (i + 1)) % c
    BY <1>1, HeadMoves
  <2>2. Slot(p, i) = Slot(r, i + 1)
    BY <1>1, <1>2, <2>1 DEF Slot
  <2>3. i + 1 \in 0 .. c - 1 /\ 0 \in 0 .. c - 1 /\ i + 1 # 0
    OBVIOUS
  <2>4. (r.head + (i + 1)) % c # (r.head + 0) % c
    BY <1>1, <2>3, SlotsDistinct
  <2>5. (r.head + 0) % c = r.head
    BY <1>1
  <2>6. Slot(r, i + 1) \in 0 .. c - 1 /\ Slot(r, i + 1) # r.head
    <3>1. (r.head + (i + 1)) % c \in 0 .. c - 1
      BY <1>1
    <3> QED
      BY <1>1, <2>4, <2>5, <3>1 DEF Slot
  <2>7. p.buf[Slot(r, i + 1)] = r.buf[Slot(r, i + 1)]
    BY <1>1, <1>2, <2>6
  <2> QED
    BY <1>2, <2>2, <2>7 DEF At
<1> QED
  BY <1>2, <1>3, <1>4

(* What the ring stands for after a push: a bounded history's Remember.    *)
LEMMA ContentsOfPush ==
  ASSUME NEW c \in Nat \ {0}, NEW S, NEW r \in QueueOf(c, S), NEW b \in S
  PROVE  Contents(Push(r, b)) = IF Len(Contents(r)) < c
                                  THEN Append(Contents(r), b)
                                  ELSE Append(Tail(Contents(r)), b)
<1>1. r.len \in 0 .. c /\ r.len \in Nat
  BY DEF QueueOf
<1>2. /\ Contents(r) \in Seq({At(r, i) : i \in 0 .. r.len - 1})
      /\ Len(Contents(r)) = r.len
      /\ \A j \in 1 .. r.len : Contents(r)[j] = At(r, j - 1)
  BY <1>1 DEF Contents
<1>3. CASE r.len < c
  BY <1>1, <1>2, <1>3, PushGrows DEF Contents
<1>4. CASE r.len = c
  BY <1>1, <1>2, <1>4, PushEvicts DEF Contents
<1> QED
  BY <1>1, <1>3, <1>4

(* States pushed over states leave states: no unwritten slot comes into    *)
(* the part of the ring that is held.                                      *)
LEMMA PushKeepsHeld ==
  ASSUME NEW c \in Nat \ {0}, NEW S, NEW r \in QueueOf(c, S), NEW b \in S,
         \A i \in 0 .. r.len - 1 : At(r, i) \in S
  PROVE  \A i \in 0 .. Push(r, b).len - 1 : At(Push(r, b), i) \in S
<1>1. r.len \in 0 .. c
  BY DEF QueueOf
<1>2. CASE r.len < c
  <2>1. /\ Push(r, b).len = r.len + 1
        /\ At(Push(r, b), r.len) = b
        /\ \A i \in 0 .. r.len - 1 : At(Push(r, b), i) = At(r, i)
    BY <1>2, PushGrows
  <2> QED
    BY <1>1, <2>1
<1>3. CASE r.len = c
  <2>1. /\ Push(r, b).len = c
        /\ At(Push(r, b), c - 1) = b
        /\ \A i \in 0 .. c - 2 : At(Push(r, b), i) = At(r, i + 1)
    BY <1>3, PushEvicts
  <2>2. ASSUME NEW i \in 0 .. c - 1
        PROVE  At(Push(r, b), i) \in S
    <3>1. CASE i = c - 1
      BY <2>1, <3>1
    <3>2. CASE i \in 0 .. c - 2
      <4>1. i + 1 \in 0 .. r.len - 1
        BY <1>3, <3>2
      <4> QED
        BY <2>1, <3>2, <4>1
    <3> QED
      BY <3>1, <3>2
  <2> QED
    BY <2>1, <2>2
<1> QED
  BY <1>1, <1>2, <1>3

(* A push never shortens what is held.                                     *)
LEMMA PushNeverShrinks ==
  ASSUME NEW c \in Nat \ {0}, NEW S, NEW r \in QueueOf(c, S), NEW b \in S
  PROVE  r.len <= Push(r, b).len
  BY DEF QueueOf, Push

(* A window that fits what is held is a sequence of held states.           *)
LEMMA WindowOfHeld ==
  ASSUME NEW c \in Nat \ {0}, NEW S, NEW r \in QueueOf(c, S),
         \A i \in 0 .. r.len - 1 : At(r, i) \in S, NEW n \in 1 .. r.len
  PROVE  Window(r, n) \in [1 .. n -> S]
<1>1. r.len \in 0 .. c
  BY DEF QueueOf
<1>2. ASSUME NEW k \in 1 .. n
      PROVE  WindowAt(r, n, k - 1) \in S
  <2>1. r.len - 1 - (k - 1) \in 0 .. r.len - 1
    BY <1>1
  <2> QED
    BY <1>1, <2>1 DEF WindowAt
<1> QED
  BY <1>2 DEF Window

(* The window is the end of the contents, read backwards.                  *)
LEMMA WindowOfContents ==
  ASSUME NEW c \in Nat \ {0}, NEW S, NEW r \in QueueOf(c, S), NEW n \in 1 .. r.len
  PROVE  Window(r, n) = [i \in 1 .. n |-> Contents(r)[Len(Contents(r)) + 1 - i]]
<1>1. r.len \in 0 .. c /\ r.len \in Nat
  BY DEF QueueOf
<1>2. Len(Contents(r)) = r.len
  BY <1>1 DEF Contents
<1>3. ASSUME NEW i \in 1 .. n
      PROVE  WindowAt(r, n, i - 1) = Contents(r)[r.len + 1 - i]
  <2>1. r.len + 1 - i \in 1 .. r.len /\ r.len - 1 - (i - 1) = (r.len + 1 - i) - 1
    BY <1>1
  <2>2. Contents(r)[r.len + 1 - i] = At(r, (r.len + 1 - i) - 1)
    BY <2>1 DEF Contents
  <2>3. WindowAt(r, n, i - 1) = At(r, r.len - 1 - (i - 1))
    BY <1>1 DEF WindowAt
  <2> QED
    BY <2>1, <2>2, <2>3
<1> QED
  BY <1>2, <1>3 DEF Window
=============================================================================
