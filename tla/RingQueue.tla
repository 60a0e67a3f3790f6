------------------------------ MODULE RingQueue ------------------------------
(***************************************************************************)
(* The bounded queue of state frames (src/queue.c) as a value: a record    *)
(* with the fields of fdt_queue_t and one operator per function.  Every    *)
(* twin owns one; StateQueue drives a single one, Coordinator a fleet of   *)
(* them.                                                                   *)
(*                                                                         *)
(* An operator named for a slip (AtPhysicalIndex, ...) is the one after it *)
(* with that slip made; nothing uses it.                                   *)
(***************************************************************************)
EXTENDS Integers, Sequences

(* What the C functions answer when they answer no state: a NULL pointer.  *)
CONSTANT NoState

(* The queues of capacity cap over a set of states.  A slot that was never *)
(* written holds whatever the caller's storage held: NoState here.         *)
QueueOf(cap, S) ==
  [buf  : [0 .. cap - 1 -> S \cup {NoState}],
   cap  : {cap},
   len  : 0 .. cap,
   head : 0 .. cap - 1]

EmptyQueue(cap) ==
  [buf |-> [s \in 0 .. cap - 1 |-> NoState], cap |-> cap, len |-> 0, head |-> 0]

(* The slot that holds logical index i, counting from the oldest state.    *)
Slot(q, i) == (q.head + i) % q.cap

(* Appends b; at capacity the oldest state gives its slot up.              *)
Push(q, b) ==
  IF q.len < q.cap
    THEN [buf |-> [q.buf EXCEPT ![Slot(q, q.len)] = b],
          cap |-> q.cap, len |-> q.len + 1, head |-> q.head]
    ELSE [buf |-> [q.buf EXCEPT ![q.head] = b],
          cap |-> q.cap, len |-> q.len, head |-> (q.head + 1) % q.cap]

AtPhysicalIndex(q, i) == IF i >= q.len THEN NoState ELSE q.buf[i]
At(q, i) == IF i >= q.len THEN NoState ELSE q.buf[Slot(q, i)]

Newest(q) == IF q.len = 0 THEN NoState ELSE At(q, q.len - 1)

(* The window of equation (3): k counts back from the present.             *)
WindowAtFromOldest(q, n, k) ==
  IF n = 0 \/ n > q.len \/ k >= n THEN NoState ELSE At(q, k)

WindowAt(q, n, k) ==
  IF n = 0 \/ n > q.len \/ k >= n THEN NoState ELSE At(q, q.len - 1 - k)

(* The states held, oldest first: what the ring stands for.                *)
Contents(q) == [i \in 1 .. q.len |-> At(q, i - 1)]

(* The n newest states, newest first: all a delta^e reads of its queue.    *)
Window(q, n) == [k \in 1 .. n |-> WindowAt(q, n, k - 1)]
=============================================================================
