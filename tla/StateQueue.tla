------------------------------ MODULE StateQueue ------------------------------
(***************************************************************************)
(* One state queue from its binding on (src/queue.c, fdt_twin_seed and the *)
(* push of fdt_twin_step_ctx).  log is what no C variable remembers: every *)
(* state the queue was ever given.  MaxPushes bounds it.                   *)
(***************************************************************************)
EXTENDS RingQueue

CONSTANTS State, Cap, MaxPushes

ASSUME QueueAssumption ==
  /\ Cap \in Nat \ {0}
  /\ MaxPushes \in Nat
  /\ NoState \notin State

VARIABLES q, log

vars == <<q, log>>

Init ==
  /\ q = EmptyQueue(Cap)
  /\ log = <<>>

PushState(b) ==
  /\ Len(log) < MaxPushes
  /\ q' = Push(q, b)
  /\ log' = Append(log, b)

Next == \E b \in State : PushState(b)

Spec == Init /\ [][Next]_vars

-----------------------------------------------------------------------------

TypeOK ==
  /\ q \in QueueOf(Cap, State)
  /\ log \in Seq(State)

(* Any n and any k, legal or not, through fdt_window_at: the state pushed  *)
(* k pushes before the newest one, or NULL exactly when the window does    *)
(* not reach that far.  Wrap-around, eviction and the reversed index of    *)
(* the window have to agree for this to hold.                              *)
WindowIsThePast ==
  \A n, k \in 0 .. Cap + 1 :
    WindowAt(q, n, k) =
      IF k < n /\ n <= q.len THEN log[Len(log) - k] ELSE NoState

(* The queue never holds less of the past than it has room for: after cap  *)
(* pushes it is full and stays full, before that nothing was evicted.      *)
HoldsWhatFits == q.len = IF Len(log) < Cap THEN Len(log) ELSE Cap

(* The ring against its past, index by index: with HoldsWhatFits, what a   *)
(* push has to preserve for the window to be the past.                     *)
HoldsTheNewest ==
  /\ q.len <= Len(log)
  /\ \A i \in 0 .. q.len - 1 : At(q, i) = log[Len(log) - q.len + i + 1]

IInv == TypeOK /\ HoldsWhatFits /\ HoldsTheNewest

History == INSTANCE BoundedHistory WITH held <- Contents(q)

(* The ring implements the bounded history.                                *)
ImplementsHistory == History!Spec
=============================================================================
