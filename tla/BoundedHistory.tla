---------------------------- MODULE BoundedHistory ----------------------------
(***************************************************************************)
(* What a state queue promises, without a ring: it remembers the last Cap  *)
(* states it was given, in the order they came.                            *)
(***************************************************************************)
EXTENDS Integers, Sequences

CONSTANTS State, Cap

VARIABLE held

(* held with b appended, and its oldest state forgotten if it was full.    *)
Remember(b) == IF Len(held) < Cap THEN Append(held, b) ELSE Append(Tail(held), b)

Init == held = <<>>

Next == \E b \in State : held' = Remember(b)

Spec == Init /\ [][Next]_held
=============================================================================
