------------------------------ MODULE LossyLink ------------------------------
(***************************************************************************)
(* What a transport whose publish returned 0 promises: the message is      *)
(* under way until it is delivered, once, unless the link lost it when it  *)
(* was sent.  Messages are the numbers 1, 2, ... in the order they were    *)
(* accepted.                                                               *)
(***************************************************************************)
EXTENDS Integers, FiniteSets

CONSTANT Capacity     \* messages under way at once

VARIABLES sent, flight, delivered, lost

vars == <<sent, flight, delivered, lost>>

Init == sent = 0 /\ flight = {} /\ delivered = {} /\ lost = {}

Send ==
  /\ sent' = sent + 1
  /\ Cardinality(flight) < Capacity
  /\ \/ flight' = flight \cup {sent + 1} /\ lost' = lost
     \/ flight' = flight /\ lost' = lost \cup {sent + 1}
  /\ UNCHANGED delivered

Deliver ==
  \E m \in flight : /\ flight' = flight \ {m}
                    /\ delivered' = delivered \cup {m}
                    /\ UNCHANGED <<sent, lost>>

Close == sent' = 0 /\ flight' = {} /\ delivered' = {} /\ lost' = {}

Next == Send \/ Deliver \/ Close

Spec == Init /\ [][Next]_vars
=============================================================================
