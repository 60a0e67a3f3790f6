----------------------------- MODULE MCBandwidth -----------------------------
(* Constants of Bandwidth for TLC: a link without overhead, one with, and  *)
(* one without capacity; a profile that costs nothing.                     *)
EXTENDS Bandwidth

MCLink == { [capacity |-> 2000, overhead |-> 0],
            [capacity |-> 5000, overhead |-> 20],
            [capacity |-> 0,    overhead |-> 0] }

MCOthers == { <<>>,
              << [payload |-> 4, hz |-> 2, vessels |-> 5] >>,
              << [payload |-> 4, hz |-> 2, vessels |-> 5],
                 [payload |-> 1, hz |-> 3, vessels |-> 1] >> }
=============================================================================
