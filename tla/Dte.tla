--------------------------------- MODULE Dte ---------------------------------
(***************************************************************************)
(* The digital twin environment (src/dte.c): simulations registered in     *)
(* slots, all called with one tick index.  fdt_dte_tick reads dte->n at    *)
(* every turn of its loop, so a callback that registers a simulation makes *)
(* the same tick reach it.                                                 *)
(*                                                                         *)
(* joined and seen are history: the tick a slot was filled in, and the     *)
(* indices its callback was given, in order.  A callback that calls        *)
(* fdt_dte_tick itself is left out.                                        *)
(*                                                                         *)
(* An operator named for a slip is the one after it with that slip made.   *)
(***************************************************************************)
EXTENDS Integers, Sequences

CONSTANTS
  Sim,            \* the callbacks there are to register
  SimSlots        \* cap: the slots of the registry

ASSUME DteAssumption == SimSlots \in Nat \ {0}

VARIABLES
  slots,          \* dte->slots[0 .. n - 1]
  tick,           \* dte->tick: ticks issued
  issuing,        \* inside fdt_dte_tick
  called,         \* its i: the slots already called
  joined, seen

dteVars == <<slots, tick, issuing, called, joined, seen>>

(* fdt_dte_init.                                                           *)
DteInit ==
  /\ slots = <<>> /\ tick = 0
  /\ issuing = FALSE /\ called = 0
  /\ joined = <<>> /\ seen = <<>>

(* fdt_dte_register, between ticks or from the callback that is running; a *)
(* full registry refuses and changes nothing.                              *)
HasSlot == Len(slots) < SimSlots

Register(s) ==
  /\ HasSlot
  /\ slots' = Append(slots, s)
  /\ joined' = Append(joined, tick)
  /\ seen' = Append(seen, <<>>)
  /\ UNCHANGED <<tick, issuing, called>>

(* fdt_dte_tick: the index is fixed, the slots are called in their order,  *)
(* and the index moves on when all have returned.                          *)
TickBegin ==
  /\ ~issuing
  /\ issuing' = TRUE
  /\ called' = 0
  /\ UNCHANGED <<slots, tick, joined, seen>>

CallNext ==
  /\ issuing /\ called < Len(slots)
  /\ called' = called + 1
  /\ seen' = [seen EXCEPT ![called + 1] = Append(@, tick)]
  /\ UNCHANGED <<slots, tick, issuing, joined>>

AllCalledAtFirst == \A i \in DOMAIN slots : joined[i] < tick => i <= called
AllCalled == called >= Len(slots)

TickEnd ==
  /\ issuing /\ AllCalled
  /\ tick' = tick + 1
  /\ issuing' = FALSE
  /\ UNCHANGED <<slots, called, joined, seen>>

DteNext == (\E s \in Sim : Register(s)) \/ TickBegin \/ CallNext \/ TickEnd

DteSpec == DteInit /\ [][DteNext]_dteVars

-----------------------------------------------------------------------------

DteTypeOK ==
  /\ slots \in Seq(Sim) /\ Len(slots) <= SimSlots
  /\ tick \in Nat /\ issuing \in BOOLEAN /\ called \in Nat
  /\ joined \in Seq(Nat) /\ Len(joined) = Len(slots)
  /\ seen \in Seq(Seq(Nat)) /\ Len(seen) = Len(slots)

(* The ticks slot i has been called for by now.                            *)
Elapsed(i) == (tick - joined[i]) + (IF issuing /\ i <= called THEN 1 ELSE 0)

(* "One index, three simulations: nothing drifts" (tests/test_dte.c):      *)
(* every simulation, registered before, between or in the middle of ticks, *)
(* has seen every index from the one it joined in, once, in order.         *)
SimsInLockstep ==
  \A i \in DOMAIN seen : seen[i] = [j \in 1 .. Elapsed(i) |-> joined[i] + j - 1]
=============================================================================
