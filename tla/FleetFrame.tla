------------------------------ MODULE FleetFrame ------------------------------
(***************************************************************************)
(* What a coordinated frame promises: equations (2) to (6), in which the   *)
(* fleet advances as one frame.  Every vessel's B^t comes from its own     *)
(* past, its input, the goal of frame t-1 and one context shared by all;   *)
(* every A^t from B^t and the goal of frame t; then the context and the    *)
(* next goals come from the whole of B^t.  A frame happens for every       *)
(* vessel or for none.                                                     *)
(***************************************************************************)
EXTENDS Integers, Sequences

CONSTANTS
  N,              \* vessels in the fleet
  Cap,            \* Cap[k]: how many states vessel k remembers
  MaxWindow,      \* the deepest window a caller asks for
  Input, Goal, State, Actuation, Ctx,
  Mission,        \* what mission control may tell the planner in a frame
  SeedState,      \* states a caller may seed a vessel with
  NoActuation,    \* an entry of a_out that was never written
  ZeroState,      \* what fdt_store_init leaves in a slot
  DeltaE(_, _, _, _, _), Pi(_, _, _, _), Context(_, _), Plan(_, _, _, _)

Vessel == 0 .. N - 1

VARIABLES history, ctx, store, goalsPrev, goalsNow, actuation

vars == <<history, ctx, store, goalsPrev, goalsNow, actuation>>

Remember(k, b) ==
  IF Len(history[k]) < Cap[k]
    THEN Append(history[k], b)
    ELSE Append(Tail(history[k]), b)

(* The n newest states of vessel k, newest first.                          *)
Recent(k, n) == [i \in 1 .. n |-> history[k][Len(history[k]) + 1 - i]]

Init ==
  /\ history = [k \in Vessel |-> <<>>]
  /\ ctx \in Ctx
  /\ store = [k \in Vessel |-> ZeroState]
  /\ goalsPrev \in [Vessel -> Goal]
  /\ goalsNow \in [Vessel -> Goal]
  /\ actuation = [k \in Vessel |-> NoActuation]

Seed(k, b) ==
  /\ history' = [history EXCEPT ![k] = Remember(k, b)]
  /\ UNCHANGED <<ctx, store, goalsPrev, goalsNow, actuation>>

Frame(ins, n, mission) ==
  LET B == [k \in Vessel |-> DeltaE(k, Recent(k, n), ins[k], goalsPrev[k], ctx)]
  IN  /\ \A k \in Vessel : n \in 1 .. Len(history[k])
      /\ history' = [k \in Vessel |-> Remember(k, B[k])]
      /\ actuation' = [k \in Vessel |-> Pi(k, B[k], goalsNow[k], ctx)]
      /\ store' = B
      /\ ctx' = Context(ctx, B)
      /\ goalsPrev' = goalsNow
      /\ goalsNow' = Plan(B, Context(ctx, B), goalsNow, mission)

Next ==
  \/ \E k \in Vessel, b \in SeedState : Seed(k, b)
  \/ \E ins \in [Vessel -> Input], n \in 1 .. MaxWindow, mission \in Mission :
       Frame(ins, n, mission)

Spec == Init /\ [][Next]_vars
=============================================================================
