----------------------------- MODULE Coordinator -----------------------------
(***************************************************************************)
(* Twins, fleet and coordinator (src/transition.c, src/fleet.c,            *)
(* src/coordinator.c) as they run inside one process: a call of            *)
(* fdt_coord_step is taken apart at every point where the application's    *)
(* code runs, because delta_e, pi, ctx_fn and plan_fn are called halfway   *)
(* through a frame and read what the frame has changed so far.             *)
(*                                                                         *)
(* The four callbacks are constant operators: the library knows nothing of *)
(* them but when it calls them, and with what.                             *)
(*                                                                         *)
(* Beside some definitions stands the same definition with a plausible     *)
(* slip in it, named for the slip and used by nothing: each property is    *)
(* known to notice at least one of them.                                   *)
(***************************************************************************)
EXTENDS RingQueue

CONSTANTS
  N,              \* vessels in the fleet
  Cap,            \* Cap[k]: capacity of vessel k's queue
  MaxWindow,      \* deepest window asked of fdt_coord_step
  Input,          \* inputs, the NULL input of a vessel with none among them
  Goal, State, Actuation, Ctx,
  Mission,        \* what plan_fn reads through its user pointer
  SeedState,      \* states a caller seeds a twin with
  NoActuation,    \* an entry of a_out that was never written
  ZeroState,      \* (fdt_state_t){0}
  DeltaE(_, _, _, _, _), Pi(_, _, _, _), Context(_, _), Plan(_, _, _, _)

Vessel == 0 .. N - 1

ASSUME FleetAssumption ==
  /\ N \in Nat \ {0}
  /\ Cap \in [Vessel -> Nat \ {0}]
  /\ MaxWindow \in Nat
  /\ SeedState \subseteq State
  /\ ZeroState \in State
  /\ NoState \notin State

(* What the application's callbacks return is what their types say.        *)
ASSUME CallbackAssumption ==
  \A k \in Vessel, g \in Goal, c \in Ctx :
    /\ \A in \in Input, n \in 1 .. MaxWindow : \A w \in [1 .. n -> State] :
         DeltaE(k, w, in, g, c) \in State
    /\ \A b \in State : Pi(k, b, g, c) \in Actuation

ASSUME CoordinatorCallbackAssumption ==
  \A c \in Ctx, B \in [Vessel -> State] :
    /\ Context(c, B) \in Ctx
    /\ \A g \in [Vessel -> Goal], m \in Mission : Plan(B, c, g, m) \in [Vessel -> Goal]

VARIABLES
  queue,          \* tw->q of every twin
  ctx,            \* what fleet->ctx points to: c^t
  store,          \* the slots of the B^t store
  goalsPrev, goalsNow, bOut, aOut,   \* the caller's arrays
  call,           \* how far the call of fdt_coord_step is, and its result
  args            \* its arguments while it runs

vars == <<queue, ctx, store, goalsPrev, goalsNow, bOut, aOut, call, args>>

(* stepped: the twins stepped so far, the k of fdt_fleet_step's second     *)
(* loop; rc: what the last call returned.                                  *)
CallRecord ==
  [at : {"idle", "fleet", "context", "plan"}, stepped : 0 .. N, rc : {0, -1}]

NoArgs == <<>>

ArgRecord == [ins : [Vessel -> Input], n : 0 .. MaxWindow, mission : Mission]

Init ==
  /\ queue = [k \in Vessel |-> EmptyQueue(Cap[k])]
  /\ ctx \in Ctx
  /\ store = [k \in Vessel |-> ZeroState]
  /\ goalsPrev \in [Vessel -> Goal]
  /\ goalsNow \in [Vessel -> Goal]
  /\ bOut = [k \in Vessel |-> NoState]
  /\ aOut = [k \in Vessel |-> NoActuation]
  /\ call = [at |-> "idle", stepped |-> N, rc |-> 0]
  /\ args = NoArgs

(* fdt_twin_seed: between frames, before the first one or after it.        *)
Seed(k, b) ==
  /\ call.at = "idle"
  /\ queue' = [queue EXCEPT ![k] = Push(queue[k], b)]
  /\ UNCHANGED <<ctx, store, goalsPrev, goalsNow, bOut, aOut, call, args>>

(* fdt_fleet_step's first loop: can every twin satisfy the window?         *)
FirstTwinCanStep(n) == n # 0 /\ n <= queue[0].len
EveryTwinHasRoom(n) == n # 0 /\ \A k \in Vessel : n <= Cap[k]
EveryTwinCanStep(n) == n # 0 /\ \A k \in Vessel : n <= queue[k].len

(* fdt_coord_step up to the first delta_e.                                 *)
BeginFrame(ins, n, mission) ==
  /\ call.at = "idle"
  /\ EveryTwinCanStep(n)
  /\ call' = [at |-> "fleet", stepped |-> 0, rc |-> call.rc]
  /\ args' = [ins |-> ins, n |-> n, mission |-> mission]
  /\ UNCHANGED <<queue, ctx, store, goalsPrev, goalsNow, bOut, aOut>>

RefuseFrame(n) ==
  /\ call.at = "idle"
  /\ ~EveryTwinCanStep(n)
  /\ call' = [at |-> "idle", stepped |-> 0, rc |-> -1]
  /\ UNCHANGED <<queue, ctx, store, goalsPrev, goalsNow, bOut, aOut, args>>

(* What delta_e and pi make of twin k in this call.                        *)
NextState(k) == DeltaE(k, Window(queue[k], args.n), args.ins[k], goalsPrev[k], ctx)
DecisionUnderTheOldGoal(k) == Pi(k, NextState(k), goalsPrev[k], ctx)
Decision(k) == Pi(k, NextState(k), goalsNow[k], ctx)

(* Whether the loop over the twins goes on.                                *)
Stage(stepped) == IF stepped = N THEN "context" ELSE "fleet"

(* fdt_twin_step_ctx on the next twin: delta_e, the push, pi and, only     *)
(* then, the two outputs.  Its own check of the window fails the whole     *)
(* call, with the twins before it already stepped.                         *)
StepTwin ==
  LET k == call.stepped IN
  /\ call.at = "fleet"
  /\ IF args.n = 0 \/ args.n > queue[k].len
       THEN /\ call' = [at |-> "idle", stepped |-> k, rc |-> -1]
            /\ args' = NoArgs
            /\ UNCHANGED <<queue, bOut, aOut>>
       ELSE /\ queue' = [queue EXCEPT ![k] = Push(queue[k], NextState(k))]
            /\ bOut' = [bOut EXCEPT ![k] = NextState(k)]
            /\ aOut' = [aOut EXCEPT ![k] = Decision(k)]
            /\ call' = [at |-> Stage(k + 1), stepped |-> k + 1, rc |-> call.rc]
            /\ UNCHANGED args
  /\ UNCHANGED <<ctx, store, goalsPrev, goalsNow>>

(* The store takes B^t, and ctx_fn computes c^t from it.                   *)
UpdateContext ==
  /\ call.at = "context"
  /\ store' = bOut
  /\ ctx' = Context(ctx, bOut)
  /\ call' = [at |-> "plan", stepped |-> call.stepped, rc |-> call.rc]
  /\ UNCHANGED <<queue, goalsPrev, goalsNow, bOut, aOut, args>>

(* The goals move on by one frame; plan_fn, shown c^t, sets the next ones. *)
RetargetBeforeHandover ==
  /\ call.at = "plan"
  /\ goalsNow' = Plan(store, ctx, goalsNow, args.mission)
  /\ goalsPrev' = goalsNow'
  /\ call' = [at |-> "idle", stepped |-> call.stepped, rc |-> 0]
  /\ args' = NoArgs
  /\ UNCHANGED <<queue, ctx, store, bOut, aOut>>

Retarget ==
  /\ call.at = "plan"
  /\ goalsPrev' = goalsNow
  /\ goalsNow' = Plan(store, ctx, goalsNow, args.mission)
  /\ call' = [at |-> "idle", stepped |-> call.stepped, rc |-> 0]
  /\ args' = NoArgs
  /\ UNCHANGED <<queue, ctx, store, bOut, aOut>>

Next ==
  \/ \E k \in Vessel, b \in SeedState : Seed(k, b)
  \/ \E ins \in [Vessel -> Input], n \in 0 .. MaxWindow, mission \in Mission :
       BeginFrame(ins, n, mission)
  \/ \E n \in 0 .. MaxWindow : RefuseFrame(n)
  \/ StepTwin
  \/ UpdateContext
  \/ Retarget

Spec == Init /\ [][Next]_vars

-----------------------------------------------------------------------------

TypeOK ==
  /\ queue = [k \in Vessel |-> queue[k]]
  /\ \A k \in Vessel : queue[k] \in QueueOf(Cap[k], State)
  /\ ctx \in Ctx
  /\ store \in [Vessel -> State]
  /\ goalsPrev \in [Vessel -> Goal]
  /\ goalsNow \in [Vessel -> Goal]
  /\ bOut \in [Vessel -> State \cup {NoState}]
  /\ aOut \in [Vessel -> Actuation \cup {NoActuation}]
  /\ call \in CallRecord
  /\ args \in IF call.at = "idle" THEN {NoArgs} ELSE ArgRecord

(* fleet.h: "On -1 no vessel steps", and on 0 every one has.  It is the    *)
(* validation pass that buys this: StepTwin alone can fail halfway.        *)
AllOrNothing ==
  call.at = "idle" => call.stepped = IF call.rc = 0 THEN N ELSE 0

(* While twins step, each of them still holds the window the call asked    *)
(* for: what the validation pass saw stays true until the twin is reached. *)
WindowStaysHeld ==
  call.at = "fleet" => /\ call.stepped < N
                       /\ \A k \in Vessel : args.n \in 1 .. queue[k].len

(* Past the twins, the whole of B^t and A^t has been written: the store    *)
(* and the callbacks never read an entry of the caller's uninitialised     *)
(* arrays.                                                                 *)
OutputsWritten ==
  /\ \A k \in Vessel :
       \/ call.at \in {"context", "plan"}
       \/ call.at = "fleet" /\ k < call.stepped
       => bOut[k] \in State /\ aOut[k] \in Actuation
  /\ call.at \in {"context", "plan"} => call.stepped = N

(* Every state a twin holds was pushed by someone: delta_e is never shown  *)
(* a slot of the caller's storage that nothing was written to.             *)
HeldStatesWritten ==
  \A k \in Vessel : \A i \in 0 .. queue[k].len - 1 : At(queue[k], i) \in State

IInv == /\ TypeOK
        /\ AllOrNothing
        /\ WindowStaysHeld
        /\ OutputsWritten
        /\ HeldStatesWritten

-----------------------------------------------------------------------------
(* The frame as one step.  While a call runs, everything it is going to do *)
(* is already determined by its arguments and by what the callbacks are    *)
(* given, so the abstract frame happens when the call is accepted, and the *)
(* variables are read as they will be when it returns.                     *)

StillToStep(k) == call.at = "fleet" /\ k >= call.stepped
InFrame == call.at # "idle"

FinalB == [k \in Vessel |-> IF StillToStep(k) THEN NextState(k) ELSE bOut[k]]
FinalA == [k \in Vessel |-> IF StillToStep(k) THEN Decision(k) ELSE aOut[k]]
FinalQueue ==
  [k \in Vessel |-> IF StillToStep(k) THEN Push(queue[k], NextState(k)) ELSE queue[k]]
FinalStore == IF call.at \in {"fleet", "context"} THEN FinalB ELSE store
FinalCtx == IF call.at \in {"fleet", "context"} THEN Context(ctx, FinalB) ELSE ctx
FinalGoalsPrev == IF InFrame THEN goalsNow ELSE goalsPrev
FinalGoalsNow ==
  IF InFrame THEN Plan(FinalStore, FinalCtx, goalsNow, args.mission) ELSE goalsNow

Frames == INSTANCE FleetFrame WITH
  history   <- [k \in Vessel |-> Contents(FinalQueue[k])],
  ctx       <- FinalCtx,
  store     <- FinalStore,
  goalsPrev <- FinalGoalsPrev,
  goalsNow  <- FinalGoalsNow,
  actuation <- FinalA

(* A frame taken apart at its callbacks is the frame of equations (2) to   *)
(* (6): no callback sees a mixture of two frames.                          *)
ImplementsFrame == Frames!Spec
=============================================================================
