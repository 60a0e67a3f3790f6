--------------------------- MODULE CoordinatorProofs ---------------------------
(***************************************************************************)
(* A coordinated frame is all or nothing, for every fleet size, every      *)
(* capacity and every application: the four callbacks are arbitrary        *)
(* operators of their types.                                               *)
(***************************************************************************)
EXTENDS TracedCoordinator, RingQueueProofs

(* A twin that holds the window of the call gets a state from delta_e and  *)
(* an actuation from pi.                                                   *)
LEMMA NextStateType ==
  ASSUME TypeOK, HeldStatesWritten, call.at = "fleet",
         NEW k \in Vessel, args.n \in 1 .. queue[k].len
  PROVE  NextState(k) \in State /\ Decision(k) \in Actuation
<1> USE FleetAssumption
<1>1. /\ args \in ArgRecord /\ args.n \in 0 .. MaxWindow /\ args.ins[k] \in Input
      /\ goalsPrev[k] \in Goal /\ goalsNow[k] \in Goal /\ ctx \in Ctx
  BY DEF TypeOK, ArgRecord
<1>2. Window(queue[k], args.n) \in [1 .. args.n -> State]
  BY WindowOfHeld DEF TypeOK, HeldStatesWritten
<1>3. args.n \in 1 .. MaxWindow
  BY <1>1
<1>4. NextState(k) \in State
  BY <1>1, <1>2, <1>3, CallbackAssumption DEF NextState
<1>5. Decision(k) \in Actuation
  BY <1>1, <1>4, CallbackAssumption DEF Decision
<1> QED
  BY <1>4, <1>5

LEMMA SeedKeepsIInv ==
  ASSUME IInv, NEW k \in Vessel, NEW b \in SeedState, Seed(k, b)
  PROVE  IInv'
<1> USE FleetAssumption
<1>1. /\ queue[k] \in QueueOf(Cap[k], State) /\ Cap[k] \in Nat \ {0} /\ b \in State
      /\ queue' = [queue EXCEPT ![k] = Push(queue[k], b)]
      /\ queue = [j \in Vessel |-> queue[j]]
  BY DEF IInv, TypeOK, Seed
<1>2. TypeOK'
  <2>1. Push(queue[k], b) \in QueueOf(Cap[k], State)
    BY <1>1, PushType
  <2> QED
    BY <1>1, <2>1 DEF IInv, TypeOK, Seed
<1>3. HeldStatesWritten'
  <2>1. \A i \in 0 .. Push(queue[k], b).len - 1 : At(Push(queue[k], b), i) \in State
    BY <1>1, PushKeepsHeld DEF IInv, HeldStatesWritten
  <2> QED
    BY <1>1, <2>1 DEF IInv, HeldStatesWritten
<1>4. (AllOrNothing /\ WindowStaysHeld /\ OutputsWritten)'
  BY DEF IInv, Seed, AllOrNothing, WindowStaysHeld, OutputsWritten
<1> QED
  BY <1>2, <1>3, <1>4 DEF IInv

LEMMA BeginKeepsIInv ==
  ASSUME IInv, NEW ins \in [Vessel -> Input], NEW n \in 0 .. MaxWindow,
         NEW mission \in Mission, BeginFrame(ins, n, mission)
  PROVE  IInv'
<1> USE FleetAssumption
<1>1. /\ call' = [at |-> "fleet", stepped |-> 0, rc |-> call.rc] /\ call \in CallRecord
      /\ args' = [ins |-> ins, n |-> n, mission |-> mission]
      /\ n # 0 /\ \A k \in Vessel : n <= queue[k].len
      /\ UNCHANGED <<queue, ctx, store, goalsPrev, goalsNow, bOut, aOut>>
  BY DEF IInv, TypeOK, BeginFrame, EveryTwinCanStep
<1>2. call'.at = "fleet" /\ call'.stepped = 0 /\ call' \in CallRecord
  BY <1>1 DEF CallRecord
<1>3. TypeOK'
  BY <1>1, <1>2 DEF IInv, TypeOK, ArgRecord
<1>4. WindowStaysHeld'
  <2>1. ASSUME NEW k \in Vessel
        PROVE  args'.n \in 1 .. queue'[k].len
    BY <1>1 DEF IInv, TypeOK, QueueOf
  <2> QED
    BY <1>2, <2>1 DEF WindowStaysHeld
<1>5. (AllOrNothing /\ OutputsWritten /\ HeldStatesWritten)'
  BY <1>1, <1>2 DEF IInv, AllOrNothing, OutputsWritten, HeldStatesWritten, Vessel
<1> QED
  BY <1>3, <1>4, <1>5 DEF IInv

LEMMA StepKeepsIInv ==
  ASSUME IInv, StepTwin
  PROVE  IInv'
<1> USE FleetAssumption
<1> DEFINE k == call.stepped
<1>1. /\ call.at = "fleet" /\ k \in Vessel /\ args.n \in 1 .. queue[k].len
      /\ call \in CallRecord
  BY DEF IInv, TypeOK, StepTwin, WindowStaysHeld, CallRecord, Vessel
<1>2. /\ queue[k] \in QueueOf(Cap[k], State) /\ Cap[k] \in Nat \ {0}
      /\ queue = [j \in Vessel |-> queue[j]]
  BY <1>1 DEF IInv, TypeOK
<1>3. ~(args.n = 0 \/ args.n > queue[k].len)
  BY <1>1, <1>2 DEF QueueOf
<1>4. /\ queue' = [queue EXCEPT ![k] = Push(queue[k], NextState(k))]
      /\ bOut' = [bOut EXCEPT ![k] = NextState(k)]
      /\ aOut' = [aOut EXCEPT ![k] = Decision(k)]
      /\ call' = [at |-> Stage(k + 1), stepped |-> k + 1, rc |-> call.rc]
      /\ UNCHANGED <<args, ctx, store, goalsPrev, goalsNow>>
  BY <1>3 DEF StepTwin
<1>5. NextState(k) \in State /\ Decision(k) \in Actuation
  BY <1>1, NextStateType DEF IInv
<1>6. /\ call' \in CallRecord /\ call'.stepped = k + 1
      /\ call'.at = IF k + 1 = N THEN "context" ELSE "fleet"
      /\ k + 1 <= N
  BY <1>1, <1>4 DEF CallRecord, Stage, Vessel
<1>7. Push(queue[k], NextState(k)) \in QueueOf(Cap[k], State)
  BY <1>2, <1>5, PushType
<1>8. TypeOK'
  BY <1>1, <1>2, <1>4, <1>5, <1>6, <1>7 DEF IInv, TypeOK
<1>9. WindowStaysHeld'
  <2>1. ASSUME NEW j \in Vessel, call'.at = "fleet"
        PROVE  args'.n \in 1 .. queue'[j].len
    <3>1. args.n \in 1 .. queue[j].len
      BY <1>1 DEF IInv, WindowStaysHeld
    <3>2. CASE j = k
      <4>1. queue[k].len <= Push(queue[k], NextState(k)).len
        BY <1>2, <1>5, PushNeverShrinks
      <4>2. queue'[j].len \in Nat /\ queue[j].len \in Nat
        BY <1>2, <1>4, <1>7, <3>2 DEF QueueOf
      <4> QED
        BY <1>2, <1>4, <3>1, <3>2, <4>1, <4>2
    <3>3. CASE j # k
      BY <1>2, <1>4, <3>1, <3>3
    <3> QED
      BY <3>2, <3>3
  <2>2. call'.at = "fleet" => call'.stepped < N
    BY <1>1, <1>6 DEF Vessel
  <2> QED
    BY <2>1, <2>2 DEF WindowStaysHeld
<1>10. OutputsWritten'
  <2>1. ASSUME NEW j \in Vessel, (call'.at = "fleet" /\ j < k + 1) \/ k + 1 = N
        PROVE  bOut'[j] \in State /\ aOut'[j] \in Actuation
    <3>1. CASE j = k
      BY <1>4, <1>5, <3>1 DEF IInv, TypeOK
    <3>2. CASE j # k
      <4>1. j < k
        BY <1>1, <2>1, <3>2 DEF Vessel
      <4>2. bOut[j] \in State /\ aOut[j] \in Actuation
        BY <1>1, <4>1 DEF IInv, OutputsWritten
      <4> QED
        BY <1>4, <3>2, <4>2 DEF IInv, TypeOK
    <3> QED
      BY <3>1, <3>2
  <2> QED
    BY <1>6, <2>1 DEF OutputsWritten
<1>11. HeldStatesWritten'
  <2>1. \A i \in 0 .. Push(queue[k], NextState(k)).len - 1 :
          At(Push(queue[k], NextState(k)), i) \in State
    BY <1>1, <1>2, <1>5, PushKeepsHeld DEF IInv, HeldStatesWritten
  <2> QED
    BY <1>1, <1>2, <1>4, <2>1 DEF IInv, HeldStatesWritten
<1>12. AllOrNothing'
  BY <1>6 DEF AllOrNothing
<1> QED
  BY <1>8, <1>9, <1>10, <1>11, <1>12 DEF IInv

LEMMA UpdateKeepsIInv ==
  ASSUME IInv, UpdateContext
  PROVE  IInv'
<1> USE FleetAssumption
<1>1. /\ call.at = "context" /\ call \in CallRecord /\ store' = bOut
      /\ ctx' = Context(ctx, bOut) /\ call' = [at |-> "plan", stepped |-> call.stepped, rc |-> call.rc]
      /\ UNCHANGED <<queue, goalsPrev, goalsNow, bOut, aOut, args>>
  BY DEF IInv, TypeOK, UpdateContext
<1>2. bOut \in [Vessel -> State]
  BY <1>1 DEF IInv, TypeOK, OutputsWritten
<1>3. ctx' \in Ctx
  BY <1>1, <1>2, CoordinatorCallbackAssumption DEF IInv, TypeOK
<1>4. call' \in CallRecord /\ call'.at = "plan" /\ call'.stepped = call.stepped
  BY <1>1 DEF CallRecord
<1>5. TypeOK'
  BY <1>1, <1>2, <1>3, <1>4 DEF IInv, TypeOK
<1>6. (AllOrNothing /\ WindowStaysHeld /\ OutputsWritten /\ HeldStatesWritten)'
  BY <1>1, <1>4
     DEF IInv, AllOrNothing, WindowStaysHeld, OutputsWritten, HeldStatesWritten
<1> QED
  BY <1>5, <1>6 DEF IInv

LEMMA RetargetKeepsIInv ==
  ASSUME IInv, Retarget
  PROVE  IInv'
<1> USE FleetAssumption
<1>1. /\ call.at = "plan" /\ call \in CallRecord /\ goalsPrev' = goalsNow
      /\ goalsNow' = Plan(store, ctx, goalsNow, args.mission)
      /\ call' = [at |-> "idle", stepped |-> call.stepped, rc |-> 0] /\ args' = NoArgs
      /\ UNCHANGED <<queue, ctx, store, bOut, aOut>>
  BY DEF IInv, TypeOK, Retarget
<1>2. args.mission \in Mission
  BY <1>1 DEF IInv, TypeOK, ArgRecord
<1>3. goalsNow' \in [Vessel -> Goal]
  BY <1>1, <1>2, CoordinatorCallbackAssumption DEF IInv, TypeOK
<1>4. /\ call' \in CallRecord /\ call'.at = "idle" /\ call'.rc = 0
      /\ call'.stepped = call.stepped
  BY <1>1 DEF CallRecord
<1>5. TypeOK'
  BY <1>1, <1>3, <1>4 DEF IInv, TypeOK
<1>6. (AllOrNothing /\ WindowStaysHeld /\ OutputsWritten /\ HeldStatesWritten)'
  BY <1>1, <1>4
     DEF IInv, AllOrNothing, WindowStaysHeld, OutputsWritten, HeldStatesWritten
<1> QED
  BY <1>5, <1>6 DEF IInv

LEMMA CoordinatorInvariant == Spec => []IInv
<1> USE FleetAssumption
<1>1. Init => IInv
  <2> SUFFICES ASSUME Init
               PROVE  IInv
    OBVIOUS
  <2>1. \A k \in Vessel : queue[k] \in QueueOf(Cap[k], State)
    BY DEF Init, EmptyQueue, QueueOf
  <2>2. \A k \in Vessel : queue[k].len = 0
    BY DEF Init, EmptyQueue
  <2>3. TypeOK
    BY <2>1 DEF Init, TypeOK, CallRecord
  <2>4. AllOrNothing /\ WindowStaysHeld /\ OutputsWritten /\ HeldStatesWritten
    BY <2>2 DEF Init, AllOrNothing, WindowStaysHeld, OutputsWritten, HeldStatesWritten
  <2> QED
    BY <2>3, <2>4 DEF IInv
<1>2. IInv /\ [Next]_vars => IInv'
  <2> SUFFICES ASSUME IInv, [Next]_vars
               PROVE  IInv'
    OBVIOUS
  <2>1. ASSUME NEW n \in 0 .. MaxWindow, RefuseFrame(n)
        PROVE  IInv'
    <3>1. call' = [at |-> "idle", stepped |-> 0, rc |-> -1] /\ call.at = "idle"
      BY <2>1 DEF RefuseFrame
    <3>2. call' \in CallRecord
      BY <3>1 DEF CallRecord
    <3> QED
      BY <2>1, <3>1, <3>2
         DEF RefuseFrame, IInv, TypeOK, AllOrNothing, WindowStaysHeld,
             OutputsWritten, HeldStatesWritten
  <2>2. CASE UNCHANGED vars
    BY <2>2 DEF vars, IInv, TypeOK, AllOrNothing, WindowStaysHeld,
                OutputsWritten, HeldStatesWritten
  <2> QED
    BY <2>1, <2>2, SeedKeepsIInv, BeginKeepsIInv, StepKeepsIInv, UpdateKeepsIInv,
       RetargetKeepsIInv DEF Next
<1> QED
  BY <1>1, <1>2, PTL DEF Spec

(* Every variable keeps its type, so no callback is ever called outside    *)
(* the types its own result was assumed under.                             *)
THEOREM CoordinatorTypeCorrect == Spec => []TypeOK
<1>1. IInv => TypeOK
  BY DEF IInv
<1> QED
  BY <1>1, CoordinatorInvariant, PTL

(* "On -1 no vessel steps", and on 0 every one has: fdt_fleet_step fails   *)
(* before its first twin or not at all.                                    *)
THEOREM CoordinatorAllOrNothing == Spec => []AllOrNothing
<1>1. IInv => AllOrNothing
  BY DEF IInv
<1> QED
  BY <1>1, CoordinatorInvariant, PTL

(* The window every twin was asked for is still there when its turn comes, *)
(* whatever the callbacks made of the twins before it.                     *)
THEOREM CoordinatorWindowStaysHeld == Spec => []WindowStaysHeld
<1>1. IInv => WindowStaysHeld
  BY DEF IInv
<1> QED
  BY <1>1, CoordinatorInvariant, PTL

(* What the store takes and the callbacks read has been written in this    *)
(* very frame.                                                             *)
THEOREM CoordinatorOutputsWritten == Spec => []OutputsWritten
<1>1. IInv => OutputsWritten
  BY DEF IInv
<1> QED
  BY <1>1, CoordinatorInvariant, PTL

(* Between calls the variables are read as they are.                       *)
LEMMA FinalWhenIdle ==
  IInv /\ call.at = "idle" =>
    /\ FinalA = aOut /\ FinalQueue = queue /\ FinalStore = store
    /\ FinalCtx = ctx /\ FinalGoalsPrev = goalsPrev /\ FinalGoalsNow = goalsNow
<1> SUFFICES ASSUME IInv, call.at = "idle"
             PROVE  /\ FinalA = aOut /\ FinalQueue = queue /\ FinalStore = store
                    /\ FinalCtx = ctx /\ FinalGoalsPrev = goalsPrev
                    /\ FinalGoalsNow = goalsNow
  OBVIOUS
<1>1. \A k \in Vessel : ~StillToStep(k)
  BY DEF StillToStep
<1>2. FinalA = aOut /\ FinalQueue = queue
  BY <1>1 DEF FinalA, FinalQueue, IInv, TypeOK
<1> QED
  BY <1>2 DEF FinalStore, FinalCtx, FinalGoalsPrev, FinalGoalsNow, InFrame

(* A call that begins, read as it will end: every twin's B^t comes from    *)
(* the windows, the goals and the context of this very moment.             *)
LEMMA FinalAfterBegin ==
  ASSUME IInv, NEW ins \in [Vessel -> Input], NEW n \in 0 .. MaxWindow,
         NEW mission \in Mission, BeginFrame(ins, n, mission)
  PROVE  LET B == [k \in Vessel |->
                     DeltaE(k, Window(queue[k], n), ins[k], goalsPrev[k], ctx)]
         IN  /\ B \in [Vessel -> State]
             /\ FinalQueue' = [k \in Vessel |-> Push(queue[k], B[k])]
             /\ FinalA' = [k \in Vessel |-> Pi(k, B[k], goalsNow[k], ctx)]
             /\ FinalStore' = B
             /\ FinalCtx' = Context(ctx, B)
             /\ FinalGoalsPrev' = goalsNow
             /\ FinalGoalsNow' = Plan(B, Context(ctx, B), goalsNow, mission)
<1> USE FleetAssumption
<1> DEFINE B == [k \in Vessel |-> DeltaE(k, Window(queue[k], n), ins[k], goalsPrev[k], ctx)]
<1>1. /\ call'.at = "fleet" /\ call'.stepped = 0 /\ n # 0
      /\ args' = [ins |-> ins, n |-> n, mission |-> mission]
      /\ \A k \in Vessel : n <= queue[k].len
      /\ UNCHANGED <<queue, ctx, store, goalsPrev, goalsNow, bOut, aOut>>
  BY DEF BeginFrame, EveryTwinCanStep
<1>2. args'.ins = ins /\ args'.n = n /\ args'.mission = mission
  BY <1>1
<1>3. ASSUME NEW k \in Vessel
      PROVE  /\ StillToStep(k)' /\ NextState(k)' = B[k] /\ B[k] \in State
             /\ Decision(k)' = Pi(k, B[k], goalsNow[k], ctx)
  <2>1. StillToStep(k)'
    BY <1>1 DEF StillToStep, Vessel
  <2>2. NextState(k)' = B[k]
    BY <1>1, <1>2 DEF NextState
  <2>3. Decision(k)' = Pi(k, B[k], goalsNow[k], ctx)
    <3>1. Decision(k)' = Pi(k, NextState(k)', goalsNow[k], ctx)
      BY <1>1 DEF Decision
    <3> QED
      BY <2>2, <3>1
  <2>4. n \in 1 .. queue[k].len /\ n \in 1 .. MaxWindow
    BY <1>1 DEF IInv, TypeOK, QueueOf
  <2>5. Window(queue[k], n) \in [1 .. n -> State]
    BY <2>4, WindowOfHeld DEF IInv, TypeOK, HeldStatesWritten
  <2>6. ins[k] \in Input /\ goalsPrev[k] \in Goal /\ ctx \in Ctx
    BY DEF IInv, TypeOK
  <2>7. DeltaE(k, Window(queue[k], n), ins[k], goalsPrev[k], ctx) \in State
    BY <2>4, <2>5, <2>6, CallbackAssumption
  <2> QED
    BY <2>1, <2>2, <2>3, <2>7
<1>4. FinalB' = B
  <2>1. FinalB' = [k \in Vessel |-> IF StillToStep(k)' THEN NextState(k)' ELSE bOut'[k]]
    BY DEF FinalB
  <2> QED
    BY <1>3, <2>1
<1>5. FinalA' = [k \in Vessel |-> Pi(k, B[k], goalsNow[k], ctx)]
  <2>1. FinalA' = [k \in Vessel |-> IF StillToStep(k)' THEN Decision(k)' ELSE aOut'[k]]
    BY DEF FinalA
  <2> QED
    BY <1>3, <2>1
<1>6. FinalQueue' = [k \in Vessel |-> Push(queue[k], B[k])]
  <2>1. FinalQueue' = [k \in Vessel |-> IF StillToStep(k)'
                                          THEN Push(queue'[k], NextState(k)')
                                          ELSE queue'[k]]
    BY DEF FinalQueue
  <2> QED
    BY <1>1, <1>3, <2>1
<1>7. B \in [Vessel -> State]
  BY <1>3
<1> HIDE DEF B
<1>8. FinalStore' = B /\ FinalCtx' = Context(ctx, B) /\ FinalGoalsPrev' = goalsNow
  BY <1>1, <1>4 DEF FinalStore, FinalCtx, FinalGoalsPrev, InFrame
<1>9. FinalGoalsNow' = Plan(B, Context(ctx, B), goalsNow, mission)
  BY <1>1, <1>2, <1>8 DEF FinalGoalsNow, InFrame
<1> QED
  BY <1>5, <1>6, <1>7, <1>8, <1>9 DEF B

(* Stepping a twin does what was foreseen of it, and leaves what was       *)
(* foreseen of the others as it was.                                       *)
LEMMA FinalAfterStep ==
  ASSUME IInv, StepTwin
  PROVE  /\ UNCHANGED <<FinalQueue, FinalA, FinalStore, FinalCtx>>
         /\ UNCHANGED <<FinalGoalsPrev, FinalGoalsNow>>
<1> USE FleetAssumption
<1>0. PICK k \in Vessel : k = call.stepped
  BY DEF IInv, TypeOK, StepTwin, WindowStaysHeld, CallRecord, Vessel
<1>1. /\ call.at = "fleet" /\ k \in Vessel /\ call \in CallRecord
      /\ args.n \in 1 .. queue[k].len /\ queue[k] \in QueueOf(Cap[k], State)
  BY <1>0 DEF IInv, TypeOK, StepTwin, WindowStaysHeld
<1>2. ~(args.n = 0 \/ args.n > queue[k].len)
  BY <1>1 DEF QueueOf
<1>3. /\ queue' = [queue EXCEPT ![k] = Push(queue[k], NextState(k))]
      /\ bOut' = [bOut EXCEPT ![k] = NextState(k)]
      /\ aOut' = [aOut EXCEPT ![k] = Decision(k)]
      /\ call' = [at |-> Stage(k + 1), stepped |-> k + 1, rc |-> call.rc]
      /\ UNCHANGED <<args, ctx, store, goalsPrev, goalsNow>>
  BY <1>0, <1>2 DEF StepTwin
<1>4. /\ call'.at \in {"fleet", "context"} /\ call'.stepped = k + 1
      /\ call'.at = "fleet" <=> k + 1 # N
  BY <1>3 DEF Stage
<1>5. /\ queue = [j \in Vessel |-> queue[j]] /\ bOut = [j \in Vessel |-> bOut[j]]
      /\ aOut = [j \in Vessel |-> aOut[j]]
  BY DEF IInv, TypeOK
<1>6. ASSUME NEW j \in Vessel, j # k
      PROVE  /\ queue'[j] = queue[j] /\ bOut'[j] = bOut[j] /\ aOut'[j] = aOut[j]
             /\ NextState(j)' = NextState(j) /\ Decision(j)' = Decision(j)
             /\ StillToStep(j)' <=> StillToStep(j)
  <2>1. queue'[j] = queue[j] /\ bOut'[j] = bOut[j] /\ aOut'[j] = aOut[j]
    BY <1>3, <1>5, <1>6
  <2>2. NextState(j)' = NextState(j)
    BY <1>3, <2>1 DEF NextState
  <2>3. Decision(j)' = Decision(j)
    BY <1>3, <2>2 DEF Decision
  <2>4. StillToStep(j)' <=> StillToStep(j)
    BY <1>0, <1>1, <1>4, <1>6 DEF StillToStep, Vessel
  <2> QED
    BY <2>1, <2>2, <2>3, <2>4
<1>7. /\ queue'[k] = Push(queue[k], NextState(k)) /\ bOut'[k] = NextState(k)
      /\ aOut'[k] = Decision(k) /\ ~StillToStep(k)' /\ StillToStep(k)
  <2>1. ~StillToStep(k)' /\ StillToStep(k)
    BY <1>0, <1>1, <1>4 DEF StillToStep, Vessel
  <2> QED
    BY <1>1, <1>3, <1>5, <2>1
<1>8. FinalB' = FinalB
  <2>1. FinalB' = [j \in Vessel |-> IF StillToStep(j)' THEN NextState(j)' ELSE bOut'[j]]
    BY DEF FinalB
  <2>2. ASSUME NEW j \in Vessel
        PROVE  (IF StillToStep(j)' THEN NextState(j)' ELSE bOut'[j])
                 = IF StillToStep(j) THEN NextState(j) ELSE bOut[j]
    BY <1>6, <1>7
  <2> QED
    BY <2>1, <2>2 DEF FinalB
<1>9. FinalA' = FinalA
  <2>1. FinalA' = [j \in Vessel |-> IF StillToStep(j)' THEN Decision(j)' ELSE aOut'[j]]
    BY DEF FinalA
  <2>2. ASSUME NEW j \in Vessel
        PROVE  (IF StillToStep(j)' THEN Decision(j)' ELSE aOut'[j])
                 = IF StillToStep(j) THEN Decision(j) ELSE aOut[j]
    BY <1>6, <1>7
  <2> QED
    BY <2>1, <2>2 DEF FinalA
<1>10. FinalQueue' = FinalQueue
  <2>1. FinalQueue' = [j \in Vessel |-> IF StillToStep(j)'
                                          THEN Push(queue'[j], NextState(j)')
                                          ELSE queue'[j]]
    BY DEF FinalQueue
  <2>2. ASSUME NEW j \in Vessel
        PROVE  (IF StillToStep(j)' THEN Push(queue'[j], NextState(j)') ELSE queue'[j])
                 = IF StillToStep(j) THEN Push(queue[j], NextState(j)) ELSE queue[j]
    BY <1>6, <1>7
  <2> QED
    BY <2>1, <2>2 DEF FinalQueue
<1>11. FinalStore' = FinalStore /\ FinalCtx' = FinalCtx
  BY <1>1, <1>3, <1>4, <1>8 DEF FinalStore, FinalCtx
<1>12. FinalGoalsPrev' = FinalGoalsPrev /\ FinalGoalsNow' = FinalGoalsNow
  BY <1>1, <1>3, <1>4, <1>11 DEF FinalGoalsPrev, FinalGoalsNow, InFrame
<1> QED
  BY <1>9, <1>10, <1>11, <1>12

(* The steps after the last twin store what was foreseen.                  *)
LEMMA FinalAfterTwins ==
  ASSUME IInv, UpdateContext \/ Retarget
  PROVE  /\ UNCHANGED <<FinalQueue, FinalA, FinalStore, FinalCtx>>
         /\ UNCHANGED <<FinalGoalsPrev, FinalGoalsNow>>
<1>1. call.at \in {"context", "plan"} /\ call'.at \in {"plan", "idle"}
  BY DEF UpdateContext, Retarget
<1>2. UNCHANGED <<queue, bOut, aOut>>
  BY DEF UpdateContext, Retarget
<1>3. \A k \in Vessel : ~StillToStep(k) /\ ~StillToStep(k)'
  BY <1>1 DEF StillToStep
<1>4. /\ FinalB = bOut /\ FinalA = aOut /\ FinalQueue = queue
      /\ FinalA' = aOut' /\ FinalQueue' = queue'
  <2>1. /\ FinalB = bOut /\ FinalA = aOut /\ FinalQueue = queue
    BY <1>3 DEF FinalB, FinalA, FinalQueue, IInv, TypeOK
  <2>2. FinalA' = [k \in Vessel |-> IF StillToStep(k)' THEN Decision(k)' ELSE aOut'[k]]
    BY DEF FinalA
  <2>3. FinalQueue' = [k \in Vessel |-> IF StillToStep(k)'
                                          THEN Push(queue'[k], NextState(k)')
                                          ELSE queue'[k]]
    BY DEF FinalQueue
  <2>4. FinalA' = [k \in Vessel |-> aOut'[k]] /\ FinalQueue' = [k \in Vessel |-> queue'[k]]
    BY <1>3, <2>2, <2>3
  <2> QED
    BY <1>2, <2>1, <2>4 DEF IInv, TypeOK
<1>5. CASE UpdateContext
  BY <1>2, <1>4, <1>5
     DEF UpdateContext, FinalStore, FinalCtx, FinalGoalsPrev, FinalGoalsNow, InFrame
<1>6. CASE Retarget
  BY <1>2, <1>4, <1>6
     DEF Retarget, FinalStore, FinalCtx, FinalGoalsPrev, FinalGoalsNow, InFrame
<1> QED
  BY <1>5, <1>6

(* A frame taken apart at its callbacks is the frame of equations (2) to   *)
(* (6), for every fleet, every capacity and every application.             *)
THEOREM CoordinatorImplementsFrame == Spec => ImplementsFrame
<1> USE FleetAssumption
<1> DEFINE H == [k \in Vessel |-> Contents(FinalQueue[k])]
<1>1. Init /\ IInv => Frames!Init
  <2> SUFFICES ASSUME Init, IInv
               PROVE  Frames!Init
    OBVIOUS
  <2>1. /\ FinalA = aOut /\ FinalQueue = queue /\ FinalStore = store /\ FinalCtx = ctx
        /\ FinalGoalsPrev = goalsPrev /\ FinalGoalsNow = goalsNow
    BY FinalWhenIdle DEF Init
  <2>2. \A k \in Vessel : Contents(queue[k]) = <<>>
    BY DEF Init, Contents, EmptyQueue
  <2> QED
    BY <2>1, <2>2 DEF Init, Frames!Init, Frames!Vessel, Vessel
<1>2. IInv /\ IInv' /\ [Next]_vars => [Frames!Next]_(Frames!vars)
  <2> SUFFICES ASSUME IInv, IInv', [Next]_vars
               PROVE  [Frames!Next]_(Frames!vars)
    OBVIOUS
  <2>1. ASSUME NEW k \in Vessel, NEW b \in SeedState, Seed(k, b)
        PROVE  Frames!Seed(k, b)
    <3>1. /\ queue' = [queue EXCEPT ![k] = Push(queue[k], b)]
          /\ queue = [j \in Vessel |-> queue[j]] /\ queue[k] \in QueueOf(Cap[k], State)
          /\ b \in State /\ Cap[k] \in Nat \ {0} /\ call.at = "idle"
          /\ UNCHANGED <<ctx, store, goalsPrev, goalsNow, bOut, aOut, call, args>>
      BY <2>1 DEF Seed, IInv, TypeOK
    <3>2. /\ FinalA = aOut /\ FinalQueue = queue /\ FinalStore = store /\ FinalCtx = ctx
          /\ FinalGoalsPrev = goalsPrev /\ FinalGoalsNow = goalsNow
      BY <3>1, FinalWhenIdle
    <3>3. (/\ FinalA = aOut /\ FinalQueue = queue /\ FinalStore = store
           /\ FinalCtx = ctx /\ FinalGoalsPrev = goalsPrev /\ FinalGoalsNow = goalsNow)'
      <4>1. (call.at = "idle")'
        BY <3>1
      <4> QED
        BY <4>1, FinalWhenIdle, PTL
    <3>4. H[k] = Contents(queue[k])
      BY <3>2
    <3>5. H' = [H EXCEPT ![k] = IF Len(H[k]) < Cap[k] THEN Append(H[k], b)
                                                     ELSE Append(Tail(H[k]), b)]
      <4>1. Contents(Push(queue[k], b)) = IF Len(H[k]) < Cap[k]
                                            THEN Append(H[k], b)
                                            ELSE Append(Tail(H[k]), b)
        BY <3>1, <3>4, ContentsOfPush
      <4> QED
        BY <3>1, <3>2, <3>3, <4>1
    <3> QED
      BY <3>1, <3>2, <3>3, <3>5 DEF Frames!Seed, Frames!Remember
  <2>2. ASSUME NEW ins \in [Vessel -> Input], NEW n \in 0 .. MaxWindow,
               NEW mission \in Mission, BeginFrame(ins, n, mission)
        PROVE  n \in 1 .. MaxWindow /\ Frames!Frame(ins, n, mission)
    <3> DEFINE B == [k \in Vessel |->
                       DeltaE(k, Window(queue[k], n), ins[k], goalsPrev[k], ctx)]
    <3>1. /\ call.at = "idle" /\ n # 0 /\ \A k \in Vessel : n <= queue[k].len
      BY <2>2 DEF BeginFrame, EveryTwinCanStep
    <3>2. /\ FinalA = aOut /\ FinalQueue = queue /\ FinalStore = store /\ FinalCtx = ctx
          /\ FinalGoalsPrev = goalsPrev /\ FinalGoalsNow = goalsNow
      BY <3>1, FinalWhenIdle
    <3>3. /\ B \in [Vessel -> State]
          /\ FinalQueue' = [k \in Vessel |-> Push(queue[k], B[k])]
          /\ FinalA' = [k \in Vessel |-> Pi(k, B[k], goalsNow[k], ctx)]
          /\ FinalStore' = B /\ FinalCtx' = Context(ctx, B) /\ FinalGoalsPrev' = goalsNow
          /\ FinalGoalsNow' = Plan(B, Context(ctx, B), goalsNow, mission)
      BY <2>2, FinalAfterBegin
    <3>4. ASSUME NEW k \in Vessel
          PROVE  /\ n \in 1 .. Len(H[k])
                 /\ Window(queue[k], n) = [i \in 1 .. n |-> H[k][Len(H[k]) + 1 - i]]
                 /\ Contents(Push(queue[k], B[k])) =
                      IF Len(H[k]) < Cap[k] THEN Append(H[k], B[k])
                                            ELSE Append(Tail(H[k]), B[k])
      <4>1. /\ queue[k] \in QueueOf(Cap[k], State) /\ Cap[k] \in Nat \ {0}
            /\ B \in [Vessel -> State] /\ B[k] \in State
            /\ queue = [j \in Vessel |-> queue[j]]
        BY <3>3 DEF IInv, TypeOK
      <4>2. n \in 1 .. queue[k].len /\ queue[k].len \in Nat
        BY <3>1, <4>1 DEF QueueOf
      <4>3. H[k] = Contents(queue[k])
        BY <3>2
      <4>4. Len(H[k]) = queue[k].len
        <5> HIDE DEF H
        <5> QED
          BY <4>2, <4>3 DEF Contents
      <4> HIDE DEF B, H
      <4>5. Window(queue[k], n) = [i \in 1 .. n |-> H[k][Len(H[k]) + 1 - i]]
        BY <4>1, <4>2, <4>3, WindowOfContents
      <4>6. Contents(Push(queue[k], B[k])) = IF Len(H[k]) < Cap[k]
                                               THEN Append(H[k], B[k])
                                               ELSE Append(Tail(H[k]), B[k])
        BY <4>1, <4>3, ContentsOfPush
      <4> QED
        BY <4>2, <4>4, <4>5, <4>6
    <3>5. B = [k \in Vessel |-> DeltaE(k, [i \in 1 .. n |-> H[k][Len(H[k]) + 1 - i]],
                                       ins[k], goalsPrev[k], ctx)]
      BY <3>4
    <3>6. H' = [k \in Vessel |-> IF Len(H[k]) < Cap[k] THEN Append(H[k], B[k])
                                                       ELSE Append(Tail(H[k]), B[k])]
      <4>1. H' = [k \in Vessel |-> Contents(FinalQueue'[k])]
        BY DEF Contents, At, Slot
      <4>2. \A k \in Vessel : FinalQueue'[k] = Push(queue[k], B[k])
        BY <3>3
      <4> QED
        BY <3>4, <4>1, <4>2
    <3>7. n \in 1 .. MaxWindow
      BY <3>1
    <3>8. \A k \in Vessel : n \in 1 .. Len(H[k])
      BY <3>4
    <3>9. Frames!Vessel = Vessel
      BY DEF Frames!Vessel, Vessel
    <3>10. B = [k \in Vessel |-> DeltaE(k, Frames!Recent(k, n), ins[k], FinalGoalsPrev[k], FinalCtx)]
      BY <3>2, <3>5 DEF Frames!Recent
    <3>11. H' = [k \in Vessel |-> Frames!Remember(k, B[k])]
      BY <3>6 DEF Frames!Remember
    <3> HIDE DEF B
    <3>12. Frames!Frame(ins, n, mission)
      BY <3>2, <3>3, <3>8, <3>9, <3>10, <3>11, Zenon DEF Frames!Frame
    <3> QED
      BY <3>7, <3>12
  <2>3. ASSUME NEW n \in 0 .. MaxWindow, RefuseFrame(n)
        PROVE  UNCHANGED Frames!vars
    <3>1. /\ call.at = "idle" /\ call'.at = "idle"
          /\ UNCHANGED <<queue, ctx, store, goalsPrev, goalsNow, bOut, aOut, args>>
      BY <2>3 DEF RefuseFrame
    <3>2. /\ FinalA = aOut /\ FinalQueue = queue /\ FinalStore = store /\ FinalCtx = ctx
          /\ FinalGoalsPrev = goalsPrev /\ FinalGoalsNow = goalsNow
      BY <3>1, FinalWhenIdle
    <3>3. (/\ FinalA = aOut /\ FinalQueue = queue /\ FinalStore = store
           /\ FinalCtx = ctx /\ FinalGoalsPrev = goalsPrev /\ FinalGoalsNow = goalsNow)'
      <4>1. (call.at = "idle")'
        BY <3>1
      <4> QED
        BY <4>1, FinalWhenIdle, PTL
    <3> QED
      BY <3>1, <3>2, <3>3 DEF Frames!vars
  <2>4. CASE StepTwin \/ UpdateContext \/ Retarget
    BY <2>4, FinalAfterStep, FinalAfterTwins DEF Frames!vars
  <2>5. CASE UNCHANGED vars
    <3>1. /\ UNCHANGED <<FinalQueue, FinalA, FinalStore, FinalCtx>>
          /\ UNCHANGED <<FinalGoalsPrev, FinalGoalsNow>>
      BY <2>5 DEF vars, FinalQueue, FinalA, FinalStore, FinalCtx, FinalB, FinalGoalsPrev,
           FinalGoalsNow, InFrame, StillToStep, NextState, Decision
    <3> QED
      BY <3>1 DEF Frames!vars
  <2> QED
    BY <2>1, <2>2, <2>3, <2>4, <2>5 DEF Next, Frames!Next, Frames!Vessel, Vessel
<1> QED
  BY <1>1, <1>2, CoordinatorInvariant, PTL DEF Spec, ImplementsFrame, Frames!Spec

-----------------------------------------------------------------------------
(* Goals.                                                                  *)

(* What a twin's step does to the call and to the outputs.                 *)
LEMMA StepUnderGoals ==
  ASSUME IInv, StepTwin
  PROVE  LET k == call.stepped IN
         /\ k \in Vessel /\ call.at = "fleet" /\ call'.stepped = k + 1
         /\ call'.at # "idle" /\ UNCHANGED <<goalsPrev, goalsNow>>
         /\ bOut'[k].goal = goalsPrev[k]
         /\ aOut' = [aOut EXCEPT ![k] = Decision(k)] /\ Decision(k).goal = goalsNow[k]
<1> USE FleetAssumption
<1>1. PICK k \in Vessel : k = call.stepped
  BY DEF IInv, TypeOK, StepTwin, WindowStaysHeld, CallRecord, Vessel
<1>2. call.at = "fleet" /\ args.n \in 1 .. queue[k].len /\ queue[k] \in QueueOf(Cap[k], State)
  BY DEF IInv, TypeOK, StepTwin, WindowStaysHeld
<1>3. ~(args.n = 0 \/ args.n > queue[k].len)
  BY <1>2 DEF QueueOf
<1>4. /\ bOut' = [bOut EXCEPT ![k] = NextState(k)]
      /\ aOut' = [aOut EXCEPT ![k] = Decision(k)]
      /\ call' = [at |-> Stage(k + 1), stepped |-> k + 1, rc |-> call.rc]
      /\ UNCHANGED <<goalsPrev, goalsNow>>
  BY <1>1, <1>3 DEF StepTwin
<1>5. /\ args \in ArgRecord /\ args.n \in 1 .. MaxWindow /\ args.ins[k] \in Input
      /\ goalsPrev[k] \in Goal /\ goalsNow[k] \in Goal /\ ctx \in Ctx
  BY <1>2 DEF IInv, TypeOK, ArgRecord
<1>6. Window(queue[k], args.n) \in [1 .. args.n -> State]
  BY <1>2, WindowOfHeld DEF IInv, TypeOK, HeldStatesWritten
<1>7. NextState(k) \in State
  BY <1>2, NextStateType DEF IInv
<1>8. NextState(k).goal = goalsPrev[k]
  BY <1>5, <1>6, TraceAssumption DEF NextState
<1>9. Decision(k).goal = goalsNow[k]
  BY <1>5, <1>7, TraceAssumption DEF Decision
<1>10. bOut'[k] = NextState(k)
  BY <1>4 DEF IInv, TypeOK
<1>11. call'.stepped = k + 1 /\ call'.at # "idle"
  BY <1>4 DEF Stage
<1> QED
  BY <1>1, <1>2, <1>4, <1>8, <1>9, <1>10, <1>11

LEMMA GoalsInForceStep == IInv /\ IInv' /\ GoalsInForce /\ [Next]_vars => GoalsInForce'
<1> SUFFICES ASSUME IInv, IInv', GoalsInForce, [Next]_vars, NEW j \in Vessel,
                    aOut'[j] # NoActuation
             PROVE  aOut'[j].goal = DecidedUnder(j)'
  BY DEF GoalsInForce
<1> USE FleetAssumption
<1>1. ASSUME UNCHANGED <<aOut, goalsPrev, goalsNow>>,
             (InFrame /\ j < call.stepped)' <=> (InFrame /\ j < call.stepped)
      PROVE  aOut'[j].goal = DecidedUnder(j)'
  BY <1>1 DEF GoalsInForce, DecidedUnder
<1>2. ASSUME NEW k \in Vessel, NEW b \in SeedState, Seed(k, b)
      PROVE  aOut'[j].goal = DecidedUnder(j)'
  BY <1>1, <1>2 DEF Seed, InFrame
<1>3. ASSUME NEW ins \in [Vessel -> Input], NEW n \in 0 .. MaxWindow, NEW mission \in Mission,
             BeginFrame(ins, n, mission)
      PROVE  aOut'[j].goal = DecidedUnder(j)'
  <2>1. ~(j < 0) BY DEF Vessel
  <2>2. call.at = "idle" /\ call'.stepped = 0 /\ UNCHANGED <<aOut, goalsPrev, goalsNow>>
    BY <1>3 DEF BeginFrame
  <2> QED BY <1>1, <2>1, <2>2 DEF InFrame
<1>4. ASSUME NEW n \in 0 .. MaxWindow, RefuseFrame(n)
      PROVE  aOut'[j].goal = DecidedUnder(j)'
  BY <1>1, <1>4 DEF RefuseFrame, InFrame
<1>5. CASE StepTwin
  <2> DEFINE k == call.stepped
  <2>1. /\ k \in Vessel /\ call.at = "fleet" /\ call'.stepped = k + 1
        /\ call'.at # "idle" /\ UNCHANGED <<goalsPrev, goalsNow>>
        /\ aOut' = [aOut EXCEPT ![k] = Decision(k)] /\ Decision(k).goal = goalsNow[k]
    BY <1>5, StepUnderGoals
  <2>2. CASE j = k
    <3>1. aOut'[j] = Decision(k) BY <2>1, <2>2 DEF IInv, TypeOK
    <3>2. (InFrame /\ j < call.stepped)' BY <2>1, <2>2 DEF InFrame, Vessel
    <3> QED BY <2>1, <2>2, <3>1, <3>2 DEF DecidedUnder
  <2>3. CASE j # k
    <3>1. aOut'[j] = aOut[j] BY <2>1, <2>3 DEF IInv, TypeOK
    <3>2. (InFrame /\ j < call.stepped)' <=> (InFrame /\ j < call.stepped)
      BY <2>1, <2>3 DEF InFrame, Vessel
    <3> QED BY <2>1, <3>1, <3>2 DEF GoalsInForce, DecidedUnder
  <2> QED BY <2>2, <2>3
<1>6. CASE UpdateContext
  <2>1. call.at = "context" /\ call'.at = "plan" /\ call'.stepped = call.stepped
        /\ UNCHANGED <<aOut, goalsPrev, goalsNow>>
    BY <1>6 DEF UpdateContext
  <2> QED BY <1>1, <2>1 DEF InFrame
<1>7. CASE Retarget
  <2>1. call.at = "plan" /\ call'.at = "idle" /\ goalsPrev' = goalsNow /\ aOut' = aOut
    BY <1>7 DEF Retarget
  <2>2. InFrame /\ j < call.stepped
    BY <2>1 DEF InFrame, IInv, OutputsWritten, Vessel
  <2> QED BY <2>1, <2>2 DEF GoalsInForce, DecidedUnder, InFrame
<1>8. CASE UNCHANGED vars BY <1>1, <1>8 DEF vars, InFrame
<1> QED BY <1>2, <1>3, <1>4, <1>5, <1>6, <1>7, <1>8 DEF Next

(* The goal a vessel decided under is the goal its next transition runs    *)
(* under, for every fleet, every mission and every application that tells  *)
(* (coordinator.c, fdt_coord_step; fleet.c, fdt_fleet_step).               *)
THEOREM CoordinatorGoalHandedOver == Spec => GoalHandedOver
<1>1. Init => GoalsInForce BY DEF Init, GoalsInForce
<1>2. IInv /\ GoalsInForce /\ [Next]_vars
        => [LET k == call.stepped IN
              call.at = "fleet" /\ call'.stepped = k + 1 /\ aOut[k] # NoActuation
                => bOut'[k].goal = aOut[k].goal]_vars
  <2> SUFFICES ASSUME IInv, GoalsInForce, Next, call.at = "fleet",
                      call'.stepped = call.stepped + 1, aOut[call.stepped] # NoActuation
               PROVE  bOut'[call.stepped].goal = aOut[call.stepped].goal
    OBVIOUS
  <2>1. StepTwin
    BY DEF Next, Seed, BeginFrame, RefuseFrame, UpdateContext, Retarget
  <2>2. call.stepped \in Vessel /\ bOut'[call.stepped].goal = goalsPrev[call.stepped]
    BY <2>1, StepUnderGoals
  <2>3. ~(call.stepped < call.stepped) BY <2>2 DEF Vessel
  <2> QED BY <2>2, <2>3 DEF GoalsInForce, DecidedUnder
<1> QED BY <1>1, <1>2, GoalsInForceStep, CoordinatorInvariant, PTL DEF Spec, GoalHandedOver
=============================================================================
