--------------------------- MODULE TracedCoordinator ---------------------------
(***************************************************************************)
(* The coordinator of an application whose callbacks leave a trace: a      *)
(* state and an actuation name the goal they were computed under.          *)
(***************************************************************************)
EXTENDS Coordinator

ASSUME TraceAssumption ==
  \A k \in Vessel, g \in Goal, c \in Ctx :
    /\ \A in \in Input, n \in 1 .. MaxWindow : \A w \in [1 .. n -> State] :
         DeltaE(k, w, in, g, c).goal = g
    /\ \A b \in State : Pi(k, b, g, c).goal = g

-----------------------------------------------------------------------------

(* The goal a vessel decided under in one frame is the goal its transition *)
(* runs under in the next (transition.h: on a re-targeting frame "the      *)
(* transition still runs under the old goal"), however many calls were     *)
(* refused or twins seeded in between.                                     *)
GoalHandedOver ==
  [][LET k == call.stepped IN
       call.at = "fleet" /\ call'.stepped = k + 1 /\ aOut[k] # NoActuation
         => bOut'[k].goal = aOut[k].goal]_vars

(* What it rests on: a decision that stands was made under the goals that  *)
(* are now the old ones, or under the new ones if it is of this frame.     *)
DecidedUnder(k) == IF InFrame /\ k < call.stepped THEN goalsNow[k] ELSE goalsPrev[k]

GoalsInForce == \A k \in Vessel : aOut[k] # NoActuation => aOut[k].goal = DecidedUnder(k)
=============================================================================
