----------------------------- MODULE MCCoordinator -----------------------------
(***************************************************************************)
(* Two vessels whose callbacks leave a trace: each state, actuation,       *)
(* context and goal records what it was computed from, so a value computed *)
(* from the wrong frame differs from the right one.                        *)
(***************************************************************************)
EXTENDS TracedCoordinator

CONSTANTS i1, NoInput, m1, m2

MCN == 2
MCCap == [k \in 0 .. 1 |-> k + 1]   \* vessel 0 holds one state, vessel 1 two
MCInput == {i1, NoInput}
MCMission == {m1, m2}
MCGoal == MCMission

(* A context records whether some vessel had an input in the frame it was  *)
(* computed from.                                                          *)
MCCtx == BOOLEAN

(* A state records its input, its goal and, in a frame whose context saw   *)
(* an input, the input of the oldest state in its window.                  *)
MCState == [in : MCInput, past : MCInput, goal : MCGoal]
MCZeroState == [in |-> NoInput, past |-> NoInput, goal |-> m1]
MCSeedState == {MCZeroState}

MCActuation == [of : MCInput, goal : MCGoal, ctx : MCCtx]

MCDeltaE(k, w, in, g, c) ==
  [in |-> in, past |-> IF c THEN w[Len(w)].in ELSE NoInput, goal |-> g]
MCPi(k, b, g, c) == [of |-> b.in, goal |-> g, ctx |-> c]
MCContext(c, B) == \E k \in DOMAIN B : B[k].in # NoInput

(* Every vessel is sent where mission control says, but vessel 1 keeps its *)
(* goal unless some vessel had an input: plan_fn depends on c^t.           *)
MCPlan(B, c, g, m) == [k \in DOMAIN g |-> IF k = 1 /\ ~c THEN g[k] ELSE m]
=============================================================================
