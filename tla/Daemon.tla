-------------------------------- MODULE Daemon --------------------------------
(***************************************************************************)
(* The main loop of examples/daemon.c: the delta of the fleet measured by  *)
(* the feasibility monitor, one tick of the digital twin environment, and  *)
(* the wait for the frame's deadline.  The pacer and the monitor are       *)
(* FramePacing's, the environment is Dte's; the fleet's own step is        *)
(* Coordinator's, and time passes anywhere, in a simulation's callback     *)
(* too.                                                                    *)
(*                                                                         *)
(* An operator named for a slip is the one after it with that slip made.   *)
(***************************************************************************)
EXTENDS FramePacing, Dte

VARIABLE ticked         \* this frame's fdt_dte_tick has been called

daemonVars == <<vars, dteVars, ticked>>

(* One simulation is registered before the first frame.                    *)
DaemonInit ==
  /\ Init
  /\ \E s \in Sim : slots = <<s>>
  /\ tick = 0 /\ issuing = FALSE /\ called = 0
  /\ joined = <<0>> /\ seen = <<<<>>>>
  /\ ticked = FALSE

Measure ==
  /\ TimePasses \/ FeasBegin \/ FeasEnd
  /\ UNCHANGED <<dteVars, ticked>>

(* fdt_dte_tick, between the measured delta and the wait.                  *)
Environment ==
  /\ at = "after"
  /\ \/ ~ticked /\ TickBegin /\ ticked' = TRUE
     \/ (CallNext \/ TickEnd) /\ UNCHANGED ticked
     \/ issuing /\ called > 0 /\ (\E s \in Sim : Register(s)) /\ UNCHANGED ticked
  /\ UNCHANGED vars

(* The tick of this frame is over, every simulation called.                *)
TickSkippedWhenLate == Passed(next, Reading(clock)) \/ (ticked /\ ~issuing)
TickReturned == ticked /\ ~issuing

Wait ==
  /\ \/ TickReturned /\ WaitOverrun /\ ticked' = FALSE
     \/ TickReturned /\ WaitSleep /\ ticked' = ticked
     \/ Wake /\ ticked' = FALSE
  /\ UNCHANGED dteVars

DaemonNext == Measure \/ Environment \/ Wait

DaemonSpec == DaemonInit /\ [][DaemonNext]_daemonVars

-----------------------------------------------------------------------------

(* dte.h: the environment synchronises its simulations "with the DTI pace  *)
(* (simulation tick)".  However long a simulation runs and however often   *)
(* the pacer overruns, the index issued in a frame is the frame's number.  *)
TickIsTheFrame ==
  /\ at = "before" => tick = waits
  /\ tick \in {waits, waits + 1}
=============================================================================
