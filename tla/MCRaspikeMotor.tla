---------------------------- MODULE MCRaspikeMotor ----------------------------
(***************************************************************************)
(* Two interchangeable users, one duty limit, and a power out of range,    *)
(* which is clamped to one in range (and one in range in the duty run).    *)
(* A call's locals die with it: two states that differ in the locals of    *)
(* calls that have returned only are taken for one.  What is left of such  *)
(* a call is whether it set a duty limit, which RestoreDutyLimit asks, and *)
(* its result, which is in saved.                                          *)
(***************************************************************************)
EXTENDS RaspikeMotor, TLC

Interchangeable == Permutations(User)

Live == <<pdev, status, request_mutex, pc, saved, toHub, toHost, hub, past, bounds,
          [u \in User |-> IF pc[u] = "idle" THEN <<op[u].cmd = "MOT_SET_DTY">>
                          ELSE <<op[u]>>]>>
=============================================================================
