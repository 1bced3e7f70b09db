------------------------- MODULE MCRaspikeLifecycle -------------------------
(***************************************************************************)
(* RaspikeLifecycle on small instances.                                    *)
(***************************************************************************)
EXTENDS RaspikeLifecycle, TLC

CONSTANTS r1, r2, s1, s2, A, B

OneReceiver  == {r1}
TwoReceivers == {r1, r2}
TwoSenders   == {s1, s2}
OneSender    == {s1}
OnePort      == {A}
TwoPorts     == {A, B}
=============================================================================
