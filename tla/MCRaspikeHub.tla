----------------------------- MODULE MCRaspikeHub -----------------------------
(***************************************************************************)
(* Two interchangeable users; the longest text that fits and one that does *)
(* not, a volume out of range, and tones with an end and without one.      *)
(***************************************************************************)
EXTENDS RaspikeHub, TLC

Interchangeable == Permutations(User)
=============================================================================
