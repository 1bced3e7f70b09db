-------------------------- MODULE MCRaspikeRequest --------------------------
(***************************************************************************)
(* RaspikeRequest on a small instance: two callers, two ports.             *)
(***************************************************************************)
EXTENDS RaspikeRequest, TLC

CONSTANTS c1, c2, A, B

TwoCallers == {c1, c2}
TwoPorts   == {A, B}

\* Callers and ports are interchangeable (every property of the run is a safety property).
Interchangeable == Permutations(TwoCallers) \cup Permutations(TwoPorts)
=============================================================================
