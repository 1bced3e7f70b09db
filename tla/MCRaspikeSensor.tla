--------------------------- MODULE MCRaspikeSensor ---------------------------
(***************************************************************************)
(* Two modes, reflection and one other, and two interchangeable users.     *)
(***************************************************************************)
EXTENDS RaspikeSensor, TLC

Interchangeable == Permutations(User)
=============================================================================
