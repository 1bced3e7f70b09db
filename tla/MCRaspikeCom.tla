----------------------------- MODULE MCRaspikeCom -----------------------------
(***************************************************************************)
(* Two threads, frames of two bytes, a buffer that holds two of them.  A   *)
(* frame of two bytes can be cut in the middle, which is all that its      *)
(* length matters for.  Liveness is checked, so the threads are not taken  *)
(* for interchangeable.                                                    *)
(***************************************************************************)
EXTENDS RaspikeCom
=============================================================================
