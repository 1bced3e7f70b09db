---------------------------- MODULE MCRaspikeLink ----------------------------
(***************************************************************************)
(* Two frames whose payload is the INIT byte, a restart of the hub, and    *)
(* one fault: a change makes either start byte, whose value as a size is   *)
(* too large.                                                              *)
(***************************************************************************)
EXTENDS RaspikeLink, RaspikeCrc
=============================================================================
