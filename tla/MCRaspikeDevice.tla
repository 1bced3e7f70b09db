--------------------------- MODULE MCRaspikeDevice ---------------------------
(***************************************************************************)
(* Two users, two ports and two types of device.  PortA is port number 0,  *)
(* so that the ports are not interchangeable; users and types are.         *)
(***************************************************************************)
EXTENDS RaspikeDevice, TLC

Interchangeable == Permutations(User) \cup Permutations(DeviceType)
=============================================================================
