----------------------------- MODULE MCServer -----------------------------
(***************************************************************************)
(* The server on small instances. Mountpoint names are interchangeable.     *)
(***************************************************************************)
EXTENDS Server, TLC

MountpointSymmetry == Permutations(Mountpoints)
===========================================================================
