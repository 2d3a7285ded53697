----------------------------- MODULE MCCredential -----------------------------
(***************************************************************************)
(* MemberCredential on small instances: one device for the epochs and the  *)
(* faults, two interchangeable devices for the migration between them.     *)
(***************************************************************************)
EXTENDS MemberCredential, TLC

DeviceSymmetry == Permutations(Devices)
===============================================================================
