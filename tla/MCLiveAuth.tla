------------------------------- MODULE MCLiveAuth -------------------------------
(***************************************************************************)
(* LiveAuth on a small instance: participants are interchangeable, and so  *)
(* are channels.                                                           *)
(***************************************************************************)
EXTENDS LiveAuth

RoundSymmetry == Permutations(Participants) \cup Permutations(Channels)
===============================================================================
