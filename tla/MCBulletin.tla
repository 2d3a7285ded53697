------------------------------- MODULE MCBulletin -------------------------------
(***************************************************************************)
(* Bulletin on a small instance: both members in the first of two classes, *)
(* one of them from the founding.                                          *)
(***************************************************************************)
EXTENDS Bulletin

CONSTANTS m1, m2

MCClasses  == <<"tier1", "tier2">>
MCClassOf  == [m \in {m1, m2} |-> "tier1"]
MCFounding == <<m1>>
===============================================================================
