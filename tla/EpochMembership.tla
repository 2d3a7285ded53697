---------------------------- MODULE EpochMembership ----------------------------
(***************************************************************************)
(* What an agora promises about standing, without trees, sessions, proofs  *)
(* or logs (proposals 0015, 0020; sections 9.3 and 11 of the               *)
(* specification): membership is a set per class that changes only at an   *)
(* epoch boundary, where those who were admitted join, those who migrated  *)
(* or were revoked leave, and whoever left never returns.                  *)
(***************************************************************************)
EXTENDS Naturals, FiniteSets

CONSTANTS Leaves, Classes, Genesis, MaxEpoch

VARIABLES
  epoch,
  standing,   \* [Classes -> SUBSET Leaves]
  joining,    \* [Classes -> SUBSET Leaves], admitted from the next epoch
  leaving,    \* SUBSET Leaves, superseded from the next epoch
  gone,       \* SUBSET Leaves, without standing for ever
  frozen

vars == <<epoch, standing, joining, leaving, gone, frozen>>

Init ==
  /\ epoch = Genesis /\ frozen = FALSE
  /\ \E C \in SUBSET Classes, f \in Leaves :
        standing = [c \in Classes |-> IF c \in C THEN {f} ELSE {}]
  /\ joining = [c \in Classes |-> {}] /\ leaving = {} /\ gone = {}

(* An admission: the leaf has standing from the next boundary on.          *)
Admit(c, l) ==
  /\ ~frozen
  /\ l \notin joining[c]
  /\ joining' = [joining EXCEPT ![c] = @ \cup {l}]
  /\ UNCHANGED <<epoch, standing, leaving, gone, frozen>>

(* A migration: the successor joins at the boundary the old leaf leaves.   *)
Supersede(c, old, new) ==
  /\ ~frozen /\ epoch < MaxEpoch
  /\ old \in standing[c] \ leaving
  /\ joining' = [joining EXCEPT ![c] = @ \cup {new}]
  /\ leaving' = leaving \cup {old}
  /\ UNCHANGED <<epoch, standing, gone, frozen>>

(* A boundary, forced by at most one revocation.                           *)
Turn(revoked) ==
  /\ ~frozen /\ epoch < MaxEpoch
  /\ epoch' = epoch + 1
  /\ gone' = gone \cup leaving \cup revoked
  /\ standing' = [c \in Classes |-> (standing[c] \cup joining[c]) \ gone']
  /\ joining' = [c \in Classes |-> {}] /\ leaving' = {}
  /\ UNCHANGED frozen

(* The epoch counter is exhausted: what was staged is lost.                *)
Exhaust ==
  /\ ~frozen /\ epoch = MaxEpoch
  /\ joining' = [c \in Classes |-> {}] /\ leaving' = {}
  /\ UNCHANGED <<epoch, standing, gone, frozen>>

Freeze ==
  /\ ~frozen /\ frozen' = TRUE
  /\ joining' = [c \in Classes |-> {}] /\ leaving' = {}
  /\ UNCHANGED <<epoch, standing, gone>>

(* Every enrolment adds a leaf to a class's newcomers.                     *)
Enrol ==
  /\ joining' # joining
  /\ \E c \in Classes : \/ \E l \in Leaves : Admit(c, l)
                        \/ \E old, new \in Leaves : Supersede(c, old, new)

Next ==
  \/ Enrol
  \/ Turn({}) \/ \E l \in Leaves : Turn({l})
  \/ Exhaust \/ Freeze

Spec == Init /\ [][Next]_vars
===============================================================================
