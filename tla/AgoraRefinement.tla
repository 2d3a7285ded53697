---------------------------- MODULE AgoraRefinement ----------------------------
(* The operator implements EpochMembership: standing is what the current   *)
(* snapshot's proofs establish, joining and leaving what is staged.        *)
EXTENDS AgoraProperties

Membership == INSTANCE EpochMembership WITH
  standing <- [c \in Classes |-> Standing(epoch, c)],
  joining  <- [c \in Classes |-> Range(stagedAdmissions[c])],
  leaving  <- {l \in Leaves : MigrationSpend(l) \in stagedSpends},
  gone     <- {l \in Leaves : RevocationKey(l) \in revocations \/ MigrationSpend(l) \in spends},
  frozen   <- dissolved

(* Every method of AgoraState, seen through standing alone, is one step of *)
(* EpochMembership or changes nothing in it.                               *)
ImplementsMembership == Membership!Spec
===============================================================================
