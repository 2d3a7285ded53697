------------------------------- MODULE MCAgora -------------------------------
(* Instances of AgoraState for TLC.  Each cfg picks one founding and the   *)
(* inputs of the flow it is about.                                         *)
EXTENDS AgoraRefinement

\* Leaves: the founder's, a candidate's, and a second leaf of the candidate's key.
MCLeaves == {"f", "x", "x2"}
MCSkOf   == [l \in MCLeaves |-> IF l = "f" THEN "sf" ELSE "sx"]

\* The same leaves, the second one of the founder's key.
FounderLineage == [l \in MCLeaves |-> IF l = "x2" THEN "sx" ELSE "sf"]

OneClass     == <<"A">>
TwoClasses   == <<"A", "B">>
VouchInA     == [c \in Classes |-> "A"]
ThresholdOne == [c \in Classes |-> 1]
ThresholdTwoInB == [c \in Classes |-> IF c = "B" THEN 2 ELSE 1]
FoundsA      == <<"A">>
FoundsBoth   == <<"A", "B">>

Policy(c, t, q) == [kind |-> "policy", class |-> c, threshold |-> t, quorum |-> q]
Revoke(l)       == [kind |-> "revocation", leaf |-> l]
Dissolution     == [kind |-> "dissolution"]
Horizon(n)      == [kind |-> "horizon", boundaries |-> n]

GovernDecisions   == {Revoke("x"), Policy("A", 2, 2), Policy("A", 0, 1), Horizon(3), Horizon(0),
                      Dissolution}
MembershipDecisions == {Revoke("x")}
RenewalDecisions  == {Policy("A", 2, 2), Horizon(3), Dissolution}
===============================================================================
