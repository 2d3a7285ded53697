------------------------------- MODULE MCProving -------------------------------
(* A small instance: minted secrets are distinct numbers below every order, *)
(* and the widths stand in the code's proportions.                          *)
EXTENDS Proving

MCClaims == {<<Authorship, 2>>, <<Vouch, 2>>, <<Policy, 2>>, <<LiveAuth, 2>>, <<Access, 2>>}

MCRootSecret(h, g)     == 40 + 3 * h + g
MCOpening(h, g)        == 60 + 3 * h + g
\* Three apart, so that no hashable form of one key is another key.
MCEpochSecret(h, g, e) == 9 * h + 6 * g + 3 * e - 7
===============================================================================
