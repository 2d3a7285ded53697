-------------------------------- MODULE LiveAuth --------------------------------
(***************************************************************************)
(* Rounds of live authentication (nymora-protocol/src/live_auth.rs and the *)
(* derivations of nymora-crypto/src/live_auth.rs): commit, lock the        *)
(* roster, reveal, finish.                                                 *)
(*                                                                         *)
(* Participants run the library, each round from a fresh Contribution.     *)
(* The hosts move everything else: any commitment ever posted may stand in *)
(* anyone's roster, in any order and twice; any opening ever seen may be   *)
(* handed to anyone's finish; and a stranger posts and opens what it       *)
(* likes, built from nonces that are public or its own.                    *)
(*                                                                         *)
(* Nonces are numbered as they are drawn, so "chosen later" is "greater".  *)
(* A commitment or a context is the tuple it digests, framed and under its *)
(* domain: nobody can open one in a second way.                            *)
(***************************************************************************)
EXTENDS Naturals, SequencesExt, FiniteSets, TLC

CONSTANTS
  Participants,  \* they run the library
  Stranger,      \* someone who does not
  Channels,      \* channel metadata the hosts supply
  Agora,
  None,          \* no contribution, no roster
  MaxDraws,      \* bound: nonces drawn by anyone
  MaxRounds,     \* bound: contributions of one participant
  MaxRoster      \* bound: the longest roster or list of reveals tried

ASSUME StrangerAssumption == Stranger \notin Participants
ASSUME BoundsAssumption == MaxDraws \in Nat /\ MaxRoster \in Nat

VARIABLES
  drawn,         \* how many nonces have been drawn
  contribution,  \* per participant: the live Contribution, or None
  locked,        \* per participant: the roster and the draw count at lock, or None
  rounds,        \* per participant: Contributions so far
  posted,        \* commitments the hosts have seen
  openings,      \* reveals the hosts have seen
  sessions       \* finished rounds
vars == <<drawn, contribution, locked, rounds, posted, openings, sessions>>

\* An opening; a participant's blinding stays its own until it reveals.
Reveals == [nonce : 1..MaxDraws, blinding : Participants \cup {Stranger}]

Commitment(opening) == <<"LiveAuthCommitment", opening.nonce, opening.blinding>>

\* Faulty: the nonces in arrival order.
FaultyContext(nonces, metadata) == <<"LiveAuthContext", Len(nonces), nonces, metadata>>

\* Sorted: what the hosts' order cannot change.
InOrder(nonces) ==
  LET Ordering(p) == \A i, j \in DOMAIN nonces : i < j => nonces[p[i]] <= nonces[p[j]]
      order == CHOOSE p \in Bijection(DOMAIN nonces, DOMAIN nonces) : Ordering(p)
  IN [i \in DOMAIN nonces |-> nonces[order[i]]]
Context(nonces, metadata) ==
  <<"LiveAuthContext", Len(nonces), InOrder(nonces), metadata>>

Sas(context) == <<"LiveAuthSas", context>>

\* The key is a participant's epoch key: one per participant here.
Pseudonym(key, context, agora) == <<"Action", "LiveAuth", key, context, agora>>

-------------------------------------------------------------------------------
SeqsUpTo(S, n) == UNION {[1..k -> S] : k \in 0..n}

Init ==
  /\ drawn = 0
  /\ contribution = [p \in Participants |-> None]
  /\ locked = [p \in Participants |-> None]
  /\ rounds = [p \in Participants |-> 0]
  /\ posted = {} /\ openings = {} /\ sessions = {}

\* Contribution::new and commitment: fresh entropy, and what leaves the device.
New(p) ==
  /\ rounds[p] < MaxRounds /\ drawn < MaxDraws
  /\ contribution[p] = None
  /\ LET own == [nonce |-> drawn + 1, blinding |-> p]
     IN /\ contribution' = [contribution EXCEPT ![p] = own]
        /\ posted' = posted \cup {Commitment(own)}
  /\ drawn' = drawn + 1
  /\ rounds' = [rounds EXCEPT ![p] = @ + 1]
  /\ UNCHANGED <<locked, openings, sessions>>

\* Faulty: repeated commitments are tolerated.
FaultyLockable(own, roster) ==
  /\ Len(roster) >= 2
  /\ Commitment(own) \in Range(roster)
\* Faulty: one's own commitment need not be there.
AbsentLockable(own, roster) ==
  /\ Len(roster) >= 2
  /\ IsInjective(roster)
Lockable(own, roster) ==
  /\ Len(roster) >= 2
  /\ IsInjective(roster)
  /\ Commitment(own) \in Range(roster)

Lock(p, roster) ==
  /\ contribution[p] /= None /\ locked[p] = None
  /\ Lockable(contribution[p], roster)
  /\ locked' = [locked EXCEPT ![p] = [roster |-> roster, at |-> drawn]]
  /\ UNCHANGED <<drawn, contribution, rounds, posted, openings, sessions>>

(* lock consumes the contribution: a refusal ends the round.               *)
LockRefused(p, roster) ==
  /\ contribution[p] /= None /\ locked[p] = None
  /\ ~Lockable(contribution[p], roster)
  /\ contribution' = [contribution EXCEPT ![p] = None]
  /\ UNCHANGED <<drawn, locked, rounds, posted, openings, sessions>>

Reveal(p) ==
  /\ locked[p] /= None
  /\ openings' = openings \cup {contribution[p]}
  /\ UNCHANGED <<drawn, contribution, locked, rounds, posted, sessions>>

\* Faulty: only one's own slot is checked.
FaultyOpens(own, roster, reveals) ==
  /\ Len(reveals) = Len(roster)
  /\ \A i \in DOMAIN roster : roster[i] = Commitment(own) => reveals[i].nonce = own.nonce
Opens(own, roster, reveals) ==
  /\ Len(reveals) = Len(roster)
  /\ \A i \in DOMAIN roster :
       /\ Commitment(reveals[i]) = roster[i]
       /\ roster[i] = Commitment(own) => reveals[i].nonce = own.nonce

\* How many of a roster's commitments are to a nonce.
Occurrences(roster, n) == Cardinality({i \in DOMAIN roster : roster[i][2] = n})

\* Every opening is checked, and there is scratch for the nonces.
Finishes(p, reveals, scratch) ==
  Opens(contribution[p], locked[p].roster, reveals) /\ scratch >= Len(reveals)

\* finish consumes the locked session, whatever the outcome.
EndRound(p) ==
  /\ contribution' = [contribution EXCEPT ![p] = None]
  /\ locked' = [locked EXCEPT ![p] = None]
  /\ UNCHANGED <<drawn, rounds, posted, openings>>

Finish(p, reveals, scratch, metadata) ==
  /\ locked[p] /= None
  /\ Finishes(p, reveals, scratch)
  /\ LET nonces == [i \in DOMAIN reveals |-> reveals[i].nonce]
     IN sessions' = sessions \cup
          {[who |-> p, own |-> contribution[p].nonce, at |-> locked[p].at,
            counts |-> [n \in 1..MaxDraws |-> Occurrences(locked[p].roster, n)],
            metadata |-> metadata, context |-> Context(nonces, metadata)]}
  /\ EndRound(p)

FinishRefused(p, reveals, scratch) ==
  /\ locked[p] /= None
  /\ ~Finishes(p, reveals, scratch)
  /\ EndRound(p)
  /\ UNCHANGED sessions

(* The stranger: commits to a nonce it draws or has seen opened, and later *)
(* opens whatever it likes, committed or not.                              *)
StrangerDraws ==
  /\ drawn < MaxDraws
  /\ \/ posted' = posted \cup {Commitment([nonce |-> drawn + 1, blinding |-> Stranger])}
        /\ UNCHANGED openings
     \/ openings' = openings \cup {[nonce |-> drawn + 1, blinding |-> Stranger]}
        /\ UNCHANGED posted
  /\ drawn' = drawn + 1
  /\ UNCHANGED <<contribution, locked, rounds, sessions>>

StrangerCopies ==
  /\ \E seen \in openings :
       posted' = posted \cup {Commitment([nonce |-> seen.nonce, blinding |-> Stranger])}
  /\ UNCHANGED <<drawn, contribution, locked, rounds, openings, sessions>>

StrangerOpens ==
  /\ \E own \in {r \in Reveals : r.blinding = Stranger /\ Commitment(r) \in posted} :
       openings' = openings \cup {own}
  /\ UNCHANGED <<drawn, contribution, locked, rounds, posted, sessions>>

(* Refusals of one kind all leave the same state: the empty list stands    *)
(* for whatever lock or finish refuses.                                    *)
Next ==
  \/ \E p \in Participants :
       \/ New(p)
       \/ \E roster \in SeqsUpTo(posted, MaxRoster) : Lock(p, roster)
       \/ LockRefused(p, << >>)
       \/ Reveal(p)
       \/ \E reveals \in SeqsUpTo(openings, MaxRoster), scratch \in {MaxRoster - 1, MaxRoster},
             metadata \in Channels : Finish(p, reveals, scratch, metadata)
       \/ FinishRefused(p, << >>, MaxRoster)
  \/ StrangerDraws \/ StrangerCopies \/ StrangerOpens

Spec == Init /\ [][Next]_vars

-------------------------------------------------------------------------------
(* Properties.                                                             *)

Nonces(session) == Range(session.context[3])

(* The ordering is the security property: whatever a participant's session *)
(* was derived from had been drawn, and committed to, before it locked -   *)
(* and so before its own nonce became known.  Nobody answers a reveal.     *)
ContributionsFixedFirst ==
  \A s \in sessions : \A n \in Nonces(s) : n <= s.at

(* No session is a participant's own echo: besides its nonce of this round *)
(* another one went in, even when the hosts reflect its messages.          *)
AnotherContributes ==
  \A s \in sessions : s.own \in Nonces(s) /\ Nonces(s) /= {s.own}

(* Two devices show the same string exactly when they derived from the     *)
(* same contributions, however often each occurs and in whatever order the *)
(* hosts listed them, over the same channel.                               *)
ContextsAgreeExactly ==
  \A s, t \in sessions :
    Sas(s.context) = Sas(t.context) <=>
      /\ s.metadata = t.metadata
      /\ s.counts = t.counts

(* A pseudonym never returns: a participant's rounds all derive different  *)
(* ones, though the hosts replay rosters and reveals of earlier rounds.    *)
NoPseudonymTwice ==
  \A s, t \in sessions :
    Pseudonym(s.who, s.context, Agora) = Pseudonym(t.who, t.context, Agora) => s.own = t.own
===============================================================================
