---------------------------- MODULE MCCeremonies ----------------------------
(* Ceremonies on a small instance. *)
EXTENDS Ceremonies, TLC

CONSTANTS c1, c2, t1, t2, h1, h2, r1, r2, k1

TwoClients      == {c1, c2}
TwoTokens       == {t1, t2}
TwoChallenges   == {h1, h2}
TwoCodes        == {r1, r2}

\* Used for safety only.
Symmetric == Permutations(TwoClients) \cup Permutations(TwoTokens)
             \cup Permutations(TwoChallenges) \cup Permutations(TwoCodes)
=============================================================================
