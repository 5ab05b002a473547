----------------------------- MODULE MCSessions -----------------------------
(* Sessions on a small instance. *)
EXTENDS Sessions, TLC

CONSTANTS c1, c2, t1, t2

OneClient  == {c1}
TwoClients == {c1, c2}
OneToken   == {t1}
TwoTokens  == {t1, t2}

\* Requests and tokens are interchangeable; used for safety only.
Symmetric == Permutations(TwoClients) \cup Permutations(TwoTokens)
=============================================================================
