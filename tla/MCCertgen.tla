----------------------------- MODULE MCCertgen -----------------------------
(* Certgen for TLC. *)
EXTENDS Certgen, TLC

\* Keys are interchangeable.
Symmetric == Permutations(Keys)
=============================================================================
