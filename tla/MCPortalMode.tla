---------------------------- MODULE MCPortalMode ----------------------------
(* PortalMode on a small instance: model values and their symmetry. *)
EXTENDS PortalMode, TLC

CONSTANTS c1, c2, u1

MCUrls     == {u1}
OneClient  == {c1}
TwoClients == {c1, c2}

\* Where client traffic is not the question.
NoTraffic == flows = {}

\* A set-up router: a tunnel is imported, the encrypted-DNS default decided.
SetUp == {"vpn_summary", "dns_defaulted"} \subseteq keys

\* Where commands may fail one by one, a pause that loses its context adds
\* nothing: only the toggles, whose script it cuts in two, lose theirs.
ToggleCancelled == \A p \in cancelled : op[p] \in {"ksOn", "ksOff", "dnsOn", "dnsOff"}

\* Two requests that race, or one request and restarts.
RaceOrRestart == crashes = 0 \/ reqs <= 1
=============================================================================
