---------------------------- MODULE MCForwarder ----------------------------
(* Forwarder on a small instance: more queries than slots, two providers. *)
EXTENDS Forwarder, TLC

CONSTANTS q1, q2, k1, quad9, mullvad

MCQueries   == {q1, q2}
MCProviders == {quad9, mullvad}

\* Shutdown is looked at with default settings.
Apart == ~done \/ (rule = "off" /\ setting = {} /\ active = Default)

\* Overlapping choices, and starts that miss the stored one, without queries.
ChoicesApart ==
    (mixed \/ Cardinality(setting) > 1)
        => (\A q \in Queries : msg[q] = AtRest) /\ conns \cup dialing = {} /\ rule = "off"
=============================================================================
