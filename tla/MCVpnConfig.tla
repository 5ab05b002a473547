---------------------------- MODULE MCVpnConfig ----------------------------
(* VpnConfig with files of up to nine lines, room for two complete peers,  *)
(* that depart from a plain one in at most one line.                       *)
EXTENDS VpnConfig

Plain == <<[key |-> "privatekey", val |-> "good"], [key |-> "address", val |-> "good"],
           [key |-> "publickey", val |-> "good"], [key |-> "allowedips", val |-> "good"],
           [key |-> "endpoint", val |-> "host"]>>
Rank(l) == CHOOSE n \in 1..Len(Plain) : Plain[n] = l
IsPlain(l) == \E n \in 1..Len(Plain) : Plain[n] = l

\* A plain file has the usual keys, each once and in order, and no empty section.
Odd(i) ==
    LET l == text[i]
        Header(j) == text[j].key \in {"[interface]", "[peer]"}
    IN  IF Header(i) THEN i > 1 /\ Header(i - 1)
        ELSE \/ ~IsPlain(l)
             \/ i > 1 /\ IsPlain(text[i - 1]) /\ Rank(text[i - 1]) >= Rank(l)

OneOdd == Cardinality({i \in 1..Len(text) : Odd(i)}) <= 1
=============================================================================
