----------------------------- MODULE VpnConfig -----------------------------
(***************************************************************************)
(* The import of a pasted wg-quick file: ParseConfig reads it line by      *)
(* line, validate checks the result, vpnImport takes the summary users     *)
(* see, pins hostname endpoints to addresses and applies the rest as UCI.  *)
(*                                                                         *)
(* A line is a section header, a key with its value, or neither; comments  *)
(* are trimmed away and case is ignored.  Of a value only matters whether  *)
(* it is well formed for its key.                                          *)
(***************************************************************************)
EXTENDS Integers, Sequences, FiniteSets, SequencesExt

CONSTANT MaxLines   \* bound on the lines of a file

InterfaceKeys == {"privatekey", "address", "dns", "mtu"}
PeerKeys      == {"publickey", "presharedkey", "allowedips", "endpoint", "persistentkeepalive"}
HookKeys      == {"postup"}   \* and the other wg-quick script options
Lists         == {"address", "dns", "allowedips"}
Headers       == {"[interface]", "[peer]", "[other]"}

\* "junk" has no "=", "blank" is empty or a comment.  An empty value is "", a
\* list of nothing but commas "commas", an endpoint is a "host" or an "ip".
Values(k) ==
    CASE k \in Headers \cup {"junk", "blank"} -> {""}
      [] k \in {"address", "allowedips"}      -> {"good", "bad", "commas", ""}
      [] k = "endpoint"                       -> {"host", "ip", "bad"}
      [] k \in HookKeys \cup {"dns"}          -> {"good"}
      [] OTHER                                -> {"good", "bad"}
Line == UNION {[key : {k}, val : Values(k)] :
               k \in InterfaceKeys \cup PeerKeys \cup HookKeys \cup Headers \cup {"junk", "blank"}}

ASSUME LinesAssumption == MaxLines \in Nat

NoPeer   == [publickey |-> "", presharedkey |-> "", allowedips |-> << >>, endpoint |-> "",
             persistentkeepalive |-> ""]
NoConfig == [privatekey |-> "", address |-> << >>, dns |-> << >>, mtu |-> "", peers |-> << >>]
NoSum    == [address |-> << >>, dns |-> << >>, endpoints |-> << >>, allowedips |-> << >>]

VARIABLES
    text,     \* the lines read so far
    section,  \* the section the next line belongs to
    cfg,      \* the Config under construction
    st,       \* "read", "pin", "import", and how it ended
    next,     \* pinEndpoints: the next peer
    sum,      \* the request's summary
    uci,      \* the configuration applied
    stored    \* the vpn_summary key

request == <<text, section, cfg>>
vars    == <<text, section, cfg, st, next, sum, uci, stored>>

Init ==
    /\ text = << >> /\ section = ""
    /\ cfg = NoConfig
    /\ st = "read" /\ next = 1
    /\ sum = NoSum /\ uci = NoConfig /\ stored = NoSum

-----------------------------------------------------------------------------
(* ParseConfig *)

\* splitList: the entries between the commas.
splitList(v) == IF v = "commas" THEN << >> ELSE <<v>>

Put(rec, l) == [rec EXCEPT ![l.key] = IF l.key \in Lists THEN @ \o splitList(l.val) ELSE l.val]

Error  == st' = "invalid" /\ UNCHANGED <<section, cfg>>
Accept == UNCHANGED st

Skip(l) == l.key = "blank" /\ Accept /\ UNCHANGED <<section, cfg>>

\* Variant: an address alone does not count as an interface.
InterfaceByKey(l) ==
    /\ l.key = "[interface]"
    /\ IF cfg.privatekey # "" THEN Error
       ELSE Accept /\ section' = "interface" /\ UNCHANGED cfg

Interface(l) ==
    /\ l.key = "[interface]"
    /\ IF cfg.privatekey # "" \/ cfg.address # << >> THEN Error
       ELSE Accept /\ section' = "interface" /\ UNCHANGED cfg

PeerHeader(l) ==
    /\ l.key = "[peer]"
    /\ Accept
    /\ section' = "peer"
    /\ cfg' = [cfg EXCEPT !.peers = Append(@, NoPeer)]

InterfaceKey(l) ==
    /\ section = "interface" /\ l.key \in InterfaceKeys /\ l.val # ""
    /\ Accept
    /\ cfg' = Put(cfg, l)
    /\ UNCHANGED section

PeerKey(l) ==
    /\ section = "peer" /\ l.key \in PeerKeys /\ l.val # ""
    /\ ~(l.key = "endpoint" /\ l.val = "bad")
    /\ Accept
    /\ cfg' = [cfg EXCEPT !.peers[Len(cfg.peers)] = Put(@, l)]
    /\ UNCHANGED section

\* Everything else is an error: an unknown section, no "=", an empty value, a
\* key that is unknown, a script option or of another section, a bad endpoint.
Refused(l) ==
    /\ l.key \notin {"[interface]", "[peer]", "blank"}
    /\ \/ l.key \in {"[other]", "junk"} \cup HookKeys
       \/ l.val = ""
       \/ section # (IF l.key \in InterfaceKeys THEN "interface" ELSE "peer")
       \/ l.key = "endpoint" /\ l.val = "bad"
    /\ Error

ReadLine(l) ==
    /\ st = "read" /\ Len(text) < MaxLines
    /\ text' = Append(text, l)
    /\ \/ Skip(l) \/ Interface(l) \/ PeerHeader(l) \/ InterfaceKey(l) \/ PeerKey(l) \/ Refused(l)
    /\ UNCHANGED <<next, sum, uci, stored>>

AllGood(s) == \A i \in 1..Len(s) : s[i] = "good"

validPeer(p) ==
    /\ p.publickey = "good"
    /\ p.presharedkey # "bad"
    /\ p.allowedips # << >> /\ AllGood(p.allowedips)
    /\ p.persistentkeepalive # "bad"

validate(c) ==
    /\ c.privatekey = "good"
    /\ c.address # << >> /\ AllGood(c.address)
    /\ c.mtu # "bad"
    /\ c.peers # << >> /\ \A i \in 1..Len(c.peers) : validPeer(c.peers[i])

-----------------------------------------------------------------------------
(* vpnImport *)

\* The endpoints that are set.
Named(es) == SelectSeq(es, LAMBDA e : e # "")

\* What the API may expose: addresses, resolvers, endpoints and routes.
Summary(c) ==
    [address    |-> c.address,
     dns        |-> c.dns,
     endpoints  |-> Named([i \in 1..Len(c.peers) |-> c.peers[i].endpoint]),
     allowedips |-> FlattenSeq([i \in 1..Len(c.peers) |-> c.peers[i].allowedips])]

\* The text ends; a valid configuration is summed up as it was pasted.
EndOfText ==
    /\ st = "read"
    /\ IF validate(cfg) THEN st' = "pin" /\ sum' = Summary(cfg)
       ELSE st' = "rejected" /\ UNCHANGED sum
    /\ UNCHANGED <<request, next, uci, stored>>

\* pinEndpoints: a hostname is looked up and replaced by its first IPv4
\* address; without one, or when the lookup fails, it is kept.
PinEndpoint ==
    /\ st = "pin" /\ next <= Len(cfg.peers)
    /\ next' = next + 1
    /\ \/ /\ cfg.peers[next].endpoint = "host"
          /\ cfg' = [cfg EXCEPT !.peers[next].endpoint = "ip"]
       \/ UNCHANGED cfg
    /\ UNCHANGED <<text, section, st, sum, uci, stored>>

\* UCI is written, or some command fails.
ImportConfig ==
    /\ st = "pin" /\ next > Len(cfg.peers)
    /\ \/ st' = "import" /\ uci' = cfg
       \/ st' = "failed" /\ UNCHANGED uci
    /\ UNCHANGED <<request, next, sum, stored>>

\* Variant: the summary is taken once the endpoints are pinned.
StorePinned ==
    /\ st = "import"
    /\ \/ st' = "done" /\ stored' = Summary(cfg)
       \/ st' = "failed" /\ UNCHANGED stored
    /\ UNCHANGED <<request, next, sum, uci>>

StoreSummary ==
    /\ st = "import"
    /\ \/ st' = "done" /\ stored' = sum
       \/ st' = "failed" /\ UNCHANGED stored
    /\ UNCHANGED <<request, next, sum, uci>>

Ended == st \in {"invalid", "rejected", "failed", "done"} /\ UNCHANGED vars

Next == (\E l \in Line : ReadLine(l)) \/ EndOfText \/ PinEndpoint \/ ImportConfig \/ StoreSummary
        \/ Ended

Spec == Init /\ [][Next]_vars

-----------------------------------------------------------------------------
(* What a file means, read as a whole *)

HeadersOf(t) == {i \in 1..Len(t) : t[i].key \in Headers}

\* The header line i stands under; 0 when it stands before all of them.
Under(t, i) == CHOOSE h \in HeadersOf(t) \cup {0} :
                  h <= i /\ \A g \in HeadersOf(t) : g <= i => g <= h
SectionOf(t, i) == IF Under(t, i) = 0 THEN "" ELSE t[Under(t, i)].key

\* The lines with key k among the lines I, and what the last of them says.
With(t, I, k) == {i \in I : t[i].key = k}
Last1(t, I, k) == IF With(t, I, k) = {} THEN ""
                  ELSE t[CHOOSE i \in With(t, I, k) : \A j \in With(t, I, k) : j <= i].val
Says(t, I, k, v) == \E i \in With(t, I, k) : t[i].val = v

InInterface(t) == {i \in 1..Len(t) : SectionOf(t, i) = "[interface]"}
Peers(t)       == {i \in 1..Len(t) : t[i].key = "[peer]"}
InPeer(t, h)   == {i \in 1..Len(t) : Under(t, i) = h}

\* Line i cannot stand where it does: a file has "one [Interface], one or more
\* [Peer]s" (config.go:26), and keys of each under its header.
Misplaced(t, i) ==
    LET l == t[i] IN
    \/ l.key \in {"[other]", "junk"} \cup HookKeys
    \/ l.key \in InterfaceKeys /\ (SectionOf(t, i) # "[interface]" \/ l.val = "")
    \/ l.key \in PeerKeys /\ (SectionOf(t, i) # "[peer]" \/ l.val = "")
    \/ l.key = "endpoint" /\ l.val = "bad"
    \/ l.key = "[interface]" /\ \E j \in 1..i - 1 : t[j].key = "[interface]"

\* One more [Interface], which the parser lets pass: those before it gave
\* neither a private key nor an address.
Tolerated(t, i) ==
    /\ t[i].key = "[interface]"
    /\ \A j \in InInterface(t) :
          (j < i /\ t[j].key \in {"privatekey", "address"}) => t[j].val = "commas"

Meaningful(t) ==
    LET I == InInterface(t) IN
    /\ Last1(t, I, "privatekey") = "good"
    /\ Says(t, I, "address", "good") /\ ~Says(t, I, "address", "bad")
    /\ Last1(t, I, "mtu") # "bad"
    /\ Peers(t) # {}
    /\ \A h \in Peers(t) :
         LET P == InPeer(t, h) IN
         /\ Last1(t, P, "publickey") = "good"
         /\ Says(t, P, "allowedips", "good") /\ ~Says(t, P, "allowedips", "bad")
         /\ Last1(t, P, "presharedkey") # "bad"
         /\ Last1(t, P, "persistentkeepalive") # "bad"

\* The n-th peer of the file, by its header, and the endpoints peer by peer.
PeerNo(t, h) == Cardinality({g \in Peers(t) : g <= h})
PeerAt(t, n) == CHOOSE h \in Peers(t) : PeerNo(t, h) = n
Pasted(t)    == [n \in 1..Cardinality(Peers(t)) |-> Last1(t, InPeer(t, PeerAt(t, n)), "endpoint")]

-----------------------------------------------------------------------------
(* Properties *)

\* The parser goes through the lines once and remembers three things; it
\* refuses a line exactly if the file up to it has it out of place, but for an
\* [Interface] it tolerates, and takes the file exactly if every section is
\* complete and well formed.
ParsesAsMeant ==
    /\ st = "invalid" <=> /\ text # << >>
                          /\ Misplaced(text, Len(text)) /\ ~Tolerated(text, Len(text))
    /\ st = "rejected" => ~Meaningful(text)
    /\ st \in {"pin", "import", "failed", "done"} => Meaningful(text)

\* "one [Interface]" (config.go:26), of every file that is imported.
OneInterface ==
    st \in {"pin", "import", "done"} =>
        Cardinality({i \in 1..Len(text) : text[i].key = "[interface]"}) = 1

\* What is applied has the peers of the file, each with the endpoint pasted
\* for it or, for a hostname, its address; the summary kept for the user
\* names the endpoints as they were pasted.
PinsOnlyHosts ==
    LET pasted == Pasted(text) IN
    /\ st \in {"import", "done"} =>
         /\ Len(uci.peers) = Len(pasted)
         /\ \A i \in 1..Len(pasted) :
              uci.peers[i].endpoint # pasted[i] => pasted[i] = "host" /\ uci.peers[i].endpoint = "ip"
    /\ st = "done" => stored.endpoints = Named(pasted)
=============================================================================
