----------------------------- MODULE Forwarder -----------------------------
(***************************************************************************)
(* The DoH forwarder: stub queries from dnsmasq come in over UDP and TCP   *)
(* on loopback and go out over pooled HTTPS connections to the chosen      *)
(* provider.  The UDP loop bounds its handlers with a semaphore and blocks *)
(* when it is full; each TCP connection serves its queries one by one.     *)
(*                                                                         *)
(* Upstream connections are shared by concurrent exchanges (HTTP/2).  The  *)
(* ones in the model leave by the raw WAN, and are named for the provider; *)
(* those through the tunnel only appear as a query that is answered        *)
(* without one.  SetFailClosed installs the rule that rejects new raw      *)
(* connections, and then closes the pool's idle ones.                      *)
(***************************************************************************)
EXTENDS Integers, FiniteSets

CONSTANTS
    Queries,      \* stub queries
    Streams,      \* TCP connections to the forwarder
    Slots,        \* capacity of the semaphore
    Providers,    \* curated resolvers
    Default,      \* DefaultProvider
    MaxSets       \* bound on dnsProviderSet requests under way at once

\* Wire formats: a DNS message, one shorter than a header, and (over TCP) a
\* length of zero or beyond maxMsg.
Kinds == {"query", "short", "badlen"}

ASSUME SlotsAssumption    == Slots \in Nat \ {0} /\ MaxSets \in Nat
ASSUME ProviderAssumption == Default \in Providers
ASSUME StreamAssumption   == "udp" \notin Streams

VARIABLES
    msg,        \* per query: where it is, how it came, its provider
    loop,       \* serveUDP: "read", "blocked" on the semaphore, "stopped"
    open,       \* open TCP connections to the forwarder
    done,       \* Serve's context is done
    conns,      \* providers with a raw connection, pooled or in use
    dialing,    \* providers to which one is being dialed
    active,     \* the forwarder's provider
    stored,     \* the dns_provider key; a missing one stands for Default
    setting,    \* dnsProviderSet requests between their two steps
    rule,       \* fail-closed rule: "off", "new" (pool not cut yet), "on"
    mixed,      \* history: the last dnsProviderSet requests overlapped, or the
                \* last start could not read the choice
    overlapped  \* history: a raw exchange or dial was under way at the last cut

serving  == <<msg, loop, open, done>>
upstream == <<conns, dialing>>
choice   == <<active, stored, setting, mixed>>
network  == <<rule, overlapped>>
vars     == <<msg, loop, open, done, conns, dialing, active, stored, setting, rule, mixed,
              overlapped>>

Running == {"start", "want", "fly"}
States  == Running \cup {"rest", "silent", "sent", "held"}
Message == [st : States, via : Streams \cup {"udp"}, kind : Kinds, target : Providers]

\* At rest: not sent yet, answered, or lost with its connection or the daemon.
AtRest  == [st |-> "rest", via |-> "udp", kind |-> "query", target |-> Default]
Idle(q) == msg[q].st \in {"rest", "silent"}

Busy(p)     == \E q \in Queries : msg[q].st = "fly" /\ msg[q].target = p
Handlers    == {q \in Queries : msg[q].st \in Running /\ msg[q].via = "udp"}
InFlight(k) == {q \in Queries : msg[q].st \in Running /\ msg[q].via = k}

Become(q, s) == msg' = [msg EXCEPT ![q].st = s]
Answered(q)  == msg' = [msg EXCEPT ![q] = AtRest]

Init ==
    /\ msg = [q \in Queries |-> AtRest]
    /\ loop = "read"
    /\ open = {}
    /\ done = FALSE
    /\ conns = {} /\ dialing = {}
    /\ stored \in Providers /\ active = stored
    /\ setting = {} /\ mixed = FALSE
    /\ rule = "off" /\ overlapped = FALSE

-----------------------------------------------------------------------------
(* Listeners *)

\* dnsmasq sends a query, over TCP on a connection it has or opens.  The end of
\* the context closes the listeners only: serveConn goes on with a connection
\* for as long as messages come in on it.
Send(q, v, k) ==
    /\ Idle(q)
    /\ done => v \in open
    /\ k = "badlen" => v # "udp"
    /\ msg' = [msg EXCEPT ![q] = [AtRest EXCEPT !.st = "sent", !.via = v, !.kind = k]]
    /\ open' = open \cup ({v} \cap Streams)
    /\ UNCHANGED <<loop, done, upstream, choice, network>>

\* serveUDP reads a datagram ...
ReadUDP(q) ==
    /\ loop = "read"
    /\ msg[q].st = "sent" /\ msg[q].via = "udp"
    /\ Become(q, "held")
    /\ loop' = "blocked"
    /\ UNCHANGED <<open, done, upstream, choice, network>>

\* ... and starts its handler once the semaphore has a slot.
Dispatch(q) ==
    /\ msg[q].st = "held"
    /\ Cardinality(Handlers) < Slots
    /\ Become(q, "start")
    /\ loop' = "read"
    /\ UNCHANGED <<open, done, upstream, choice, network>>

\* serveConn reads the next message of its connection; a bad length ends it.
ReadTCP(q) ==
    /\ msg[q].st = "sent" /\ msg[q].via \in open
    /\ InFlight(msg[q].via) = {}
    /\ Become(q, IF msg[q].kind = "badlen" THEN "silent" ELSE "start")
    /\ open' = IF msg[q].kind = "badlen" THEN open \ {msg[q].via} ELSE open
    /\ UNCHANGED <<loop, done, upstream, choice, network>>

\* What waits at a listener or connection that is closed is never read.
Unread(v) == [q \in Queries |-> IF msg[q].st = "sent" /\ msg[q].via = v THEN AtRest ELSE msg[q]]

\* Variant: no deadline on a connection, which then waits for its client.
CloseBad(k) ==
    /\ k \notin open /\ Unread(k) # msg
    /\ msg' = Unread(k)
    /\ UNCHANGED <<loop, open, done, upstream, choice, network>>

\* The client hangs up, a write fails or the 30 s deadline passes; a
\* connection that a bad message ended takes the ones behind it along.
CloseStream(k) ==
    /\ \/ k \in open /\ InFlight(k) = {}
       \/ k \notin open /\ Unread(k) # msg
    /\ open' = open \ {k}
    /\ msg' = Unread(k)
    /\ UNCHANGED <<loop, done, upstream, choice, network>>

-----------------------------------------------------------------------------
(* handle and exchange *)

\* No answer is written; a TCP connection is closed for it.
Silent(q) == /\ Become(q, "silent")
             /\ open' = open \ {msg[q].via}

\* Too short for a header: no answer.  Otherwise the exchange begins with the
\* provider of this moment, or fails at once when the context is done.
Handle(q) ==
    /\ msg[q].st = "start"
    /\ \/ /\ msg[q].kind = "short"
          /\ Silent(q)
       \/ /\ msg[q].kind # "short"
          /\ IF done THEN Answered(q)
             ELSE msg' = [msg EXCEPT ![q].st = "want", ![q].target = active]
          /\ UNCHANGED open
    /\ UNCHANGED <<loop, done, upstream, choice, network>>

\* AllResolverIPs: the rule denies the raw WAN to every curated resolver.
Rejected(p) == rule # "off" /\ p \in Providers

\* dialPinned over the raw WAN; a rejected dial leaves the query to Fail.
Dial(q) ==
    /\ msg[q].st = "want"
    /\ ~Rejected(msg[q].target)
    /\ dialing' = dialing \cup {msg[q].target}
    /\ UNCHANGED <<serving, conns, choice, network>>

\* A dial ends well or badly, whether or not its query still waits.
DialDone(p) ==
    /\ p \in dialing
    /\ dialing' = dialing \ {p}
    /\ conns' \in {conns, conns \cup {p}}
    /\ UNCHANGED <<serving, choice, network>>

\* The transport hands out a raw connection to the provider, a busy one too.
GetConn(q) ==
    /\ msg[q].st = "want"
    /\ msg[q].target \in conns
    /\ Become(q, "fly")
    /\ UNCHANGED <<loop, open, done, upstream, choice, network>>

\* A response of status 200 with at least a header, over the raw connection
\* or through the tunnel.
Complete(q) ==
    /\ msg[q].st \in {"want", "fly"}
    /\ Answered(q)
    /\ UNCHANGED <<loop, open, done, upstream, choice, network>>

\* Variant: a failed exchange gets no answer.
FailSilently(q) ==
    /\ msg[q].st \in {"want", "fly"}
    /\ Silent(q)
    /\ UNCHANGED <<loop, done, upstream, choice, network>>

\* Variant: no exchangeTTL, an exchange waits for as long as Serve runs.
FailAtShutdown(q) ==
    /\ done
    /\ msg[q].st \in {"want", "fly"}
    /\ Answered(q)
    /\ UNCHANGED <<loop, open, done, upstream, choice, network>>

\* Another status, a short body, a rejected dial, a broken connection, the
\* end of exchangeTTL or of the context: the answer is SERVFAIL.
Fail(q) ==
    /\ msg[q].st \in {"want", "fly"}
    /\ Answered(q)
    /\ UNCHANGED <<loop, open, done, upstream, choice, network>>

\* An idle connection is closed after IdleConnTimeout, or by its peer.
IdleClosed(p) ==
    /\ p \in conns /\ ~Busy(p)
    /\ conns' = conns \ {p}
    /\ UNCHANGED <<serving, dialing, choice, network>>

-----------------------------------------------------------------------------
(* dnsProviderSet, SetFailClosed *)

\* Variant: the requested key is stored unchecked.
PutUnchecked(p) ==
    /\ p \notin setting /\ Cardinality(setting) < MaxSets
    /\ stored' = "unknown"
    /\ setting' = setting \cup {p}
    /\ UNCHANGED <<serving, upstream, active, mixed, network>>

\* The choice, checked to be a curated one, is stored first ...
PutProvider(p) ==
    /\ p \notin setting /\ Cardinality(setting) < MaxSets
    /\ stored' = p
    /\ setting' = setting \cup {p}
    /\ mixed' = (setting # {})
    /\ UNCHANGED <<serving, upstream, active, network>>

\* ... then the forwarder switches, from the next query on.
SetProvider(p) ==
    /\ p \in setting
    /\ active' = p
    /\ setting' = setting \ {p}
    /\ UNCHANGED <<serving, upstream, stored, mixed, network>>

\* The firewall runs with the rule: new raw connections are rejected.
FailClosedRule ==
    /\ rule = "off"
    /\ rule' = "new"
    /\ UNCHANGED <<serving, upstream, choice, overlapped>>

\* A raw exchange or dial is under way.
RawInUse == dialing # {} \/ \E p \in conns : Busy(p)

\* Variant: the pool is not cut.
KeepUpstream ==
    /\ rule = "new"
    /\ rule' = "on"
    /\ overlapped' = RawInUse
    /\ UNCHANGED <<serving, upstream, choice>>

\* CloseUpstream: CloseIdleConnections spares what carries an exchange.
CloseUpstream ==
    /\ rule = "new"
    /\ rule' = "on"
    /\ conns' = {p \in conns : Busy(p)}
    /\ overlapped' = RawInUse
    /\ UNCHANGED <<serving, dialing, choice>>

FailOpen ==
    /\ rule = "on"
    /\ rule' = "off"
    /\ overlapped' = FALSE
    /\ UNCHANGED <<serving, upstream, choice>>

-----------------------------------------------------------------------------
(* End of Serve, and of the daemon *)

\* The context is done: both listeners close, unread datagrams are lost.
Stop ==
    /\ ~done
    /\ done' = TRUE
    /\ msg' = Unread("udp")
    /\ UNCHANGED <<loop, open, upstream, choice, network>>

\* ReadFrom reports the closed socket.
LoopEnds ==
    /\ done
    /\ loop = "read"
    /\ loop' = "stopped"
    /\ UNCHANGED <<msg, open, done, upstream, choice, network>>

\* What a start finds: no queries, no connections.
Fresh ==
    /\ msg' = [q \in Queries |-> AtRest]
    /\ loop' = "read"
    /\ open' = {}
    /\ done' = FALSE
    /\ conns' = {} /\ dialing' = {}
    /\ setting' = {}
    /\ overlapped' = FALSE
    /\ rule' = IF rule = "new" THEN "on" ELSE rule
    /\ UNCHANGED stored

\* Variant: a start does not look at the stored choice.
RestartDefault == Fresh /\ active' = Default /\ mixed' = FALSE

\* The daemon dies and starts again: New restores the stored provider, the
\* rule stays in UCI.  A read that fails leaves the built-in default active.
Restart ==
    /\ Fresh
    /\ \/ active' = stored /\ mixed' = FALSE
       \/ active' = Default /\ mixed' = (stored # Default)

-----------------------------------------------------------------------------
Listener(q) == ReadUDP(q) \/ Dispatch(q) \/ ReadTCP(q)
Exchange(q) == Handle(q) \/ Dial(q) \/ GetConn(q) \/ Complete(q) \/ Fail(q)
Settings == \/ \E p \in Providers : PutProvider(p) \/ SetProvider(p)
            \/ FailClosedRule \/ CloseUpstream \/ FailOpen

Next ==
    \/ \E q \in Queries : \/ \E v \in Streams \cup {"udp"}, k \in Kinds : Send(q, v, k)
                          \/ Listener(q) \/ Exchange(q)
    \/ \E k \in Streams : CloseStream(k)
    \/ \E p \in Providers : DialDone(p) \/ IdleClosed(p)
    \/ Settings \/ Stop \/ LoopEnds \/ Restart

\* The loops run, exchangeTTL ends an exchange, the deadline a connection.  The
\* fairness for each query stands for the socket's buffer being a queue: what
\* is sent later does not overtake for ever.
Fairness ==
    /\ \A q \in Queries : SF_vars(Listener(q)) /\ WF_vars(Handle(q)) /\ WF_vars(Fail(q))
    /\ \A k \in Streams : WF_vars(CloseStream(k))
    /\ WF_vars(LoopEnds)

Spec == Init /\ [][Next]_vars /\ Fairness

-----------------------------------------------------------------------------
(* Properties *)

TypeOK ==
    /\ msg \in [Queries -> Message]
    /\ loop \in {"read", "blocked", "stopped"}
    /\ open \subseteq Streams
    /\ conns \subseteq Providers /\ dialing \subseteq Providers
    /\ active \in Providers /\ stored \in Providers /\ setting \subseteq Providers
    /\ rule \in {"off", "new", "on"}
    /\ {done, mixed, overlapped} \subseteq BOOLEAN

\* A DNS message is never met with silence: it is answered, by SERVFAIL when
\* the upstream is unreachable, or lost with its connection or the daemon.
NoSilence == \A q \in Queries : msg[q].st = "silent" => msg[q].kind # "query"

\* With the fail-closed rule in force and the pool cut, no connection over the
\* raw WAN is left, whatever provider is chosen, unless an exchange or a dial
\* was under way at the cut.
RawNeedsOverlap ==
    (rule = "on" /\ ~overlapped) => conns \cup dialing = {}

\* The forwarder runs with the stored choice, also after restarts, outside a
\* request and unless the last requests overlapped or the last start could not
\* read the choice; the next request that runs alone repairs either.
ProviderKept ==
    (setting = {} /\ ~mixed) => active = stored

\* Slots come free: every query that arrives is disposed of, with more
\* queries than slots, hanging upstreams and during shutdown.
QueriesEnd == \A q \in Queries : msg[q].st = "sent" ~> Idle(q)

\* The UDP loop has ended, and every query it had is disposed of.
LoopOver == loop = "stopped" /\ \A q \in Queries : msg[q].via = "udp" => Idle(q)

\* Nothing waits to be read on a TCP connection.
ClientQuiet(k) == \A q \in Queries : ~(msg[q].st = "sent" /\ msg[q].via = k)

\* Once its context is done Serve returns, with the queries it had taken.  A
\* TCP connection it leaves behind ends when its client falls silent.
ServeEnds ==
    /\ done ~> (~done \/ LoopOver)
    /\ \A k \in Streams : <>[]ClientQuiet(k) => (k \in open ~> k \notin open)

-----------------------------------------------------------------------------
(* What a comment promises and TLC refutes *)

\* "Serve answers stub queries until ctx is done": a client that keeps sending
\* keeps its connection, and is answered (by SERVFAIL), after it.
ServesUntilDone == done ~> (~done \/ (loop = "stopped" /\ open = {}))
=============================================================================
