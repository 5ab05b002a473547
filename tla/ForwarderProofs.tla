-------------------------- MODULE ForwarderProofs --------------------------
(***************************************************************************)
(* The forwarder, for any number of queries, connections, slots and        *)
(* providers, and any number of provider changes that overlap.             *)
(***************************************************************************)
EXTENDS Forwarder, TLAPS

\* Unless the last requests overlapped or the last start missed the choice:
\* between requests the active provider is the stored one, within a request the
\* stored one is about to become active.
ChoiceInv ==
    ~mixed => /\ setting = {} => active = stored
              /\ setting # {} => setting = {stored}

ForwarderInv == TypeOK /\ NoSilence /\ RawNeedsOverlap /\ ChoiceInv

\* What a step of a query may do to the messages: q moves on, all others stay,
\* and q ends in silence only if it is no DNS message.
Moves(q) ==
    /\ msg' \in [Queries -> Message]
    /\ \A r \in Queries \ {q} : msg'[r] = msg[r]
    /\ msg'[q].st = "silent" => msg'[q].kind # "query"

-----------------------------------------------------------------------------
(* Messages *)

LEMMA RestType == AtRest \in Message
BY ProviderAssumption DEF AtRest, Message, States, Running, Kinds

LEMMA BecomeType ==
    ASSUME msg \in [Queries -> Message], NEW q \in Queries, NEW s \in States, Become(q, s),
           s = "silent" => msg[q].kind # "query"
    PROVE  Moves(q)
<1>1. msg' \in [Queries -> Message]
  BY DEF Become, Message
<1>2. msg'[q].kind = msg[q].kind /\ msg'[q].st = s
  BY DEF Become, Message
<1>. QED
  BY <1>1, <1>2 DEF Moves, Become

LEMMA AnsweredType ==
    ASSUME msg \in [Queries -> Message], NEW q \in Queries, Answered(q)
    PROVE  Moves(q)
BY RestType DEF Moves, Answered, AtRest

LEMMA UnreadType ==
    ASSUME TypeOK, NoSilence, NEW v, msg' = Unread(v)
    PROVE  /\ msg' \in [Queries -> Message]
           /\ NoSilence'
<1>1. \A q \in Queries : msg'[q] = AtRest \/ msg'[q] = msg[q]
  BY DEF Unread
<1>2. msg' \in [Queries -> Message]
  BY RestType DEF Unread, TypeOK
<1>. QED
  BY <1>1, <1>2 DEF NoSilence, AtRest

-----------------------------------------------------------------------------
(* Steps by what they leave alone *)

\* The listeners and handlers: only the messages, the loop and the open
\* connections change.
LEMMA ServingStep ==
    ASSUME ForwarderInv, NEW q \in Queries, Moves(q),
           loop' \in {"read", "blocked", "stopped"}, open' \subseteq Streams, done' \in BOOLEAN,
           UNCHANGED <<upstream, choice, network>>
    PROVE  ForwarderInv'
<1> USE DEF upstream, choice, network
<1>1. TypeOK'
  BY DEF ForwarderInv, TypeOK, Moves
<1>2. NoSilence'
  BY DEF ForwarderInv, NoSilence, Moves
<1>3. RawNeedsOverlap'
  BY DEF ForwarderInv, RawNeedsOverlap
<1>4. ChoiceInv'
  BY DEF ForwarderInv, ChoiceInv
<1>. QED
  BY <1>1, <1>2, <1>3, <1>4 DEF ForwarderInv

LEMMA SendStep ==
    ASSUME ForwarderInv, NEW q \in Queries, NEW v \in Streams \cup {"udp"}, NEW k \in Kinds,
           Send(q, v, k)
    PROVE  ForwarderInv'
<1> DEFINE m == [AtRest EXCEPT !.st = "sent", !.via = v, !.kind = k]
<1>1. m \in Message /\ m.st = "sent"
  BY RestType DEF Message, States, AtRest
<1>2. Moves(q)
  BY <1>1 DEF Send, Moves, ForwarderInv, TypeOK
<1>. QED
  BY <1>2, ServingStep DEF Send, ForwarderInv, TypeOK

LEMMA ListenerStep ==
    ASSUME ForwarderInv, NEW q \in Queries, Listener(q)
    PROVE  ForwarderInv'
<1> USE DEF ForwarderInv, TypeOK
<1>1. CASE ReadUDP(q)
  <2>1. Moves(q)
    BY <1>1, BecomeType DEF ReadUDP, States
  <2>. QED
    BY <1>1, <2>1, ServingStep DEF ReadUDP
<1>2. CASE Dispatch(q)
  <2>1. Moves(q)
    BY <1>2, BecomeType DEF Dispatch, States, Running
  <2>. QED
    BY <1>2, <2>1, ServingStep DEF Dispatch
<1>3. CASE ReadTCP(q)
  <2>1. Moves(q)
    BY <1>3, BecomeType DEF ReadTCP, States, Running
  <2>. QED
    BY <1>3, <2>1, ServingStep DEF ReadTCP
<1>. QED
  BY <1>1, <1>2, <1>3 DEF Listener

LEMMA HandleStep ==
    ASSUME ForwarderInv, NEW q \in Queries, Handle(q)
    PROVE  ForwarderInv'
<1> USE DEF ForwarderInv, TypeOK
<1>1. open' \subseteq Streams
  BY DEF Handle, Silent
<1>2. CASE msg[q].kind = "short"
  <2>1. Moves(q)
    BY <1>2, BecomeType DEF Handle, Silent, States
  <2>. QED
    BY <1>1, <2>1, ServingStep DEF Handle
<1>3. CASE msg[q].kind # "short" /\ done
  <2>1. Moves(q)
    BY <1>3, AnsweredType DEF Handle
  <2>. QED
    BY <1>1, <2>1, ServingStep DEF Handle
<1>4. CASE msg[q].kind # "short" /\ ~done
  <2>1. msg' = [msg EXCEPT ![q].st = "want", ![q].target = active]
    BY <1>4 DEF Handle
  <2>2. msg' \in [Queries -> Message] /\ msg'[q].st = "want"
    BY <2>1 DEF Message, States, Running
  <2>3. Moves(q)
    BY <2>1, <2>2 DEF Moves
  <2>. QED
    BY <1>1, <2>3, ServingStep DEF Handle
<1>. QED
  BY <1>2, <1>3, <1>4

\* dialPinned: with the rule in force there is no provider left to dial.
LEMMA DialStep ==
    ASSUME ForwarderInv, NEW q \in Queries, Dial(q)
    PROVE  ForwarderInv'
<1> USE DEF Dial, serving, choice, network
<1>1. msg[q].target \in Providers
  BY DEF ForwarderInv, TypeOK, Message
<1>2. rule = "off"
  BY <1>1 DEF Rejected
<1>3. TypeOK'
  BY <1>1 DEF ForwarderInv, TypeOK
<1>4. NoSilence' /\ ChoiceInv'
  BY DEF ForwarderInv, NoSilence, ChoiceInv
<1>5. RawNeedsOverlap'
  BY <1>2 DEF RawNeedsOverlap
<1>. QED
  BY <1>3, <1>4, <1>5 DEF ForwarderInv

LEMMA ExchangeStep ==
    ASSUME ForwarderInv, NEW q \in Queries, Exchange(q)
    PROVE  ForwarderInv'
<1> USE DEF ForwarderInv, TypeOK
<1>1. CASE GetConn(q)
  <2>1. Moves(q)
    BY <1>1, BecomeType DEF GetConn, States, Running
  <2>. QED
    BY <1>1, <2>1, ServingStep DEF GetConn
<1>2. CASE Complete(q) \/ Fail(q)
  <2>1. Moves(q)
    BY <1>2, AnsweredType DEF Complete, Fail
  <2>. QED
    BY <1>2, <2>1, ServingStep DEF Complete, Fail
<1>. QED
  BY <1>1, <1>2, HandleStep, DialStep DEF Exchange

LEMMA CloseStreamStep ==
    ASSUME ForwarderInv, NEW k \in Streams, CloseStream(k)
    PROVE  ForwarderInv'
<1> USE DEF CloseStream, upstream, choice, network
<1>1. msg' \in [Queries -> Message] /\ NoSilence'
  BY UnreadType DEF ForwarderInv
<1>2. TypeOK'
  BY <1>1 DEF ForwarderInv, TypeOK
<1>3. RawNeedsOverlap' /\ ChoiceInv'
  BY DEF ForwarderInv, RawNeedsOverlap, ChoiceInv
<1>. QED
  BY <1>1, <1>2, <1>3 DEF ForwarderInv

LEMMA PoolStep ==
    ASSUME ForwarderInv, NEW p \in Providers, DialDone(p) \/ IdleClosed(p)
    PROVE  ForwarderInv'
<1> USE DEF DialDone, IdleClosed, serving, choice, network
<1>1. TypeOK'
  BY DEF ForwarderInv, TypeOK
<1>2. NoSilence' /\ ChoiceInv'
  BY DEF ForwarderInv, NoSilence, ChoiceInv
<1>3. RawNeedsOverlap'
  BY DEF ForwarderInv, RawNeedsOverlap
<1>. QED
  BY <1>1, <1>2, <1>3 DEF ForwarderInv

-----------------------------------------------------------------------------
(* Settings, end and restart *)

LEMMA ProviderStep ==
    ASSUME ForwarderInv, NEW p \in Providers, PutProvider(p) \/ SetProvider(p)
    PROVE  ForwarderInv'
<1> USE DEF PutProvider, SetProvider, serving, upstream, network
<1>1. TypeOK'
  BY DEF ForwarderInv, TypeOK
<1>2. NoSilence' /\ RawNeedsOverlap'
  BY DEF ForwarderInv, NoSilence, RawNeedsOverlap
<1>3. ChoiceInv'
  BY DEF ForwarderInv, ChoiceInv
<1>. QED
  BY <1>1, <1>2, <1>3 DEF ForwarderInv

LEMMA RuleStep ==
    ASSUME ForwarderInv, FailClosedRule \/ CloseUpstream \/ FailOpen
    PROVE  ForwarderInv'
<1> USE DEF FailClosedRule, CloseUpstream, FailOpen, serving, upstream, choice
<1>1. overlapped' \in BOOLEAN
  BY DEF ForwarderInv, TypeOK, RawInUse
<1>2. TypeOK'
  BY <1>1 DEF ForwarderInv, TypeOK
<1>3. NoSilence' /\ ChoiceInv'
  BY DEF ForwarderInv, NoSilence, ChoiceInv
<1>4. RawNeedsOverlap'
  BY DEF ForwarderInv, RawNeedsOverlap, RawInUse
<1>. QED
  BY <1>2, <1>3, <1>4 DEF ForwarderInv

LEMMA EndStep ==
    ASSUME ForwarderInv, Stop \/ LoopEnds
    PROVE  ForwarderInv'
<1> USE DEF Stop, LoopEnds, upstream, choice, network
<1>1. msg' \in [Queries -> Message] /\ NoSilence'
  <2>1. CASE Stop
    BY <2>1, UnreadType DEF ForwarderInv
  <2>2. CASE LoopEnds
    BY <2>2 DEF ForwarderInv, TypeOK, NoSilence
  <2>. QED
    BY <2>1, <2>2
<1>2. TypeOK'
  BY <1>1 DEF ForwarderInv, TypeOK
<1>3. RawNeedsOverlap' /\ ChoiceInv'
  BY DEF ForwarderInv, RawNeedsOverlap, ChoiceInv
<1>. QED
  BY <1>1, <1>2, <1>3 DEF ForwarderInv

LEMMA RestartStep ==
    ASSUME ForwarderInv, Restart
    PROVE  ForwarderInv'
<1> USE DEF Restart, Fresh
<1>1. TypeOK'
  <2>1. active' \in Providers /\ mixed' \in BOOLEAN
    <3>1. CASE active' = stored /\ mixed' = FALSE
      BY <3>1 DEF ForwarderInv, TypeOK
    <3>2. CASE active' = Default /\ mixed' = (stored # Default)
      <4>1. mixed' = TRUE \/ mixed' = FALSE
        BY <3>2
      <4>. QED
        BY <3>2, <4>1, ProviderAssumption
    <3>. QED
      BY <3>1, <3>2
  <2>. QED
    BY <2>1, RestType DEF ForwarderInv, TypeOK
<1>2. NoSilence'
  BY DEF NoSilence, AtRest
<1>3. RawNeedsOverlap' /\ ChoiceInv'
  BY DEF RawNeedsOverlap, ChoiceInv
<1>. QED
  BY <1>1, <1>2, <1>3 DEF ForwarderInv

LEMMA InitForwarder == Init => ForwarderInv
<1> SUFFICES ASSUME Init PROVE ForwarderInv
  OBVIOUS
<1> USE DEF Init
<1>1. TypeOK
  BY RestType DEF TypeOK
<1>2. NoSilence
  BY DEF NoSilence, AtRest
<1>. QED
  BY <1>1, <1>2 DEF ForwarderInv, RawNeedsOverlap, ChoiceInv

LEMMA NextForwarder == ForwarderInv /\ [Next]_vars => ForwarderInv'
<1> SUFFICES ASSUME ForwarderInv, [Next]_vars PROVE ForwarderInv'
  OBVIOUS
<1>1. CASE Settings
  BY <1>1, ProviderStep, RuleStep DEF Settings
<1>2. CASE UNCHANGED vars
  BY <1>2 DEF ForwarderInv, TypeOK, NoSilence, RawNeedsOverlap, ChoiceInv, vars
<1>. QED
  BY <1>1, <1>2, SendStep, ListenerStep, ExchangeStep, CloseStreamStep, PoolStep,
     EndStep, RestartStep
  DEF Next

LEMMA ForwarderInvariant == Spec => []ForwarderInv
BY InitForwarder, NextForwarder, PTL DEF Spec

-----------------------------------------------------------------------------
(* Theorems *)

\* Every listener, exchange, dial, provider change and restart keeps the types.
THEOREM ForwarderTypeCorrect == Spec => []TypeOK
<1>1. ForwarderInv => TypeOK
  BY DEF ForwarderInv
<1>. QED
  BY ForwarderInvariant, <1>1, PTL

\* handle: whatever fails, a DNS message is answered or lost with its
\* connection, over UDP and TCP.
THEOREM EveryQueryAnswered == Spec => []NoSilence
<1>1. ForwarderInv => NoSilence
  BY DEF ForwarderInv
<1>. QED
  BY ForwarderInvariant, <1>1, PTL

\* SetFailClosed and CloseUpstream: the rule denies every provider, so a raw
\* connection after the cut is one that the cut found in use, even if the
\* provider changes or dials of ended queries finish late.
THEOREM CutLeavesNoRaw == Spec => []RawNeedsOverlap
<1>1. ForwarderInv => RawNeedsOverlap
  BY DEF ForwarderInv
<1>. QED
  BY ForwarderInvariant, <1>1, PTL

\* dnsProviderSet and New: crashes between the two steps of a change included,
\* the provider in use is the one stored, unless the last changes overlapped or
\* the last start could not read it; a change that runs alone repairs both.
THEOREM ChosenProviderKept == Spec => []ProviderKept
<1>1. ForwarderInv => ProviderKept
  BY DEF ForwarderInv, ChoiceInv, ProviderKept
<1>. QED
  BY ForwarderInvariant, <1>1, PTL
=============================================================================
