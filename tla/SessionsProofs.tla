--------------------------- MODULE SessionsProofs ---------------------------
(* The session policy for every timeout, every number of clients and tokens, *)
(* and for store transactions that fail and restarts at any point.           *)
EXTENDS Sessions, TLAPS

-----------------------------------------------------------------------------
(* Types *)

LEMMA StoredType == \A t \in Nat : Stored(t) \in Int /\ Stored(t) <= t
BY TimeAssumption DEF Stored

LEMMA InitType == Init => TypeOK
BY TimeAssumption, TokenAssumption DEF Init, TypeOK, Live

LEMMA NextType == TypeOK /\ [Next]_vars => TypeOK'
<1> SUFFICES ASSUME TypeOK, [Next]_vars PROVE TypeOK'
  OBVIOUS
<1> USE TimeAssumption, TokenAssumption DEF hist, Goto, Return
<1>1. ASSUME NEW c \in Clients, Issue(c)
      PROVE  TypeOK'
  BY <1>1 DEF TypeOK, Issue, Live
<1>2. ASSUME NEW c \in Clients, NEW t \in used \cup {NoToken}, NEW kind \in {"real", "passive"},
             Request(c, t, kind)
      PROVE  TypeOK'
  BY <1>2 DEF TypeOK, Request, Live
<1>3. ASSUME NEW c \in Clients, PutSession(c)
      PROVE  TypeOK'
  <2>1. CASE UNCHANGED <<sessions, used, hist>>
    BY <1>3, <2>1 DEF TypeOK, PutSession, Live
  <2>2. ASSUME NEW t \in Tokens \ used,
               sessions' = [sessions EXCEPT ![t] = [issued |-> Stored(at[c]), seen |-> Stored(at[c])]],
               used' = used \cup {t},
               born' = [born EXCEPT ![t] = at[c]],
               real' = [real EXCEPT ![t] = at[c]],
               ok' = [ok EXCEPT ![t] = at[c]]
        PROVE  TypeOK'
    <3>1. Stored(at[c]) \in Int /\ at[c] \in 0..MaxTime
      BY StoredType DEF TypeOK
    <3>2. sessions' \in [Tokens -> Session \cup {NoSession}]
      BY <2>2, <3>1 DEF TypeOK, Session
    <3>3. \A s \in Tokens : Live(s)' => s \in used'
      BY <2>2 DEF TypeOK, Live
    <3>. QED
      BY <1>3, <2>2, <3>1, <3>2, <3>3 DEF TypeOK, PutSession
  <2>. QED
    BY <1>3, <2>1, <2>2 DEF PutSession
<1>4. ASSUME NEW c \in Clients, ReadSession(c)
      PROVE  TypeOK'
  BY <1>4 DEF TypeOK, ReadSession, Accept, Live
<1>5. ASSUME NEW c \in Clients, BumpSession(c)
      PROVE  TypeOK'
  <2>1. sessions' \in [Tokens -> Session \cup {NoSession}]
    <3>1. CASE Live(tok[c]) /\ sessions' = [sessions EXCEPT ![tok[c]].seen = Stored(at[c])]
      <4>1. tok[c] \in Tokens /\ sessions[tok[c]] \in Session /\ Stored(at[c]) \in Int
        BY <3>1, StoredType DEF TypeOK, Live
      <4>2. [sessions[tok[c]] EXCEPT !.seen = Stored(at[c])] \in Session
        BY <4>1 DEF Session
      <4>. QED
        BY <3>1, <4>1, <4>2 DEF TypeOK
    <3>. QED
      BY <1>5, <3>1 DEF TypeOK, BumpSession
  <2>2. \A t \in Tokens : Live(t)' => Live(t)
    BY <1>5 DEF BumpSession, Live, TypeOK
  <2>. QED
    BY <1>5, <2>1, <2>2 DEF TypeOK, BumpSession
<1>6. ASSUME NEW c \in Clients, DeleteExpired(c)
      PROVE  TypeOK'
  <2>1. \A t \in Tokens : Live(t)' => Live(t)
    BY <1>6 DEF DeleteExpired, Live, TypeOK
  <2>. QED
    BY <1>6, <2>1 DEF TypeOK, DeleteExpired
<1>7. ASSUME NEW c \in Clients, NEW t \in used, Logout(c, t)
      PROVE  TypeOK'
  <2>1. \A s \in Tokens : Live(s)' => Live(s)
    BY <1>7 DEF Logout, Live, TypeOK
  <2>. QED
    BY <1>7, <2>1 DEF TypeOK, Logout
<1>8. CASE Tick
  BY <1>8 DEF TypeOK, Tick, Live
<1>9. CASE Crash
  BY <1>9 DEF TypeOK, Crash, Live
<1>10. CASE UNCHANGED vars
  BY <1>10 DEF TypeOK, vars, Live
<1>. QED
  BY <1>1, <1>2, <1>3, <1>4, <1>5, <1>6, <1>7, <1>8, <1>9, <1>10 DEF Next, Step

\* Every variable keeps its type, and only a token handed out has a session.
THEOREM SessionsTypeCorrect == Spec => []TypeOK
BY InitType, NextType, PTL DEF Spec

-----------------------------------------------------------------------------
(* The caps.  A slide in flight carries the time its request was accepted,  *)
(* which the last real request can only have moved on since; so what it     *)
(* writes never puts the idle timeout ahead of real activity.               *)

SessionInv ==
    /\ \A t \in Tokens : Live(t) => sessions[t].issued <= born[t] /\ sessions[t].seen <= real[t]
    /\ \A c \in Clients : pc[c] = "bump" => tok[c] # NoToken /\ at[c] <= real[tok[c]]
    /\ \A c \in Clients : at[c] <= now
    /\ \A t \in Tokens : real[t] <= now
    /\ IdleCap
    /\ AbsoluteCap

LEMMA InitCaps == Init => SessionInv
BY DEF Init, SessionInv, IdleCap, AbsoluteCap, Live

\* A step that accepts nobody and at most takes sessions away.
LEMMA CapsKept ==
    ASSUME TypeOK, SessionInv, UNCHANGED <<used, hist>>, now' >= now, now' \in Int,
           \A t \in Tokens : Live(t)' => sessions'[t] = sessions[t] /\ Live(t),
           \A c \in Clients : /\ pc'[c] = "bump" => /\ pc[c] = "bump"
                                                    /\ tok'[c] = tok[c] /\ at'[c] = at[c]
                              /\ at'[c] \in Int /\ at'[c] <= now'
    PROVE  SessionInv'
BY TimeAssumption DEF TypeOK, SessionInv, IdleCap, AbsoluteCap, hist

LEMMA NextCaps == TypeOK /\ SessionInv /\ [Next]_vars => SessionInv'
<1> SUFFICES ASSUME TypeOK, SessionInv, [Next]_vars PROVE SessionInv'
  OBVIOUS
<1> USE DEF hist, Goto, Return
<1>1. ASSUME NEW c \in Clients, Issue(c)
      PROVE  SessionInv'
  BY <1>1, CapsKept DEF TypeOK, Issue, Live, SessionInv
<1>2. ASSUME NEW c \in Clients, NEW t \in used \cup {NoToken}, NEW kind \in {"real", "passive"},
             Request(c, t, kind)
      PROVE  SessionInv'
  BY <1>2, CapsKept DEF TypeOK, Request, Live, SessionInv
<1>3. ASSUME NEW c \in Clients, PutSession(c)
      PROVE  SessionInv'
  <2>1. CASE UNCHANGED <<sessions, used, hist>>
    BY <1>3, <2>1, CapsKept DEF TypeOK, PutSession, Live, SessionInv
  <2>2. ASSUME NEW t \in Tokens \ used,
               sessions' = [sessions EXCEPT ![t] = [issued |-> Stored(at[c]), seen |-> Stored(at[c])]],
               used' = used \cup {t},
               born' = [born EXCEPT ![t] = at[c]],
               real' = [real EXCEPT ![t] = at[c]],
               ok' = [ok EXCEPT ![t] = at[c]]
        PROVE  SessionInv'
    <3>1. /\ at[c] \in Nat /\ at[c] <= now /\ now' = now
          /\ Stored(at[c]) \in Int /\ Stored(at[c]) <= at[c]
      BY <1>3, StoredType DEF TypeOK, SessionInv, PutSession
    <3>2. \A s \in Tokens : /\ born'[s] = IF s = t THEN at[c] ELSE born[s]
                            /\ real'[s] = IF s = t THEN at[c] ELSE real[s]
                            /\ ok'[s] = IF s = t THEN at[c] ELSE ok[s]
      BY <2>2 DEF TypeOK
    <3>3. \A s \in Tokens : s # t => sessions'[s] = sessions[s] /\ (Live(s)' <=> Live(s))
      BY <2>2 DEF TypeOK, Live
    <3>4. sessions'[t].issued <= born'[t] /\ sessions'[t].seen <= real'[t]
      BY <2>2, <3>1, <3>2 DEF TypeOK
    <3>5. \A s \in Tokens : Live(s)' => /\ sessions'[s].issued <= born'[s]
                                        /\ sessions'[s].seen <= real'[s]
      BY <3>2, <3>3, <3>4 DEF SessionInv
    <3>6. \A d \in Clients : pc'[d] = "bump" => tok'[d] # NoToken /\ at'[d] <= real'[tok'[d]]
      <4> SUFFICES ASSUME NEW d \in Clients, pc'[d] = "bump"
                   PROVE  tok'[d] # NoToken /\ at'[d] <= real'[tok'[d]]
        OBVIOUS
      <4>1. d # c /\ pc[d] = "bump" /\ tok'[d] = tok[d] /\ at'[d] = at[d]
        BY <1>3 DEF PutSession, TypeOK
      <4>2. tok[d] \in used /\ tok[d] # t
        BY <2>2, <4>1 DEF TypeOK, SessionInv
      <4>. QED
        BY <3>2, <4>1, <4>2 DEF SessionInv, TypeOK
    <3>7. \A d \in Clients : at'[d] <= now'
      BY <1>3, <3>1, TimeAssumption DEF PutSession, TypeOK, SessionInv
    <3>8. \A s \in Tokens : real'[s] <= now'
      BY <3>1, <3>2 DEF SessionInv
    <3>9. IdleCap' /\ AbsoluteCap'
      BY <2>2, <3>1, <3>2, TimeAssumption DEF SessionInv, IdleCap, AbsoluteCap, TypeOK
    <3>. QED
      BY <3>5, <3>6, <3>7, <3>8, <3>9 DEF SessionInv
  <2>. QED
    BY <1>3, <2>1, <2>2 DEF PutSession
<1>4. ASSUME NEW c \in Clients, ReadSession(c)
      PROVE  SessionInv'
  <2>1. CASE UNCHANGED <<real, ok>> /\ pc'[c] # "bump"
    BY <1>4, <2>1, CapsKept, TimeAssumption DEF TypeOK, ReadSession, Live, SessionInv
  <2>2. CASE Live(tok[c]) /\ ~Expired(sessions[tok[c]]) /\ Accept(c)
    <3> DEFINE t == tok[c]
    <3>1. t \in used /\ t \in Tokens /\ sessions[t] \in Session
      BY <2>2 DEF Live, TypeOK
    <3>2. /\ UNCHANGED <<now, sessions, used, born>>
          /\ pc[c] \in {"real", "passive"}
          /\ \/ pc'[c] = "bump" /\ pc[c] = "real" /\ tok'[c] = t /\ at'[c] = now
             \/ pc'[c] = "idle" /\ at'[c] = 0
          /\ \A d \in Clients : d # c => pc'[d] = pc[d] /\ tok'[d] = tok[d] /\ at'[d] = at[d]
      BY <1>4, <2>2 DEF ReadSession, Slides, TypeOK
    <3>3. /\ \A s \in Tokens : ok'[s] = IF s = t THEN now ELSE ok[s]
          /\ \A s \in Tokens : real'[s] = IF s = t /\ pc[c] = "real" THEN now ELSE real[s]
      BY <2>2 DEF Accept, TypeOK
    <3>4. /\ now <= sessions[t].seen + Idle /\ now <= sessions[t].issued + Absolute
          /\ sessions[t].seen <= real[t] /\ sessions[t].issued <= born[t]
          /\ sessions[t].seen \in Int /\ sessions[t].issued \in Int
          /\ now \in Nat /\ real[t] \in Nat /\ born[t] \in Nat
      BY <2>2, <3>1, TimeAssumption DEF Expired, SessionInv, Session, TypeOK
    <3>5. \A s \in Tokens : Live(s)' <=> Live(s)
      BY <3>2 DEF Live
    <3> HIDE DEF t
    <3>6. \A s \in Tokens : Live(s)' => /\ sessions'[s].issued <= born'[s]
                                        /\ sessions'[s].seen <= real'[s]
      <4> SUFFICES ASSUME NEW s \in Tokens, Live(s)
                   PROVE  sessions[s].issued <= born[s] /\ sessions[s].seen <= real'[s]
        BY <3>2, <3>5
      <4>1. /\ real[s] \in Nat /\ real[s] <= now
            /\ sessions[s].issued <= born[s] /\ sessions[s].seen <= real[s]
            /\ sessions[s].seen \in Int
        BY DEF SessionInv, TypeOK, Live, Session
      <4>. QED
        BY <3>3, <3>4, <4>1
    <3>7. \A d \in Clients : pc'[d] = "bump" => tok'[d] # NoToken /\ at'[d] <= real'[tok'[d]]
      <4> SUFFICES ASSUME NEW d \in Clients, pc'[d] = "bump"
                   PROVE  tok'[d] # NoToken /\ at'[d] <= real'[tok'[d]]
        OBVIOUS
      <4>1. CASE d = c
        BY <3>1, <3>2, <3>3, <3>4, <4>1, TokenAssumption
      <4>2. CASE d # c
        <5>1. /\ pc[d] = "bump" /\ tok'[d] = tok[d] /\ at'[d] = at[d]
              /\ tok[d] \in Tokens /\ at[d] <= real[tok[d]] /\ real[tok[d]] <= now
              /\ at[d] \in Nat /\ real[tok[d]] \in Nat /\ tok[d] # NoToken
          BY <3>2, <4>2 DEF SessionInv, TypeOK
        <5>. QED
          BY <3>3, <3>4, <5>1
      <4>. QED
        BY <4>1, <4>2
    <3>8. (\A d \in Clients : at'[d] <= now') /\ (\A s \in Tokens : real'[s] <= now')
      BY <3>2, <3>3, <3>4 DEF SessionInv
    <3>9. IdleCap' /\ AbsoluteCap'
      BY <3>1, <3>2, <3>3, <3>4, TimeAssumption DEF SessionInv, IdleCap, AbsoluteCap, TypeOK
    <3>. QED
      BY <3>6, <3>7, <3>8, <3>9 DEF SessionInv
  <2>. QED
    BY <1>4, <2>1, <2>2 DEF ReadSession, TypeOK
<1>5. ASSUME NEW c \in Clients, BumpSession(c)
      PROVE  SessionInv'
  <2>1. CASE UNCHANGED sessions
    BY <1>5, <2>1, CapsKept, TimeAssumption DEF TypeOK, BumpSession, Live, SessionInv
  <2>2. CASE Live(tok[c]) /\ sessions' = [sessions EXCEPT ![tok[c]].seen = Stored(at[c])]
    <3>1. /\ tok[c] \in Tokens /\ sessions[tok[c]] \in Session
          /\ Stored(at[c]) \in Int /\ Stored(at[c]) <= at[c] /\ at[c] \in Nat
          /\ at[c] <= real[tok[c]] /\ real[tok[c]] \in Nat
      BY <1>5, <2>2, StoredType DEF Live, TypeOK, SessionInv, BumpSession
    <3>2. /\ sessions'[tok[c]].issued = sessions[tok[c]].issued
          /\ sessions'[tok[c]].seen = Stored(at[c])
          /\ \A s \in Tokens : s # tok[c] => sessions'[s] = sessions[s]
      BY <2>2, <3>1 DEF Session, TypeOK
    <3>3. \A s \in Tokens : Live(s)' => Live(s)
      BY <2>2, <3>2 DEF Live
    <3>4. /\ UNCHANGED <<now, used, hist>>
          /\ pc'[c] = "idle" /\ at'[c] = 0
          /\ \A d \in Clients : d # c => pc'[d] = pc[d] /\ tok'[d] = tok[d] /\ at'[d] = at[d]
      BY <1>5 DEF BumpSession, TypeOK
    <3>5. Stored(at[c]) <= real[tok[c]]
      BY <3>1
    <3>6. \A s \in Tokens : Live(s)' => sessions'[s].issued <= born'[s] /\ sessions'[s].seen <= real'[s]
      BY <2>2, <3>2, <3>3, <3>4, <3>5 DEF SessionInv
    <3>7. now \in Nat
      BY DEF TypeOK
    <3>. QED
      BY <3>4, <3>6, <3>7 DEF SessionInv, IdleCap, AbsoluteCap
  <2>. QED
    BY <1>5, <2>1, <2>2 DEF BumpSession
<1>6. ASSUME NEW c \in Clients, DeleteExpired(c)
      PROVE  SessionInv'
  BY <1>6, CapsKept, TimeAssumption DEF TypeOK, DeleteExpired, Live, SessionInv
<1>7. ASSUME NEW c \in Clients, NEW t \in used, Logout(c, t)
      PROVE  SessionInv'
  BY <1>7, CapsKept, TimeAssumption DEF TypeOK, Logout, Live, SessionInv
<1>8. CASE Tick
  BY <1>8, CapsKept DEF TypeOK, Tick, Live, SessionInv
<1>9. CASE Crash
  BY <1>9, CapsKept DEF TypeOK, Crash, Live, SessionInv
<1>10. CASE UNCHANGED vars
  BY <1>10, CapsKept DEF TypeOK, vars, Live, SessionInv
<1>. QED
  BY <1>1, <1>2, <1>3, <1>4, <1>5, <1>6, <1>7, <1>8, <1>9, <1>10 DEF Next, Step

\* No request is accepted later than Idle after the last real one, nor later
\* than Absolute after the login, whatever slides and checks are in flight.
THEOREM SessionsCapped == Spec => [](IdleCap /\ AbsoluteCap)
<1>1. TypeOK /\ SessionInv /\ [Next]_vars => SessionInv'
  BY NextCaps
<1>2. SessionInv => IdleCap /\ AbsoluteCap
  BY DEF SessionInv
<1>. QED
  BY <1>1, <1>2, InitCaps, SessionsTypeCorrect, PTL DEF Spec

-----------------------------------------------------------------------------
(* Sessions implements SessionLife *)

LEMMA InitLife == Init => Life!Init
BY TokenAssumption DEF Init, Life!Init, Live

LEMMA StepLife ==
    TypeOK /\ SessionInv /\ [Next]_vars => [Life!Next]_<<{t \in Tokens : Live(t)}, used>>
<1> SUFFICES ASSUME TypeOK, SessionInv, [Next]_vars
             PROVE  Life!Next \/ UNCHANGED <<{t \in Tokens : Live(t)}, used>>
  OBVIOUS
<1> DEFINE L == {t \in Tokens : Live(t)}
<1> USE DEF hist, Goto, Return
<1>1. ASSUME UNCHANGED <<sessions, used>>
      PROVE  UNCHANGED <<L, used>>
  BY <1>1 DEF Live
<1>2. ASSUME NEW t \in Tokens, sessions' = [sessions EXCEPT ![t] = NoSession], UNCHANGED used
      PROVE  Life!End(t) \/ UNCHANGED <<L, used>>
  BY <1>2 DEF Life!End, Live, TypeOK
<1>3. ASSUME NEW c \in Clients, PutSession(c)
      PROVE  Life!Next \/ UNCHANGED <<L, used>>
  <2>1. ASSUME NEW t \in Tokens \ used, used' = used \cup {t},
               sessions' = [sessions EXCEPT ![t] = [issued |-> Stored(at[c]), seen |-> Stored(at[c])]]
        PROVE  Life!Issue(t)
    <3>1. [issued |-> Stored(at[c]), seen |-> Stored(at[c])] # NoSession
      BY SessionAssumption, StoredType, TimeAssumption DEF TypeOK
    <3>. QED
      BY <2>1, <3>1, TokenAssumption DEF Life!Issue, Live, TypeOK
  <2>. QED
    BY <1>1, <1>3, <2>1 DEF PutSession, Life!Next
<1>4. ASSUME NEW c \in Clients, BumpSession(c)
      PROVE  UNCHANGED <<L, used>>
  <2>1. CASE Live(tok[c]) /\ sessions' = [sessions EXCEPT ![tok[c]].seen = Stored(at[c])]
    <3>1. tok[c] \in Tokens /\ sessions[tok[c]] \in Session /\ Stored(at[c]) \in Int
      BY <2>1, StoredType DEF Live, TypeOK
    <3>2. [sessions[tok[c]] EXCEPT !.seen = Stored(at[c])] \in Session
      BY <3>1 DEF Session
    <3>3. \A t \in Tokens : Live(t)' <=> Live(t)
      BY <2>1, <3>1, <3>2, SessionAssumption DEF Live, TypeOK, Session
    <3>. QED
      BY <1>4, <3>3 DEF BumpSession
  <2>. QED
    BY <1>1, <1>4, <2>1 DEF BumpSession
<1>5. ASSUME NEW c \in Clients, DeleteExpired(c)
      PROVE  Life!Next \/ UNCHANGED <<L, used>>
  <2>1. CASE tok[c] \in Tokens
    BY <1>1, <1>2, <1>5, <2>1 DEF DeleteExpired, Life!Next
  <2>2. CASE tok[c] \notin Tokens
    BY <1>1, <1>5, <2>2 DEF DeleteExpired, TypeOK
  <2>. QED
    BY <2>1, <2>2
<1>6. ASSUME NEW c \in Clients, NEW t \in used, Logout(c, t)
      PROVE  Life!Next \/ UNCHANGED <<L, used>>
  BY <1>1, <1>2, <1>6 DEF Logout, Life!Next, TypeOK
<1>7. ASSUME NEW c \in Clients, Issue(c) \/ ReadSession(c)
      PROVE  UNCHANGED <<L, used>>
  BY <1>1, <1>7 DEF Issue, ReadSession
<1>8. ASSUME NEW c \in Clients, NEW t, NEW kind, Request(c, t, kind)
      PROVE  UNCHANGED <<L, used>>
  BY <1>1, <1>8 DEF Request
<1>9. CASE Tick \/ Crash \/ UNCHANGED vars
  BY <1>1, <1>9 DEF Tick, Crash, vars
<1>. QED
  BY <1>3, <1>4, <1>5, <1>6, <1>7, <1>8, <1>9 DEF Next, Step

\* A token is issued once and a session that ended stays ended, for every
\* interleaving of slides, expiry checks, logouts and restarts.
THEOREM SessionsImplementLife == Spec => SessionsEndForGood
<1>1. TypeOK /\ SessionInv /\ [Next]_vars => SessionInv'
  BY NextCaps
<1>. QED
  BY <1>1, InitLife, InitCaps, StepLife, SessionsTypeCorrect, PTL
  DEF Spec, SessionsEndForGood, Life!Spec
=============================================================================
