------------------------------ MODULE Sessions ------------------------------
(***************************************************************************)
(* Sessions: the bbolt bucket, and the policy of internal/httpapi on it.   *)
(*                                                                         *)
(* Every request is a process.  sessionValid reads the record in one store *)
(* transaction and slides or deletes it in another; between the two other  *)
(* requests run and the clock goes on.                                     *)
(*                                                                         *)
(* Time is counted in ticks, Second of them to the second: the store keeps *)
(* timestamps in RFC 3339, which drops the fraction of a second.           *)
(***************************************************************************)
EXTENDS Integers

CONSTANTS
    Clients,   \* concurrent requests
    Tokens,    \* what auth.NewToken may return
    NoSession, \* no record for a token
    NoToken,   \* a request without a cookie
    Idle, Absolute, BumpMin, \* sessionIdle, sessionAbsolute, sessionBumpMin
    Second,    \* ticks per second
    Faults,    \* what may happen: "store" a transaction fails, "crash"
    MaxTime    \* bound on the clock

ASSUME TimeAssumption ==
    /\ Idle \in Nat /\ Absolute \in Nat /\ BumpMin \in Nat
    /\ Second \in Nat \ {0} /\ MaxTime \in Nat
ASSUME FaultsAssumption  == Faults \subseteq {"store", "crash"}
ASSUME TokenAssumption   == NoToken \notin Tokens
ASSUME SessionAssumption == NoSession \notin [issued : Int, seen : Int]

VARIABLES
    now,       \* the clock
    sessions,  \* the bucket: token -> record
    pc,        \* per request: its next store transaction
    tok, at,   \* per request: its token; the time its handler read
    used,      \* tokens handed out
    born, real, ok \* history per token: login, last real request accepted,
                   \* last request of any kind accepted

vars == <<now, sessions, pc, tok, at, used, born, real, ok>>
hist == <<born, real, ok>>

Session == [issued : Int, seen : Int]

\* What a timestamp is after Format and Parse.
Stored(t) == t - (t % Second)

Live(t) == t # NoToken /\ sessions[t] # NoSession

Init ==
    /\ now = 0
    /\ sessions = [t \in Tokens |-> NoSession]
    /\ pc = [c \in Clients |-> "idle"]
    /\ tok = [c \in Clients |-> NoToken]
    /\ at = [c \in Clients |-> 0]
    /\ used = {}
    /\ born = [t \in Tokens |-> 0]
    /\ real = [t \in Tokens |-> 0]
    /\ ok = [t \in Tokens |-> 0]

\* The next transaction of a request, with the token and the time it keeps.
Goto(c, l, t, time) ==
    /\ pc' = [pc EXCEPT ![c] = l]
    /\ tok' = [tok EXCEPT ![c] = t]
    /\ at' = [at EXCEPT ![c] = time]

Return(c) == Goto(c, "idle", NoToken, 0)

-----------------------------------------------------------------------------
(* issueSession *)

\* A login, a registration or a recovery has succeeded.
Issue(c) ==
    /\ pc[c] = "idle"
    /\ Goto(c, "put", NoToken, now)
    /\ UNCHANGED <<now, sessions, used, hist>>

\* Variant: a token may be handed out a second time.
PutSessionAgain(c) ==
    /\ pc[c] = "put"
    /\ \E t \in Tokens :
         sessions' = [sessions EXCEPT ![t] = [issued |-> Stored(at[c]), seen |-> Stored(at[c])]]
    /\ Return(c)
    /\ UNCHANGED <<now, used, hist>>

\* NewToken is fresh; without randomness or store the handler answers 500.
PutSession(c) ==
    /\ pc[c] = "put"
    /\ \/ \E t \in Tokens \ used :
            /\ sessions' = [sessions EXCEPT ![t] = [issued |-> Stored(at[c]), seen |-> Stored(at[c])]]
            /\ used' = used \cup {t}
            /\ born' = [born EXCEPT ![t] = at[c]]
            /\ real' = [real EXCEPT ![t] = at[c]]
            /\ ok' = [ok EXCEPT ![t] = at[c]]
       \/ UNCHANGED <<sessions, used, hist>>
    /\ Return(c)
    /\ UNCHANGED now

-----------------------------------------------------------------------------
(* sessionValid, from requireSession ("real") or a passive check *)

Request(c, t, kind) ==
    /\ pc[c] = "idle"
    /\ Goto(c, kind, t, 0)
    /\ UNCHANGED <<now, sessions, used, hist>>

Expired(s) == now > s.seen + Idle \/ now > s.issued + Absolute

\* Variant: a passive check slides the timeout too.
SlidesAlways(s, kind) == now - s.seen > BumpMin

\* A real request that comes more than BumpMin after the last slide.
Slides(s, kind) == kind = "real" /\ now - s.seen > BumpMin

\* The request is let through at this moment; the slide is written later.
Accept(c) ==
    /\ ok' = [ok EXCEPT ![tok[c]] = now]
    /\ real' = IF pc[c] = "real" THEN [real EXCEPT ![tok[c]] = now] ELSE real

ReadSession(c) ==
    /\ pc[c] \in {"real", "passive"}
    /\ \/ /\ ~Live(tok[c]) \/ "store" \in Faults
          /\ Return(c)
          /\ UNCHANGED <<real, ok>>
       \/ /\ Live(tok[c]) /\ Expired(sessions[tok[c]])
          /\ Goto(c, "delete", tok[c], 0)
          /\ UNCHANGED <<real, ok>>
       \/ /\ Live(tok[c]) /\ ~Expired(sessions[tok[c]])
          /\ IF Slides(sessions[tok[c]], pc[c]) THEN Goto(c, "bump", tok[c], now) ELSE Return(c)
          /\ Accept(c)
    /\ UNCHANGED <<now, sessions, used, born>>

\* Variant: the slide writes a whole new record.
BumpPuts(c) ==
    /\ pc[c] = "bump"
    /\ sessions' = [sessions EXCEPT ![tok[c]] = [issued |-> Stored(at[c]), seen |-> Stored(at[c])]]
    /\ Return(c)
    /\ UNCHANGED <<now, used, hist>>

\* Variant: the slide renews the login time too.
BumpRenews(c) ==
    /\ pc[c] = "bump"
    /\ IF Live(tok[c])
       THEN sessions' = [sessions EXCEPT ![tok[c]] =
                           [issued |-> Stored(at[c]), seen |-> Stored(at[c])]]
       ELSE UNCHANGED sessions
    /\ Return(c)
    /\ UNCHANGED <<now, used, hist>>

\* BumpSession: nothing happens to a session that is gone meanwhile.
BumpSession(c) ==
    /\ pc[c] = "bump"
    /\ \/ /\ Live(tok[c])
          /\ sessions' = [sessions EXCEPT ![tok[c]].seen = Stored(at[c])]
       \/ ~Live(tok[c]) /\ UNCHANGED sessions
       \/ "store" \in Faults /\ UNCHANGED sessions
    /\ Return(c)
    /\ UNCHANGED <<now, used, hist>>

DeleteExpired(c) ==
    /\ pc[c] = "delete"
    /\ \/ sessions' = [sessions EXCEPT ![tok[c]] = NoSession]
       \/ "store" \in Faults /\ UNCHANGED sessions
    /\ Return(c)
    /\ UNCHANGED <<now, used, hist>>

-----------------------------------------------------------------------------
Logout(c, t) ==
    /\ pc[c] = "idle"
    /\ \/ sessions' = [sessions EXCEPT ![t] = NoSession]
       \/ "store" \in Faults /\ UNCHANGED sessions
    /\ UNCHANGED <<now, pc, tok, at, used, hist>>

Tick ==
    /\ now < MaxTime
    /\ now' = now + 1
    /\ UNCHANGED <<sessions, pc, tok, at, used, hist>>

\* The daemon dies and is respawned; the bucket survives.
Crash ==
    /\ "crash" \in Faults
    /\ pc' = [c \in Clients |-> "idle"]
    /\ tok' = [c \in Clients |-> NoToken]
    /\ at' = [c \in Clients |-> 0]
    /\ UNCHANGED <<now, sessions, used, hist>>

Step(c) == PutSession(c) \/ ReadSession(c) \/ BumpSession(c) \/ DeleteExpired(c)

Next ==
    \/ \E c \in Clients :
         \/ Issue(c)
         \/ \E t \in used \cup {NoToken}, kind \in {"real", "passive"} : Request(c, t, kind)
         \/ Step(c)
         \/ \E t \in used : Logout(c, t)
    \/ Tick
    \/ Crash

Spec == Init /\ [][Next]_vars

-----------------------------------------------------------------------------
(* Properties *)

\* Every variable has its type, and only a token handed out has a session.
TypeOK ==
    /\ now \in 0..MaxTime
    /\ sessions \in [Tokens -> Session \cup {NoSession}]
    /\ pc \in [Clients -> {"idle", "put", "real", "passive", "bump", "delete"}]
    /\ tok \in [Clients -> used \cup {NoToken}]
    /\ at \in [Clients -> 0..MaxTime]
    /\ used \in SUBSET Tokens
    /\ born \in [Tokens -> 0..MaxTime]
    /\ real \in [Tokens -> 0..MaxTime]
    /\ ok \in [Tokens -> 0..MaxTime]
    /\ \A t \in Tokens : Live(t) => t \in used

\* "polling can't keep a session alive": whatever passive checks run, nothing
\* is accepted later than Idle after the last real request.
IdleCap == \A t \in used : ok[t] <= real[t] + Idle

\* However active, a session is not accepted later than Absolute after login.
AbsoluteCap == \A t \in used : ok[t] <= born[t] + Absolute

\* The throttle costs an active user at most BumpMin, or the fraction of a
\* second the store drops, of the idle timeout.
SlideKeepsUp ==
    (\A c \in Clients : pc[c] # "bump")
        => \A t \in used : Live(t) =>
             \/ real[t] - sessions[t].seen <= BumpMin
             \/ real[t] - sessions[t].seen < Second

\* Logout and expiry are final, whichever slides and checks are in flight.
Life == INSTANCE SessionLife WITH live <- {t \in Tokens : Live(t)}, issued <- used
SessionsEndForGood == Life!Spec

\* "BumpSession advances a session's last-seen time": it never goes back.
SeenAdvances ==
    [][\A t \in Tokens : (Live(t) /\ sessions'[t] # NoSession)
            => sessions'[t].seen >= sessions[t].seen]_vars
=============================================================================
