----------------------------- MODULE Ceremonies -----------------------------
(***************************************************************************)
(* The WebAuthn ceremonies, the recovery code and step-up credits.         *)
(*                                                                         *)
(* Every request is a process over the store transactions and ttlSet calls *)
(* of its handler.  Challenges and credits live in memory behind a mutex   *)
(* and die with the daemon; credentials and the recovery hash are stored.  *)
(* Sessions are seen through what SessionLife promises of them: a set of   *)
(* live tokens, any of which may end at any time.  Whether a ceremony's    *)
(* bytes verify is the outcome of the checks in internal/auth, open here.  *)
(***************************************************************************)
EXTENDS Integers, FiniteSets

CONSTANTS
    Clients,    \* concurrent requests
    Ops,        \* the handlers they may call
    Creds,      \* credential IDs of authenticators
    Tokens, Challenges, Codes, \* what auth.NewToken may return, by use
    None,       \* no token, no challenge, no code, no entry
    ChallengeTTL, StepUpTTL    \* challengeTTL, stepUpTTL, in clock ticks

AllOps == {"registerBegin", "registerFinish", "loginBegin", "loginFinish", "loginRecovery",
           "stepUpBegin", "stepUpFinish", "recoveryRegenerate"}

ASSUME OpsAssumption  == Ops \subseteq AllOps
ASSUME TTLAssumption  == ChallengeTTL \in Nat \ {0} /\ StepUpTTL \in Nat \ {0}
ASSUME NoneAssumption == None \notin Tokens \cup Challenges \cup Codes \cup Int

VARIABLES
    creds,     \* the credentials bucket
    hash,      \* recovery_hash: the code it belongs to
    chals, stepUps, \* the two ttlSets: key -> time left, None without entry
    live,      \* tokens with a session
    minted,    \* tokens, challenges and codes handed out so far
    pc, req,   \* per request: next step; what it carries
    first,     \* requests that found the device unprovisioned
    accepted,  \* history: how often each challenge was accepted
    touches, spent, \* history per token: step-ups granted, credits spent
    shown, uses     \* history: the code shown last; how often each was taken

store   == <<creds, hash>>
sets    == <<chals, stepUps>>
process == <<pc, req, first>>
history == <<accepted, touches, spent, shown, uses>>
vars    == <<creds, hash, chals, stepUps, live, minted, pc, req, first,
             accepted, touches, spent, shown, uses>>

Request == [op : AllOps \cup {"none"}, tok : Tokens \cup {None},
            chal : Challenges \cup {None}, cred : Creds \cup {None},
            code : Codes \cup {None}]

NoRequest == [op |-> "none", tok |-> None, chal |-> None, cred |-> None, code |-> None]

Init ==
    /\ creds = {}
    /\ hash = None
    /\ chals = [k \in Challenges |-> None]
    /\ stepUps = [t \in Tokens |-> None]
    /\ live = {}
    /\ minted = {}
    /\ pc = [c \in Clients |-> "idle"]
    /\ req = [c \in Clients |-> NoRequest]
    /\ first = {}
    /\ accepted = [k \in Challenges |-> 0]
    /\ touches = [t \in Tokens |-> 0]
    /\ spent = [t \in Tokens |-> 0]
    /\ shown = None
    /\ uses = [k \in Codes |-> 0]

Goto(c, l) == pc' = [pc EXCEPT ![c] = l]

Op(c) == req[c].op

\* The handler answers; its request is forgotten.
Answer(c) ==
    /\ Goto(c, "idle")
    /\ req' = [req EXCEPT ![c] = NoRequest]
    /\ first' = first \ {c}

Continue(c, l) == Goto(c, l) /\ UNCHANGED <<req, first>>

-----------------------------------------------------------------------------
(* ttlSet *)

\* An entry answers before its deadline; after it, the next grant drops it.
Fresh(m, k)   == m[k] # None /\ m[k] > 0
Collected(m)  == [k \in DOMAIN m |-> IF m[k] # None /\ m[k] < 0 THEN None ELSE m[k]]

\* Variant: an entry is looked up and stays.
NotRemoved(m, k) == m

\* Variant: an entry lives one tick too long.
GrantedLonger(m, k, ttl) == [Collected(m) EXCEPT ![k] = ttl + 1]

Granted(m, k, ttl) == [Collected(m) EXCEPT ![k] = ttl]
Removed(m, k) == [m EXCEPT ![k] = None]

-----------------------------------------------------------------------------
(* Requests *)

Start(o) == CASE o \in {"registerBegin", "registerFinish", "loginBegin"} -> "provisioned"
              [] o = "loginFinish"   -> "consume"
              [] o = "loginRecovery" -> "compare"
              [] OTHER               -> "session"

\* A browser sends what it was given: a challenge, a cookie, a code.
Call(c, r) ==
    /\ pc[c] = "idle"
    /\ req' = [req EXCEPT ![c] = r]
    /\ Goto(c, Start(r.op))
    /\ UNCHANGED <<store, sets, live, minted, first, history>>

\* registerBegin, registerFinish and loginBegin count the credentials first; a
\* count that fails is taken for none.
Provisioned(c) ==
    /\ pc[c] = "provisioned"
    /\ \/ /\ creds # {}
          /\ Continue(c, IF Op(c) = "loginBegin" THEN "issue" ELSE "session")
       \/ /\ Op(c) = "loginBegin"
          /\ Answer(c)
       \/ /\ Op(c) # "loginBegin"
          /\ first' = first \cup {c}
          /\ Goto(c, IF Op(c) = "registerBegin" THEN "issue" ELSE "consume")
          /\ UNCHANGED req
    /\ UNCHANGED <<store, sets, live, minted, history>>

\* sessionValid: 401 or 403 without a live session, or when it is not read.
CheckSession(c) ==
    /\ pc[c] = "session"
    /\ \/ /\ req[c].tok \in live
          /\ Continue(c, CASE Op(c) \in {"registerBegin", "stepUpBegin"} -> "issue"
                            [] Op(c) = "recoveryRegenerate" -> "spend"
                            [] OTHER -> "consume")
       \/ Answer(c)
    /\ UNCHANGED <<store, sets, live, minted, history>>

\* chals.issue; without randomness the handler answers 500.
IssueChallenge(c) ==
    /\ pc[c] = "issue"
    /\ \/ \E k \in Challenges \ minted :
            /\ chals' = Granted(chals, k, ChallengeTTL)
            /\ minted' = minted \cup {k}
       \/ UNCHANGED <<chals, minted>>
    /\ Answer(c)
    /\ UNCHANGED <<store, stepUps, live, history>>

\* verifyCeremony: the challenge is gone whatever the checks say then.
VerifyCeremony(c) ==
    /\ pc[c] = "consume"
    /\ chals' = IF req[c].chal = None THEN chals ELSE Removed(chals, req[c].chal)
    /\ \/ Answer(c) /\ UNCHANGED accepted
       \/ /\ req[c].chal # None /\ Fresh(chals, req[c].chal)
          /\ accepted' = [accepted EXCEPT ![req[c].chal] = @ + 1]
          /\ Continue(c, IF Op(c) = "registerFinish" THEN "put" ELSE "verify")
    /\ UNCHANGED <<store, stepUps, live, minted, touches, spent, shown, uses>>

\* loginFinish and stepUpFinish: the assertion is checked with the stored key.
VerifyAssertion(c) ==
    /\ pc[c] = "verify"
    /\ \/ Answer(c)
       \/ /\ req[c].cred \in creds
          /\ Continue(c, IF Op(c) = "stepUpFinish" THEN "grant" ELSE "login")
    /\ UNCHANGED <<store, sets, live, minted, history>>

\* Variant: the recovery code is minted before the credential is stored.
MintFirst(c) ==
    /\ pc[c] = "put"
    /\ \E k \in Codes \ minted :
         /\ hash' = k
         /\ minted' = minted \cup {k}
         /\ shown' = k
    /\ Continue(c, "login")
    /\ UNCHANGED <<creds, sets, live, accepted, touches, spent, uses>>

PutCredential(c) ==
    /\ pc[c] = "put"
    /\ \/ /\ creds' = creds \cup {req[c].cred}
          /\ Continue(c, IF c \in first THEN "mint" ELSE "login")
       \/ Answer(c) /\ UNCHANGED creds
    /\ UNCHANGED <<hash, sets, live, minted, history>>

\* registerFinish when provisioning, and recoveryRegenerate: the new code
\* replaces whatever hash is stored and is shown in the answer.
MintCode(c) ==
    /\ pc[c] = "mint"
    /\ \/ \E k \in Codes \ minted :
            /\ hash' = k
            /\ minted' = minted \cup {k}
            /\ shown' = k
            /\ IF Op(c) = "registerFinish" THEN Continue(c, "login") ELSE Answer(c)
       \/ Answer(c) /\ UNCHANGED <<hash, minted, shown>>
    /\ UNCHANGED <<creds, sets, live, accepted, touches, spent, uses>>

\* issueSession.
Login(c) ==
    /\ pc[c] = "login"
    /\ \/ \E t \in Tokens \ minted :
            /\ live' = live \cup {t}
            /\ minted' = minted \cup {t}
       \/ UNCHANGED <<live, minted>>
    /\ Answer(c)
    /\ UNCHANGED <<store, sets, history>>

-----------------------------------------------------------------------------
(* Recovery and step-up *)

CompareCode(c) ==
    /\ pc[c] = "compare"
    /\ \/ hash # None /\ hash = req[c].code /\ Continue(c, "burn")
       \/ Answer(c)
    /\ UNCHANGED <<store, sets, live, minted, history>>

\* Variant: a failure to delete the hash is ignored.
BurnTries(c) ==
    /\ pc[c] = "burn"
    /\ hash' \in {None, hash}
    /\ uses' = [uses EXCEPT ![req[c].code] = @ + 1]
    /\ Continue(c, "login")
    /\ UNCHANGED <<creds, sets, live, minted, accepted, touches, spent, shown>>

\* The stored hash is deleted, whichever it is by now.
BurnCode(c) ==
    /\ pc[c] = "burn"
    /\ \/ /\ hash' = None
          /\ uses' = [uses EXCEPT ![req[c].code] = @ + 1]
          /\ Continue(c, "login")
       \/ Answer(c) /\ UNCHANGED <<hash, uses>>
    /\ UNCHANGED <<creds, sets, live, minted, accepted, touches, spent, shown>>

GrantCredit(c) ==
    /\ pc[c] = "grant"
    /\ stepUps' = Granted(stepUps, req[c].tok, StepUpTTL)
    /\ touches' = [touches EXCEPT ![req[c].tok] = @ + 1]
    /\ Answer(c)
    /\ UNCHANGED <<store, chals, live, minted, accepted, spent, shown, uses>>

\* Variant: the credit is checked and not spent.
SpendKeeps(c) ==
    /\ pc[c] = "spend"
    /\ IF Fresh(stepUps, req[c].tok)
       THEN /\ spent' = [spent EXCEPT ![req[c].tok] = @ + 1]
            /\ Continue(c, "mint")
       ELSE Answer(c) /\ UNCHANGED spent
    /\ UNCHANGED <<store, sets, live, minted, accepted, touches, shown, uses>>

\* requireStepUp: 428 without a credit, otherwise the handler runs.
SpendCredit(c) ==
    /\ pc[c] = "spend"
    /\ stepUps' = Removed(stepUps, req[c].tok)
    /\ IF Fresh(stepUps, req[c].tok)
       THEN /\ spent' = [spent EXCEPT ![req[c].tok] = @ + 1]
            /\ Continue(c, "mint")
       ELSE Answer(c) /\ UNCHANGED spent
    /\ UNCHANGED <<store, chals, live, minted, accepted, touches, shown, uses>>

-----------------------------------------------------------------------------
(* Environment *)

\* One tick past the deadline an entry is due for collection.
Older(m) == [k \in DOMAIN m |-> IF m[k] # None /\ m[k] >= 0 THEN m[k] - 1 ELSE m[k]]

Tick ==
    /\ Older(chals) # chals \/ Older(stepUps) # stepUps
    /\ chals' = Older(chals)
    /\ stepUps' = Older(stepUps)
    /\ UNCHANGED <<store, live, minted, process, history>>

\* Logout or expiry (module Sessions).
EndSession(t) ==
    /\ t \in live
    /\ live' = live \ {t}
    /\ UNCHANGED <<store, sets, minted, process, history>>

\* The daemon dies and is respawned.
Crash ==
    /\ chals' = [k \in Challenges |-> None]
    /\ stepUps' = [t \in Tokens |-> None]
    /\ pc' = [c \in Clients |-> "idle"]
    /\ req' = [c \in Clients |-> NoRequest]
    /\ first' = {}
    /\ UNCHANGED <<store, live, minted, history>>

-----------------------------------------------------------------------------
\* Each handler with the fields it uses.
Requests ==
    {r \in [op : Ops, tok : (Tokens \cap minted) \cup {None},
            chal : (Challenges \cap minted) \cup {None}, cred : Creds \cup {None},
            code : (Codes \cap minted) \cup {None}] :
       /\ r.chal # None <=> r.op \in {"registerFinish", "loginFinish", "stepUpFinish"}
       /\ r.cred # None <=> r.op \in {"registerFinish", "loginFinish", "stepUpFinish"}
       /\ r.code # None <=> r.op = "loginRecovery"
       /\ r.tok # None => r.op \notin {"loginBegin", "loginFinish", "loginRecovery"}}

Step(c) ==
    \/ Provisioned(c) \/ CheckSession(c) \/ IssueChallenge(c) \/ VerifyCeremony(c)
    \/ VerifyAssertion(c) \/ PutCredential(c) \/ MintCode(c) \/ Login(c)
    \/ CompareCode(c) \/ BurnCode(c) \/ GrantCredit(c) \/ SpendCredit(c)

Next ==
    \/ \E c \in Clients : Step(c) \/ \E r \in Requests : Call(c, r)
    \/ Tick
    \/ \E t \in Tokens : EndSession(t)
    \/ Crash

Spec == Init /\ [][Next]_vars

-----------------------------------------------------------------------------
(* Properties *)

\* Every variable has its type.
TypeOK ==
    /\ creds \in SUBSET Creds
    /\ hash \in Codes \cup {None}
    /\ chals \in [Challenges -> (-1..ChallengeTTL) \cup {None}]
    /\ stepUps \in [Tokens -> (-1..StepUpTTL) \cup {None}]
    /\ live \in SUBSET Tokens
    /\ minted \in SUBSET (Tokens \cup Challenges \cup Codes)
    /\ pc \in [Clients -> {"idle", "provisioned", "session", "issue", "consume", "verify", "put",
                           "mint", "login", "compare", "burn", "grant", "spend"}]
    /\ req \in [Clients -> Request]
    /\ first \in SUBSET Clients
    /\ accepted \in [Challenges -> Nat]
    /\ touches \in [Tokens -> Nat]
    /\ spent \in [Tokens -> Nat]
    /\ shown \in Codes \cup {None}
    /\ uses \in [Codes -> Nat]

\* "each entry answers exactly once": one challenge carries one ceremony, in
\* whichever of the handlers and requests it turns up.
ChallengeOnce == \A k \in Challenges : accepted[k] <= 1

\* A step-up ceremony buys one destructive action: a session has never spent
\* more credits, the one it still holds included, than it was touched for.
CreditPerTouch ==
    \A t \in Tokens : spent[t] + (IF stepUps[t] # None THEN 1 ELSE 0) <= touches[t]

\* A recovery code exists only on a device that has a passkey: no order of
\* registrations, failures and restarts leaves the code as the only way in.
CodeNeedsPasskey == hash # None => creds # {}

\* A recovery code that has been taken is gone for good: whatever fails, is
\* regenerated or races, no request that comes later can take it again.
CodeGone == \A k \in Codes : uses[k] > 0 => hash # k

-----------------------------------------------------------------------------
(* What the comments promise without qualification *)

\* The recovery code is "single-use: burn it before the session exists".
CodeUsedOnce == \A k \in Codes : uses[k] <= 1

\* The code shown last is the stored one until it has been used.
ShownCodeWorks ==
    (shown # None /\ uses[shown] = 0 /\ \A c \in Clients : pc[c] = "idle") => hash = shown
=============================================================================
