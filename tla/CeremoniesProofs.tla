-------------------------- MODULE CeremoniesProofs --------------------------
(* One ceremony per challenge, one destructive action per touch, and no     *)
(* recovery code without a passkey: for every number of concurrent requests *)
(* and every timeout.                                                       *)
EXTENDS Ceremonies, TLAPS

\* What a request carries at the steps that use it.
RequestsOK ==
    \A c \in Clients :
        /\ pc[c] = "put" => Op(c) = "registerFinish"
        /\ pc[c] \in {"compare", "burn"} => Op(c) = "loginRecovery"
        /\ pc[c] = "provisioned" => Op(c) # "stepUpFinish"
        /\ Op(c) = "registerFinish" => req[c].cred \in Creds
        /\ Op(c) = "loginRecovery" => req[c].code \in Codes
        /\ pc[c] \in {"grant", "spend"} => req[c].tok \in Tokens
        /\ (Op(c) = "stepUpFinish" /\ pc[c] \in {"consume", "verify"}) => req[c].tok \in Tokens

\* A challenge is either still in the set, or accepted, or neither.
ChallengeInv ==
    \A k \in Challenges :
        /\ chals[k] # None => k \in minted /\ accepted[k] = 0
        /\ accepted[k] # 0 => k \in minted /\ accepted[k] = 1

\* Whoever is let in, or is about to be, has been let in by a passkey or by a
\* code that came after one.
PasskeyFirst ==
    (\/ live # {}
     \/ hash # None
     \/ \E c \in Clients : pc[c] \in {"grant", "spend", "mint", "login", "burn"})
    => creds # {}

\* Requests carry codes that were shown, and a code that was taken is not the
\* stored one.
CodeInv ==
    /\ \A c \in Clients : req[c].code \in minted \cup {None}
    /\ \A k \in Codes : uses[k] > 0 => k \in minted /\ hash # k

CeremonyInv == /\ TypeOK /\ RequestsOK /\ ChallengeInv /\ CreditPerTouch
               /\ PasskeyFirst /\ CodeInv

LEMMA InitInv == Init => CeremonyInv
BY TTLAssumption, NoneAssumption
DEF Init, CeremonyInv, TypeOK, RequestsOK, ChallengeInv, CreditPerTouch, PasskeyFirst, CodeInv,
    Request, NoRequest, AllOps, Op

-----------------------------------------------------------------------------
(* Types *)

LEMMA SetTypes ==
    ASSUME NEW K, NEW ttl \in Nat, NEW m \in [K -> (-1..ttl) \cup {None}], NEW k
    PROVE  /\ Granted(m, k, ttl) \in [K -> (-1..ttl) \cup {None}]
           /\ Removed(m, k) \in [K -> (-1..ttl) \cup {None}]
           /\ Older(m) \in [K -> (-1..ttl) \cup {None}]
<1>1. Collected(m) \in [K -> (-1..ttl) \cup {None}]
  BY DEF Collected
<1>2. Granted(m, k, ttl) \in [K -> (-1..ttl) \cup {None}]
  <2>1. ttl \in (-1..ttl) \cup {None}
    OBVIOUS
  <2>. QED
    BY <1>1, <2>1 DEF Granted
<1>3. Removed(m, k) \in [K -> (-1..ttl) \cup {None}]
  BY DEF Removed
<1>4. \A x \in K : (m[x] # None /\ m[x] >= 0) => m[x] - 1 \in -1..ttl
  OBVIOUS
<1>5. Older(m) \in [K -> (-1..ttl) \cup {None}]
  BY <1>4 DEF Older
<1>. QED
  BY <1>2, <1>3, <1>5

LEMMA AnswerType ==
    ASSUME TypeOK, NEW c \in Clients, Answer(c)
    PROVE  /\ pc' \in [Clients -> {"idle", "provisioned", "session", "issue", "consume", "verify",
                           "put", "mint", "login", "compare", "burn", "grant", "spend"}]
           /\ req' \in [Clients -> Request]
           /\ first' \in SUBSET Clients
           /\ pc'[c] = "idle" /\ req'[c] = NoRequest
           /\ \A d \in Clients : d # c => pc'[d] = pc[d] /\ req'[d] = req[d]
<1>1. NoRequest \in Request
  BY DEF NoRequest, Request
<1>. QED
  BY <1>1 DEF Answer, Goto, TypeOK

LEMMA NextType ==
    ASSUME TypeOK, RequestsOK, [Next]_vars
    PROVE  TypeOK'
<1> USE DEF store, sets, process, history, Continue, Goto
<1>a. \A k : /\ Granted(chals, k, ChallengeTTL) \in [Challenges -> (-1..ChallengeTTL) \cup {None}]
             /\ Removed(chals, k) \in [Challenges -> (-1..ChallengeTTL) \cup {None}]
             /\ Older(chals) \in [Challenges -> (-1..ChallengeTTL) \cup {None}]
  BY SetTypes, TTLAssumption DEF TypeOK
<1>b. \A k : /\ Granted(stepUps, k, StepUpTTL) \in [Tokens -> (-1..StepUpTTL) \cup {None}]
             /\ Removed(stepUps, k) \in [Tokens -> (-1..StepUpTTL) \cup {None}]
             /\ Older(stepUps) \in [Tokens -> (-1..StepUpTTL) \cup {None}]
  BY SetTypes, TTLAssumption DEF TypeOK
<1>1. ASSUME NEW c \in Clients, NEW r \in Requests, Call(c, r)
      PROVE  TypeOK'
  <2>1. r \in Request
    BY OpsAssumption DEF Requests, Request, TypeOK
  <2>2. Start(r.op) \in {"provisioned", "consume", "compare", "session"}
    BY DEF Start
  <2>. QED
    BY <1>1, <2>1, <2>2 DEF Call, TypeOK
<1>2. ASSUME NEW c \in Clients, Provisioned(c) \/ CheckSession(c) \/ VerifyAssertion(c)
                                \/ CompareCode(c)
      PROVE  TypeOK'
  BY <1>2, AnswerType DEF Provisioned, CheckSession, VerifyAssertion, CompareCode, TypeOK
<1>3. ASSUME NEW c \in Clients, IssueChallenge(c)
      PROVE  TypeOK'
  <2>1. chals' \in [Challenges -> (-1..ChallengeTTL) \cup {None}]
    BY <1>a, <1>3 DEF IssueChallenge, TypeOK
  <2>. QED
    BY <1>3, <2>1, AnswerType DEF IssueChallenge, TypeOK
<1>4. ASSUME NEW c \in Clients, VerifyCeremony(c)
      PROVE  TypeOK'
  <2>1. chals' \in [Challenges -> (-1..ChallengeTTL) \cup {None}]
    BY <1>a, <1>4 DEF VerifyCeremony, TypeOK
  <2>2. accepted' \in [Challenges -> Nat]
    BY <1>4 DEF VerifyCeremony, TypeOK
  <2>. QED
    BY <1>4, <2>1, <2>2, AnswerType DEF VerifyCeremony, TypeOK
<1>5. ASSUME NEW c \in Clients, PutCredential(c)
      PROVE  TypeOK'
  BY <1>5, AnswerType DEF PutCredential, TypeOK, RequestsOK
<1>6. ASSUME NEW c \in Clients, MintCode(c) \/ Login(c)
      PROVE  TypeOK'
  BY <1>6, AnswerType DEF MintCode, Login, TypeOK
<1>7. ASSUME NEW c \in Clients, BurnCode(c)
      PROVE  TypeOK'
  BY <1>7, AnswerType DEF BurnCode, TypeOK
<1>8. ASSUME NEW c \in Clients, GrantCredit(c)
      PROVE  TypeOK'
  <2>1. stepUps' \in [Tokens -> (-1..StepUpTTL) \cup {None}]
    BY <1>b, <1>8 DEF GrantCredit, TypeOK
  <2>2. touches' \in [Tokens -> Nat]
    <3>1. req[c].tok \in Tokens
      BY <1>8 DEF GrantCredit, RequestsOK
    <3>. QED
      BY <1>8, <3>1 DEF GrantCredit, TypeOK
  <2>3. Answer(c) /\ UNCHANGED <<store, chals, live, minted, accepted, spent, shown, uses>>
    BY <1>8 DEF GrantCredit
  <2>. QED
    BY <2>1, <2>2, <2>3, AnswerType DEF TypeOK
<1>9. ASSUME NEW c \in Clients, SpendCredit(c)
      PROVE  TypeOK'
  <2>1. stepUps' \in [Tokens -> (-1..StepUpTTL) \cup {None}]
    BY <1>b, <1>9 DEF SpendCredit, TypeOK
  <2>2. spent' \in [Tokens -> Nat]
    BY <1>9 DEF SpendCredit, TypeOK
  <2>. QED
    BY <1>9, <2>1, <2>2, AnswerType DEF SpendCredit, TypeOK
<1>10. CASE Tick
  BY <1>a, <1>b, <1>10 DEF Tick, TypeOK
<1>11. ASSUME NEW t \in Tokens, EndSession(t)
       PROVE  TypeOK'
  BY <1>11 DEF EndSession, TypeOK
<1>12. CASE Crash
  <2>1. NoRequest \in Request
    BY DEF NoRequest, Request
  <2>. QED
    BY <1>12, <2>1 DEF Crash, TypeOK
<1>13. CASE UNCHANGED vars
  BY <1>13 DEF vars, TypeOK
<1>. QED
  BY <1>1, <1>2, <1>3, <1>4, <1>5, <1>6, <1>7, <1>8, <1>9, <1>10, <1>11, <1>12, <1>13
  DEF Next, Step

-----------------------------------------------------------------------------
(* Requests *)

LEMMA NextRequests ==
    ASSUME TypeOK, RequestsOK, [Next]_vars
    PROVE  RequestsOK'
<1> USE DEF store, sets, process, history
<1>1. ASSUME NEW c \in Clients, Answer(c)
      PROVE  RequestsOK'
  BY <1>1, AnswerType DEF RequestsOK, Op, NoRequest
<1>2. ASSUME NEW c \in Clients, NEW l, Continue(c, l),
             /\ l = "put" => Op(c) = "registerFinish"
             /\ l \in {"compare", "burn"} => Op(c) = "loginRecovery"
             /\ l # "provisioned"
             /\ l \in {"grant", "spend"} => req[c].tok \in Tokens
             /\ (Op(c) = "stepUpFinish" /\ l \in {"consume", "verify"}) => req[c].tok \in Tokens
      PROVE  RequestsOK'
  BY <1>2 DEF RequestsOK, Op, Continue, Goto, TypeOK
<1>3. ASSUME NEW c \in Clients, NEW r \in Requests, Call(c, r)
      PROVE  RequestsOK'
  <2>1. /\ pc'[c] = Start(r.op) /\ req'[c] = r
        /\ \A d \in Clients : d # c => pc'[d] = pc[d] /\ req'[d] = req[d]
    BY <1>3 DEF Call, Goto, TypeOK
  <2>2. /\ r.op = "registerFinish" => r.cred \in Creds
        /\ r.op = "loginRecovery" => r.code \in Codes
        /\ Start(r.op) \in {"provisioned", "consume", "compare", "session"}
        /\ Start(r.op) = "compare" => r.op = "loginRecovery"
        /\ Start(r.op) = "provisioned" => r.op # "stepUpFinish"
        /\ Start(r.op) = "consume" => r.op # "stepUpFinish"
    BY DEF Requests, Start
  <2>. QED
    BY <2>1, <2>2 DEF RequestsOK, Op
<1>4. ASSUME NEW c \in Clients, Provisioned(c)
      PROVE  RequestsOK'
  <2>1. CASE \E l : first' = first \cup {c} /\ Goto(c, l) /\ UNCHANGED req
                    /\ l \in {"issue", "consume"} /\ Op(c) # "stepUpFinish"
    BY <2>1 DEF RequestsOK, Op, Goto, TypeOK
  <2>. QED
    BY <1>1, <1>2, <1>4, <2>1 DEF Provisioned, RequestsOK
<1>5. ASSUME NEW c \in Clients, CheckSession(c)
      PROVE  RequestsOK'
  <2>1. req[c].tok \in live => req[c].tok \in Tokens
    BY DEF TypeOK
  <2>. QED
    BY <1>1, <1>2, <1>5, <2>1 DEF CheckSession
<1>6. ASSUME NEW c \in Clients, IssueChallenge(c) \/ Login(c) \/ GrantCredit(c)
      PROVE  RequestsOK'
  BY <1>1, <1>6 DEF IssueChallenge, Login, GrantCredit
<1>7. ASSUME NEW c \in Clients, VerifyCeremony(c)
      PROVE  RequestsOK'
  BY <1>1, <1>2, <1>7 DEF VerifyCeremony, RequestsOK
<1>8. ASSUME NEW c \in Clients, VerifyAssertion(c)
      PROVE  RequestsOK'
  BY <1>1, <1>2, <1>8 DEF VerifyAssertion, RequestsOK
<1>9. ASSUME NEW c \in Clients, PutCredential(c) \/ MintCode(c) \/ BurnCode(c) \/ SpendCredit(c)
      PROVE  RequestsOK'
  BY <1>1, <1>2, <1>9 DEF PutCredential, MintCode, BurnCode, SpendCredit
<1>10. ASSUME NEW c \in Clients, CompareCode(c)
       PROVE  RequestsOK'
  BY <1>1, <1>2, <1>10 DEF CompareCode, RequestsOK
<1>11. CASE Crash
  BY <1>11 DEF Crash, RequestsOK, Op, NoRequest
<1>12. CASE Tick \/ (\E t \in Tokens : EndSession(t)) \/ UNCHANGED vars
  BY <1>12 DEF Tick, EndSession, vars, RequestsOK, Op
<1>. QED
  BY <1>3, <1>4, <1>5, <1>6, <1>7, <1>8, <1>9, <1>10, <1>11, <1>12 DEF Next, Step

-----------------------------------------------------------------------------
(* Challenges *)

LEMMA NextChallenges ==
    ASSUME TypeOK, ChallengeInv, [Next]_vars
    PROVE  ChallengeInv'
<1> USE DEF store, sets, process, history
<1>1. ASSUME NEW c \in Clients, IssueChallenge(c)
      PROVE  ChallengeInv'
  <2>1. ASSUME NEW k \in Challenges \ minted, chals' = Granted(chals, k, ChallengeTTL),
               minted' = minted \cup {k}, accepted' = accepted
        PROVE  ChallengeInv'
    <3>1. \A x \in Challenges : x # k /\ chals'[x] # None => chals[x] # None
      BY <2>1 DEF Granted, Collected, TypeOK
    <3>. QED
      BY <2>1, <3>1 DEF ChallengeInv
  <2>. QED
    BY <1>1, <2>1 DEF IssueChallenge, ChallengeInv
<1>2. ASSUME NEW c \in Clients, VerifyCeremony(c)
      PROVE  ChallengeInv'
  <2>1. \A x \in Challenges : chals'[x] # None => chals[x] # None /\ x # req[c].chal
    BY <1>2, NoneAssumption DEF VerifyCeremony, Removed, TypeOK
  <2>2. CASE accepted' = accepted
    BY <1>2, <2>1, <2>2 DEF VerifyCeremony, ChallengeInv
  <2>3. CASE /\ req[c].chal # None /\ Fresh(chals, req[c].chal)
             /\ accepted' = [accepted EXCEPT ![req[c].chal] = @ + 1]
    <3>1. req[c].chal \in Challenges
      BY <2>3 DEF TypeOK, Request
    <3>2. accepted[req[c].chal] = 0 /\ req[c].chal \in minted
      BY <2>3, <3>1 DEF Fresh, ChallengeInv
    <3>3. \A x \in Challenges : accepted'[x] = IF x = req[c].chal THEN 1 ELSE accepted[x]
      BY <2>3, <3>1, <3>2 DEF TypeOK
    <3>. QED
      BY <1>2, <2>1, <3>2, <3>3 DEF VerifyCeremony, ChallengeInv
  <2>. QED
    BY <1>2, <2>2, <2>3 DEF VerifyCeremony
<1>3. ASSUME UNCHANGED <<chals, accepted>>, minted \subseteq minted'
      PROVE  ChallengeInv'
  BY <1>3 DEF ChallengeInv
<1>4. ASSUME NEW c \in Clients, MintCode(c) \/ Login(c)
      PROVE  ChallengeInv'
  BY <1>3, <1>4 DEF MintCode, Login
<1>5. ASSUME NEW c \in Clients, Provisioned(c) \/ CheckSession(c) \/ VerifyAssertion(c)
                 \/ PutCredential(c) \/ CompareCode(c) \/ BurnCode(c) \/ GrantCredit(c)
                 \/ SpendCredit(c)
      PROVE  ChallengeInv'
  BY <1>3, <1>5 DEF Provisioned, CheckSession, VerifyAssertion, PutCredential, CompareCode,
                    BurnCode, GrantCredit, SpendCredit
<1>6. CASE \E c \in Clients, r \in Requests : Call(c, r)
  BY <1>3, <1>6 DEF Call
<1>7. CASE Tick
  <2>1. \A x \in Challenges : chals'[x] # None => chals[x] # None
    BY <1>7 DEF Tick, Older, TypeOK
  <2>. QED
    BY <1>7, <2>1 DEF Tick, ChallengeInv
<1>8. CASE Crash
  BY <1>8 DEF Crash, ChallengeInv
<1>9. CASE (\E t \in Tokens : EndSession(t)) \/ UNCHANGED vars
  BY <1>3, <1>9 DEF EndSession, vars
<1>. QED
  BY <1>1, <1>2, <1>4, <1>5, <1>6, <1>7, <1>8, <1>9 DEF Next, Step

-----------------------------------------------------------------------------
(* Credits *)

LEMMA NextCredits ==
    ASSUME TypeOK, RequestsOK, CreditPerTouch, [Next]_vars
    PROVE  CreditPerTouch'
<1> USE DEF store, sets, process, history
<1>1. ASSUME NEW c \in Clients, GrantCredit(c)
      PROVE  CreditPerTouch'
  <2>1. req[c].tok \in Tokens
    BY <1>1 DEF GrantCredit, RequestsOK
  <2>2. /\ touches'[req[c].tok] = touches[req[c].tok] + 1
        /\ \A t \in Tokens : t # req[c].tok => touches'[t] = touches[t]
        /\ spent' = spent
    BY <1>1, <2>1 DEF GrantCredit, TypeOK
  <2>3. \A t \in Tokens : t # req[c].tok /\ stepUps'[t] # None => stepUps[t] # None
    BY <1>1, <2>1 DEF GrantCredit, Granted, Collected, TypeOK
  <2>4. \A t \in Tokens : touches[t] \in Nat /\ spent[t] \in Nat
    BY DEF TypeOK
  <2>. QED
    BY <2>1, <2>2, <2>3, <2>4 DEF CreditPerTouch
<1>2. ASSUME NEW c \in Clients, SpendCredit(c)
      PROVE  CreditPerTouch'
  <2>1. req[c].tok \in Tokens
    BY <1>2 DEF SpendCredit, RequestsOK
  <2>2. /\ stepUps'[req[c].tok] = None
        /\ \A t \in Tokens : t # req[c].tok => stepUps'[t] = stepUps[t]
        /\ touches' = touches
    BY <1>2, <2>1 DEF SpendCredit, Removed, TypeOK
  <2>3. \/ spent' = spent
        \/ /\ stepUps[req[c].tok] # None
           /\ \A t \in Tokens : spent'[t] = IF t = req[c].tok THEN spent[t] + 1 ELSE spent[t]
    BY <1>2, <2>1 DEF SpendCredit, Fresh, TypeOK
  <2>4. \A t \in Tokens : touches[t] \in Nat /\ spent[t] \in Nat
    BY DEF TypeOK
  <2>. QED
    BY <2>1, <2>2, <2>3, <2>4 DEF CreditPerTouch
<1>3. ASSUME UNCHANGED <<touches, spent>>, \A t \in Tokens : stepUps'[t] # None => stepUps[t] # None
      PROVE  CreditPerTouch'
  <2>1. \A t \in Tokens : touches[t] \in Nat /\ spent[t] \in Nat
    BY DEF TypeOK
  <2>. QED
    BY <1>3, <2>1 DEF CreditPerTouch
<1>4. CASE Tick
  <2>1. \A t \in Tokens : stepUps'[t] # None => stepUps[t] # None
    BY <1>4 DEF Tick, Older, TypeOK
  <2>. QED
    BY <1>3, <1>4, <2>1 DEF Tick
<1>5. CASE Crash
  BY <1>3, <1>5 DEF Crash
<1>6. ASSUME NEW c \in Clients, Provisioned(c) \/ CheckSession(c) \/ IssueChallenge(c)
                 \/ VerifyCeremony(c) \/ VerifyAssertion(c) \/ PutCredential(c) \/ MintCode(c)
                 \/ Login(c) \/ CompareCode(c) \/ BurnCode(c)
      PROVE  CreditPerTouch'
  BY <1>3, <1>6 DEF Provisioned, CheckSession, IssueChallenge, VerifyCeremony, VerifyAssertion,
                    PutCredential, MintCode, Login, CompareCode, BurnCode
<1>7. CASE (\E c \in Clients, r \in Requests : Call(c, r)) \/ (\E t \in Tokens : EndSession(t))
           \/ UNCHANGED vars
  BY <1>3, <1>7 DEF Call, EndSession, vars
<1>. QED
  BY <1>1, <1>2, <1>4, <1>5, <1>6, <1>7 DEF Next, Step

-----------------------------------------------------------------------------
(* Passkeys *)

LEMMA NextPasskey ==
    ASSUME TypeOK, RequestsOK, PasskeyFirst, [Next]_vars
    PROVE  PasskeyFirst'
<1> USE DEF store, sets, process, history
<1>1. ASSUME creds # {}, creds \subseteq creds'
      PROVE  PasskeyFirst'
  BY <1>1 DEF PasskeyFirst
<1>2. CASE creds # {}
  <2>1. creds \subseteq creds'
    BY DEF Next, Step, Call, Provisioned, CheckSession, IssueChallenge, VerifyCeremony,
           VerifyAssertion, PutCredential, MintCode, Login, CompareCode, BurnCode, GrantCredit,
           SpendCredit, Tick, EndSession, Crash, vars
  <2>. QED
    BY <1>1, <1>2, <2>1
<1>3. CASE creds = {}
  <2>1. /\ live = {} /\ hash = None
        /\ \A c \in Clients : pc[c] \notin {"grant", "spend", "mint", "login", "burn"}
    BY <1>3 DEF PasskeyFirst
  <2>2. ASSUME NEW c \in Clients, NEW l, pc' = [pc EXCEPT ![c] = l], live' = {}, hash' = None,
               l \notin {"grant", "spend", "mint", "login", "burn"}
        PROVE  PasskeyFirst'
    BY <2>1, <2>2 DEF PasskeyFirst, TypeOK
  <2>3. ASSUME NEW c \in Clients, Provisioned(c) \/ CheckSession(c) \/ IssueChallenge(c)
                   \/ VerifyCeremony(c) \/ VerifyAssertion(c) \/ CompareCode(c)
        PROVE  PasskeyFirst'
    BY <1>3, <2>1, <2>2, <2>3 DEF Provisioned, CheckSession, IssueChallenge, VerifyCeremony,
       VerifyAssertion, CompareCode, Answer, Continue, Goto
  <2>4. ASSUME NEW c \in Clients, PutCredential(c)
        PROVE  PasskeyFirst'
    BY <2>1, <2>2, <2>4 DEF PutCredential, PasskeyFirst, Answer, Goto
  <2>5. ASSUME NEW c \in Clients, NEW r \in Requests, Call(c, r)
        PROVE  PasskeyFirst'
    <3>1. Start(r.op) \in {"provisioned", "consume", "compare", "session"}
      BY DEF Start
    <3>. QED
      BY <2>1, <2>2, <2>5, <3>1 DEF Call, Goto
  <2>6. CASE Tick \/ Crash \/ (\E t \in Tokens : EndSession(t)) \/ UNCHANGED vars
    BY <2>1, <2>6 DEF Tick, Crash, EndSession, vars, PasskeyFirst
  <2>. QED
    BY <2>1, <2>3, <2>4, <2>5, <2>6
    DEF Next, Step, MintCode, Login, BurnCode, GrantCredit, SpendCredit
<1>. QED
  BY <1>2, <1>3

-----------------------------------------------------------------------------
(* Recovery codes *)

LEMMA NextCodes ==
    ASSUME TypeOK, RequestsOK, CodeInv, [Next]_vars
    PROVE  CodeInv'
<1> USE DEF store, sets, process, history
<1> DEFINE Sent == \A x \in Clients : req'[x].code \in minted' \cup {None}
<1>1. ASSUME NEW c \in Clients, Answer(c) \/ UNCHANGED req, minted \subseteq minted'
      PROVE  Sent
  BY <1>1 DEF Answer, NoRequest, CodeInv, TypeOK
<1>2. ASSUME Sent, UNCHANGED uses, hash' \in {hash, None}, minted \subseteq minted'
      PROVE  CodeInv'
  BY <1>2, NoneAssumption DEF CodeInv
<1>3. ASSUME NEW c \in Clients, MintCode(c)
      PROVE  CodeInv'
  <2>1. Sent
    BY <1>1, <1>3 DEF MintCode, Continue
  <2>2. CASE UNCHANGED <<hash, minted>>
    BY <1>2, <1>3, <2>1, <2>2 DEF MintCode
  <2>3. ASSUME NEW k \in Codes \ minted, hash' = k, minted' = minted \cup {k}
        PROVE  CodeInv'
    BY <1>3, <2>1, <2>3 DEF MintCode, CodeInv
  <2>. QED
    BY <1>3, <2>2, <2>3 DEF MintCode
<1>4. ASSUME NEW c \in Clients, BurnCode(c)
      PROVE  CodeInv'
  <2>1. Sent
    BY <1>1, <1>4 DEF BurnCode, Continue
  <2>2. CASE UNCHANGED <<hash, uses>>
    BY <1>2, <1>4, <2>1, <2>2 DEF BurnCode
  <2>3. CASE hash' = None /\ uses' = [uses EXCEPT ![req[c].code] = @ + 1]
    <3>1. req[c].code \in Codes /\ req[c].code \in minted
      BY <1>4, NoneAssumption DEF BurnCode, RequestsOK, CodeInv
    <3>2. \A k \in Codes : uses'[k] > 0 => uses[k] > 0 \/ k = req[c].code
      BY <2>3, <3>1 DEF TypeOK
    <3>. QED
      BY <1>4, <2>1, <2>3, <3>1, <3>2, NoneAssumption DEF BurnCode, CodeInv
  <2>. QED
    BY <1>4, <2>2, <2>3 DEF BurnCode
<1>5. ASSUME NEW c \in Clients, Provisioned(c) \/ CheckSession(c) \/ IssueChallenge(c)
                 \/ VerifyCeremony(c) \/ VerifyAssertion(c) \/ PutCredential(c) \/ Login(c)
                 \/ CompareCode(c) \/ GrantCredit(c) \/ SpendCredit(c)
      PROVE  CodeInv'
  <2>1. (Answer(c) \/ UNCHANGED req) /\ minted \subseteq minted'
    BY <1>5 DEF Provisioned, CheckSession, IssueChallenge, VerifyCeremony, VerifyAssertion,
                PutCredential, Login, CompareCode, GrantCredit, SpendCredit, Continue
  <2>2. UNCHANGED <<hash, uses>>
    BY <1>5 DEF Provisioned, CheckSession, IssueChallenge, VerifyCeremony, VerifyAssertion,
                PutCredential, Login, CompareCode, GrantCredit, SpendCredit
  <2>. QED
    BY <1>1, <1>2, <2>1, <2>2
<1>6. ASSUME NEW c \in Clients, NEW r \in Requests, Call(c, r)
      PROVE  CodeInv'
  <2>1. r.code \in minted \cup {None}
    BY DEF Requests
  <2>2. Sent
    BY <1>6, <2>1 DEF Call, CodeInv, TypeOK
  <2>. QED
    BY <1>2, <1>6, <2>2 DEF Call
<1>7. CASE Crash
  BY <1>2, <1>7 DEF Crash, NoRequest
<1>8. CASE Tick \/ (\E t \in Tokens : EndSession(t)) \/ UNCHANGED vars
  BY <1>8 DEF Tick, EndSession, vars, CodeInv
<1>. QED
  BY <1>3, <1>4, <1>5, <1>6, <1>7, <1>8 DEF Next, Step

-----------------------------------------------------------------------------
(* Theorems *)

LEMMA CeremonyInvariant == Spec => []CeremonyInv
<1>1. CeremonyInv /\ [Next]_vars => CeremonyInv'
  BY NextType, NextRequests, NextChallenges, NextCredits, NextPasskey, NextCodes DEF CeremonyInv
<1>. QED
  BY InitInv, <1>1, PTL DEF Spec

\* The buckets, sets and requests of authflow.go keep their types.
THEOREM CeremoniesTypeCorrect == Spec => []TypeOK
<1>1. CeremonyInv => TypeOK
  BY DEF CeremonyInv
<1>. QED
  BY CeremonyInvariant, <1>1, PTL

\* ttlSet.consume answers once per challenge, whatever requests race for it.
THEOREM OneCeremonyPerChallenge == Spec => []ChallengeOnce
<1>1. CeremonyInv => ChallengeOnce
  BY DEF CeremonyInv, ChallengeInv, ChallengeOnce
<1>. QED
  BY CeremonyInvariant, <1>1, PTL

\* requireStepUp never lets a session act more often than stepUpFinish touched it.
THEOREM OneActionPerTouch == Spec => []CreditPerTouch
<1>1. CeremonyInv => CreditPerTouch
  BY DEF CeremonyInv
<1>. QED
  BY CeremonyInvariant, <1>1, PTL

\* registerFinish stores the passkey before the hash, and nothing removes one.
THEOREM CodeComesAfterPasskey == Spec => []CodeNeedsPasskey
<1>1. CeremonyInv => CodeNeedsPasskey
  BY DEF CeremonyInv, PasskeyFirst, CodeNeedsPasskey
<1>. QED
  BY CeremonyInvariant, <1>1, PTL

\* loginRecovery: once a code has been taken, by however many requests that had
\* compared it, no hash of it is left for a later one.
THEOREM TakenCodeIsGone == Spec => []CodeGone
<1>1. CeremonyInv => CodeGone
  BY DEF CeremonyInv, CodeInv, CodeGone
<1>. QED
  BY CeremonyInvariant, <1>1, PTL
=============================================================================
