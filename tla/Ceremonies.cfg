SPECIFICATION Spec
CONSTANTS
    c1 = c1
    c2 = c2
    t1 = t1
    t2 = t2
    h1 = h1
    h2 = h2
    r1 = r1
    r2 = r2
    k1 = k1
    Clients <- TwoClients
    Ops = {"registerBegin", "registerFinish", "loginBegin", "loginFinish", "loginRecovery", "stepUpBegin", "stepUpFinish", "recoveryRegenerate"}
    Creds = {k1}
    Tokens <- TwoTokens
    Challenges <- TwoChallenges
    Codes <- TwoCodes
    None = None
    ChallengeTTL = 1
    StepUpTTL = 1
SYMMETRY Symmetric
INVARIANTS TypeOK ChallengeOnce CreditPerTouch CodeNeedsPasskey CodeGone
