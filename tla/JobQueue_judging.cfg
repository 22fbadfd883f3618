\* One submission and one evaluation, two workers, one request.
SPECIFICATION Spec
CONSTANTS
    Submits = {sub}
    Runs = {}
    Evals = {eval}
    Workers = {w1, w2}
    Polls = {p1}
    MaxCases = 2
    DefaultTestCases = 1
    NoJob = NoJob
    CR = CR
    LF = LF
    Digit = Digit
    Tab = Tab
    Characters = {CR, LF, Tab, Digit}
    Blanks = {Tab}
    StdoutLimit = 3
    Finite <- MCFinite
    Value <- MCValue
    MaxText = 4
INVARIANTS
    TypeOK
    ClaimExclusive
    FinishedHasVerdict
    VerdictIsReal
    RewardEarned
    ScoreMatches
PROPERTIES
    ClaimedOnce
    FirstComeFirstServed
    ImplementsJudging
    PolledJobFinishes
    PendingIsServed
