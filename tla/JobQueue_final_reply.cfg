\* The data model document on the polling answer.
SPECIFICATION Spec
CONSTANTS
    Submits = {sub}
    Runs = {}
    Evals = {}
    Workers = {w1}
    Polls = {p1}
    MaxCases = 1
    DefaultTestCases = 1
    NoJob = NoJob
    CR = CR
    LF = LF
    Digit = Digit
    Tab = Tab
    Characters = {CR, LF, Tab, Digit}
    Blanks = {Tab}
    StdoutLimit = 3
    Finite <- MCFinite
    Value <- MCValue
    MaxText = 4
INVARIANTS
    FinalReplyHasVerdict
