SPECIFICATION MCSpec
CONSTANTS
    ana = ana
    ben = ben
    bank = bank
    book = book
    march = march
    april = april
    People = {ana, ben}
    Credential <- SeniorAndTax
    Tuples = {t1, t2}
    Proposers = {bot1, bot2}
    Requests = {q1, q2, q3, q4, q5, q6}
    MaxJudgments = 4
    Reviewers = {ana, ben}
    Window = 1
    ApprovalThreshold = 1
    ConsecutiveThreshold = 3
    MaxDecisions = 4
    MaxTime = 3
SYMMETRY Symmetry
INVARIANTS TypesOK OpenCanBeDecided CorrectionsLeaveTrail RetryFindsOwnProposal EdgesFollowConfirmations AlertsMatchRuns
PROPERTIES ClosedPeriodIsFrozen ImplementsAdjudication PairsAreAdjudicated
CHECK_DEADLOCK FALSE
