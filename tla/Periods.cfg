SPECIFICATION MCSpec
CONSTANTS
    Parts = {"review", "calm", "busy"}
    Stores = {a, b}
    Revisions = 2
    Records = 2
    Runs = 2
    Crashes = 1
    ana = ana
    ben = ben
    People = {ana, ben}
    Credential <- AccountantAndController
    Drafts <- EntryAndClose
    CloseTopic <- Close
    Refs = {}
    LegacyApprove = FALSE
    MaxMemories = 2
    MaxCalls = 1
    Requests = {q1, q2}
    NoSheet = NoSheet
SYMMETRY Symmetry
INVARIANTS TypesOK ClosedByApprovedClose RunsConverge
CHECK_DEADLOCK FALSE
