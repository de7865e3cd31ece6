SPECIFICATION MCSpec
CONSTANTS
    Parts = {"review"}
    Stores = {a, b}
    Revisions = 2
    Records = 2
    Runs = 2
    Crashes = 1
    ana = ana
    ben = ben
    People = {ana, ben}
    Credential <- AccountantAndController
    Drafts <- EntryAndClose
    CloseTopic <- Close
    Refs = {r1}
    LegacyApprove = FALSE
    MaxMemories = 2
    MaxCalls = 1
    Requests = {q1}
    NoSheet = NoSheet
SYMMETRY Symmetry
INVARIANTS OneCurrentRevision LogReplaysToStatus QueueShowsCurrent DecidedAsReviewed
PROPERTY ClosedPeriodIsFrozen
CHECK_DEADLOCK FALSE
