\* A decision with an instant, or with a window that has no end.
SPECIFICATION MCSpec
CONSTANTS
    Handles = {"enforce", "legacy_compat"}
    Actors = {a1, a2}
    Refs = {e1}
    Objects = {o1}
    Documents = {d1, d2}
    MaxMemories = 2
    MaxLinks = 3
    s1 = s1
    s2 = s2
    k1 = k1
    k2 = k2
    x = x
    y = y
    Rules = {rule}
    MaxJudgments = 2
    MaxReceipts = 3
    Windows <- ThreeWindows
    MaxTime = 2
    MaxRevisions = 2
    MaxDecisions = 1
    MaxWait = 1
INVARIANT ImpactIsExact
CHECK_DEADLOCK FALSE
