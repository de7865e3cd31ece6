\* A confirmed judgment is corrected.
SPECIFICATION Spec
CONSTANTS Actors = {a1}  Refs = {e1, e2}  Rules = {}
          MaxMemories = 0  MaxJudgments = 2  MaxReceipts = 4  MaxRemoved = 0
INVARIANT CorrectedJudgmentVerifies
CHECK_DEADLOCK FALSE
