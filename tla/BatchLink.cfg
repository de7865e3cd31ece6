\* A batch of links under a binding, on a memory that nothing else happened to.
SPECIFICATION Spec
CONSTANTS Actors = {a1, a2}  Refs = {e1, e2}  Rules = {rule}
          MaxMemories = 2  MaxJudgments = 0  MaxReceipts = 3  MaxRemoved = 0
INVARIANT LinkedEvidenceVerifies
CHECK_DEADLOCK FALSE
