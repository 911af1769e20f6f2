SPECIFICATION Spec
CONSTANTS
    Jobs = {j1, j2}
    Workers = {w1, w2}
    NoJob = NoJob
    Names = {n1, n2}
    MaxExecutions = 3
INVARIANTS CompletedMeansSaved
