SPECIFICATION Spec
CONSTANTS
    Jobs = {j1}
    Workers = {w1}
    NoJob = NoJob
    Names = {n1, n2}
    MaxExecutions = 2
INVARIANTS NoTwins
