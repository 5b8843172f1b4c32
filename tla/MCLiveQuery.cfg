SPECIFICATION MCSpec
CONSTANTS
    File = {f1, f2}
    Inside = {f1}
    QueryId = {q1, q2}
    Gated = FALSE
    MaxOpens = 2
    MaxChanges = 2
    MaxRequests = 3
    fQueryId = q1
INVARIANTS NoFreedHandlerRuns  NothingLeaks 
PROPERTIES DestructorReturns CloseReturns
