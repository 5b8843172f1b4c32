SPECIFICATION MCSpec
CONSTANTS
    File = {f1, f2}
    Inside = {f1}
    QueryId = {q1}
    Gated = TRUE
    MaxOpens = 1
    MaxChanges = 1
    MaxRequests = 1
    fQueryId = q1
PROPERTIES AnsweredQueriesAreLive
