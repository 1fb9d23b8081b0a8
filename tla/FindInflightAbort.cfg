\* overlap_loop: an abort while the request's batch is in flight.
CONSTANTS
    PageSize = 1
    Req = {1, 2, 3}
    Prompt <- SharedPrompts
    MaxTokens <- SharedOutputs
    IgnoreEos = {}
    Sampled = {0, 1}
    Eos = 0
    Abortable = {1, 2}
    NumPages = 8
    MaxRunningReq = 2
    MaxSeqLen = 6
    PrefillBudget = 4
    Overlap = TRUE
    CacheTypes = {"radix"}
SPECIFICATION FairSpec
INVARIANTS
    RowsPartitioned
\* The loop blocks when no message is left.
CHECK_DEADLOCK FALSE
