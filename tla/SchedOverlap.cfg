\* overlap_loop, shared prompts, chunks of two tokens, eviction under pressure.
CONSTANTS
    PageSize = 1
    Req = {1, 2, 3}
    Prompt <- SharedPrompts
    MaxTokens <- SharedOutputs
    IgnoreEos = {}
    Sampled = {0, 1}
    Eos = 0
    Abortable = {}
    NumPages = 6
    MaxRunningReq = 2
    MaxSeqLen = 6
    PrefillBudget = 2
    Overlap = TRUE
    CacheTypes = {"radix"}
SPECIFICATION FairSpec
INVARIANTS
    PagesPartitioned
    RefCountsExact
    NoAssertionFails
    ReservationHolds
PROPERTIES
    AcceptedRequestsFinish
\* The loop blocks when no message is left.
CHECK_DEADLOCK FALSE
