\* Four one-token requests, three four-token pages.
CONSTANTS
    PageSize = 4
    Req = {1, 2, 3, 4}
    Prompt <- TinyPrompts
    MaxTokens <- TinyOutputs
    IgnoreEos = {}
    Sampled = {0, 1}
    Eos = 0
    Abortable = {}
    NumPages = 3
    MaxRunningReq = 4
    MaxSeqLen = 12
    PrefillBudget = 4
    Overlap = TRUE
    CacheTypes = {"radix"}
SPECIFICATION FairSpec
INVARIANTS
    NoAssertionFails
\* The loop blocks when no message is left.
CHECK_DEADLOCK FALSE
