\* overlap_loop: the reply that says finished.
CONSTANTS
    PageSize = 1
    Req = {1, 2, 3}
    Prompt <- SharedPrompts
    MaxTokens <- SharedOutputs
    IgnoreEos = {1, 2, 3}
    Sampled = {0, 1}
    Eos = 0
    Abortable = {}
    NumPages = 8
    MaxRunningReq = 2
    MaxSeqLen = 6
    PrefillBudget = 4
    Overlap = TRUE
    CacheTypes = {"radix"}
SPECIFICATION FairSpec
PROPERTIES
    FinishedReplyIsLast
\* The loop blocks when no message is left.
CHECK_DEADLOCK FALSE
