\* Two requests whose prompts share a prefix.
CONSTANTS
    PageSize = 1
    Req = {1, 2, 3}
    Prompt <- SharedPrompts
    MaxTokens <- SharedOutputs
    IgnoreEos = {}
    Sampled = {0, 1}
    Eos = 0
    Abortable = {}
    NumPages = 8
    MaxRunningReq = 2
    MaxSeqLen = 6
    PrefillBudget = 4
    Overlap = FALSE
    CacheTypes = {"radix"}
SPECIFICATION FairSpec
INVARIANTS
    RowsValid
\* The loop blocks when no message is left.
CHECK_DEADLOCK FALSE
