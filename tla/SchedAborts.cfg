\* normal_loop, either cache, aborts at any time; two rows and one prefill a
\* batch, so that requests reuse what earlier ones left in the cache.
CONSTANTS
    PageSize = 2
    Req = {1, 2, 3}
    Prompt <- ReusePrompts
    MaxTokens <- ReuseOutputs
    IgnoreEos = {1}
    Sampled = {0, 3}
    Eos = 0
    Abortable = {1, 2, 3}
    NumPages = 4
    MaxRunningReq = 2
    MaxSeqLen = 8
    PrefillBudget = 3
    Overlap = FALSE
    CacheTypes = {"radix", "naive"}
SPECIFICATION FairSpec
INVARIANTS
    PagesPartitioned
    RowsPartitioned
    RowsValid
    CacheValid
    FinishedMeansComplete
PROPERTIES
    FinishedReplyIsLast
\* The loop blocks when no message is left.
CHECK_DEADLOCK FALSE
