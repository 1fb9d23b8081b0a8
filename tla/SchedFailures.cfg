\* overlap_loop with an abort at any time and admissions that take too many
\* pages: what still holds when the loop may also run into an assertion.
CONSTANTS
    PageSize = 4
    Req = {1, 2, 3}
    Prompt <- UnevenPrompts
    MaxTokens <- UnevenOutputs
    IgnoreEos = {}
    Sampled = {0, 1}
    Eos = 0
    Abortable = {3}
    NumPages = 3
    MaxRunningReq = 3
    MaxSeqLen = 12
    PrefillBudget = 4
    Overlap = TRUE
    CacheTypes = {"radix"}
SPECIFICATION Spec
INVARIANTS
    OnlyHeadIsChunked
PROPERTIES
    AdmittedInOrder
\* The loop blocks when no message is left, and stops at a failed assertion.
CHECK_DEADLOCK FALSE
