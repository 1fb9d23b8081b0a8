\* Two requests, one tokenizer; every text of up to four tokens.
CONSTANTS
    Bytes <- SmallBytes
    eos_token_id = 0
    StripsSpace = TRUE
    MaxIds = 4
    NumUsers = 2
    TokenizerCounts = {0, 1}
    Streaming = {0}
    TooLong = {}
    Script <- SmallScripts
    FinishAt <- SmallFinish
SPECIFICATION Spec
INVARIANTS
    ServingTypeOK
    SentTextIsDecoded
    NoLostWakeup
    ClientTextExact
    AbortsTakeEffect
    FinishedStatusDropped
PROPERTIES
    EveryRequestAnswered
\* The pipeline is idle when every client is answered or gone.
CHECK_DEADLOCK FALSE
