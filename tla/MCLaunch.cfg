\* A server of one rank or two, one tokenizer beside the detokenizer, two requests;
\* four offline prompts, of which at most five tokens are received at a time.
CONSTANTS
    NumTokenizers = 1
    MaxTpSize = 2
    Uids = {1, 2}
    Forwards <- OneAndTwo
    PromptLen <- SmallPrompts
    max_tokens = 3
    prefill_budget = 5
    max_seq_len = 6
SPECIFICATION Spec
INVARIANTS
    ServesOnlyWhenReady
    IdleMeansAnswered
    OfflineAnswersComplete
PROPERTIES
    ServerComesUp
    ExitStops
\* A refused server waits for ever, one that was told to has stopped, generate returns.
CHECK_DEADLOCK FALSE
