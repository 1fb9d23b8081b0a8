CONSTANTS
  HFConfigs <- MCHFConfigs
  DirsOf <- MCDirsOf
  ChunkBytes = 2000
  Hosts <- MCHosts
  CommandLines <- MCCommandLines
  Batches <- MCBatches
  MaxRuns = 2
  Prompts <- MCPrompts
  MaxNew = 3
  PrefillBudget = 2
  NumRows = 2
  MaxBatches = 6
  NumLayers = 3
  FirstMoE = 1
  MaxTokens = 2
  MaxForwards = 2
  Supplied <- MCSupplied
SPECIFICATION EngineSpec
CHECK_DEADLOCK FALSE
INVARIANTS
  
  AttentionExact
  StreamsExact
  DualBatchExact
