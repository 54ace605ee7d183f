SPECIFICATION Spec
CONSTANTS
  LOG_MAX_BLOCKS = 2
  LOG_MAX_OPS = 2
  LOG_MAX_LEN = 2
  Ids = {1, 2}
  MaxSettings = 1
  TimerQueueLength = 1
  WorkQueueLength = 1
  TxQueueSize = 1
CONSTRAINT Timely
INVARIANTS OpsOwned TimersOfStartedBlocks StartedBlocksLogTheirOps TimersExist
