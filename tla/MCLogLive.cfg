SPECIFICATION FairSpec
CONSTANTS
  LOG_MAX_BLOCKS = 2
  LOG_MAX_OPS = 2
  LOG_MAX_LEN = 2
  Ids = {1}
  MaxSettings = 2
  TimerQueueLength = 2
  WorkQueueLength = 1
  TxQueueSize = 1
CONSTRAINT Timely
 
PROPERTIES CommandsAnswered LostLinkEndsLogging
