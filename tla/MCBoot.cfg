SPECIFICATION BootFairSpec
CONSTANTS
  Leds = {"link", "sys"}
  Registered <- MCRegistered
  LedOf <- MCLedOf
  StepsOf <- MCStepsOf
  CmdQueueLength = 1
  LinkSequences = {"linkUp"}
  MaxShown = 1
  MaxResets = 1
CHECK_DEADLOCK FALSE
INVARIANTS CrashGrounds LedsKeepOrder
PROPERTIES RefusalIsShown LedsGoDark
