SPECIFICATION SyslinkFairSpec
CONSTANTS
  SyslinkTask = "syslink"
  OtherSenders = {"power", "system"}
  MaxPackets = 3
  SizeOf <- MCSizeOf
  RxQueueSize = 1
  MaxReceived = 3
  MaxPauses = 2
CHECK_DEADLOCK FALSE
INVARIANTS FlowControlIsKnown
PROPERTIES PacketsGoOutWhole PausedLineIsQuiet SendsEnd
