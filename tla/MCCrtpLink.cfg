SPECIFICATION FairSpec
CONSTANTS
  Servers = {"param"}
  CallbackPorts = {}
  TxQueueSize = 1
  PortQueueSize = 1
  RadioRxSize = 1
  UsbRxSize = 1
  UsbPacketsSize = 1
  MaxIn = 3
  MaxRadioIn = 1
  MaxOut = 1
CHECK_DEADLOCK FALSE
INVARIANTS RequestsKept RequestsInOrder RepliesInOrder UsbNeverDeaf
PROPERTIES UsbDrains
