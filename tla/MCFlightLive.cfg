SPECIFICATION FairSpec
CONSTANTS
  Wrap = 4
  HysteresisTicks = 1
  WdtStabilize = 0
  WdtShutdown = 1
  MaxTiltTime = 1
  MaxUpsideDownTime = 0
  Accels = {"level"}
  ParamWrites = {"stop"}
  GenericTypes = {"position"}
  OpenLoopThrusts = {}
  PidDivider = 1
  SafetyDivider = 2
PROPERTIES SilenceEndsFlight EmergencyStopStopsMotors
