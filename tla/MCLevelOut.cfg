SPECIFICATION Spec
CONSTANTS
  Wrap = 16
  HysteresisTicks = 8
  WdtStabilize = 4
  WdtShutdown = 8
  MaxTiltTime = 1
  MaxUpsideDownTime = 0
  Accels = {"level"}
  ParamWrites = {}
  GenericTypes = {"hover"}
  OpenLoopThrusts = {"zero"}
  PidDivider = 2
  SafetyDivider = 4
INVARIANTS LevelOutHolds
