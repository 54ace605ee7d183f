SPECIFICATION Spec
CONSTANTS
  Wrap = 4
  HysteresisTicks = 1
  WdtStabilize = 0
  WdtShutdown = 1
  MaxTiltTime = 1
  MaxUpsideDownTime = 0
  Accels = {"level", "upsideDown"}
  ParamWrites = {"arm", "motorSetEnable", "motorPowerSet"}
  GenericTypes = {"stop"}
  OpenLoopThrusts = {}
  PidDivider = 1
  SafetyDivider = 2
INVARIANTS MotorsCutNextIteration LogMatchesState
PROPERTIES SupervisorImplemented ArmingIsSpent TumbleIsTimed
