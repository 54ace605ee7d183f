SPECIFICATION Spec
CONSTANTS
  Wrap = 8
  HysteresisTicks = 3
  WdtStabilize = 1
  WdtShutdown = 3
  MaxTiltTime = 1
  MaxUpsideDownTime = 0
  Accels = {"level"}
  ParamWrites = {"stop"}
  GenericTypes = {"hover"}
  OpenLoopThrusts = {"high"}
  PidDivider = 2
  SafetyDivider = 2
INVARIANTS TypeOK LinkLossBound FlyingHasThrust
PROPERTIES LandingNeedsIdleMotors ExceptionIsFinal MotorsStartArmed
