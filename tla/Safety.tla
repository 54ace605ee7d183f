------------------------------- MODULE Safety -------------------------------
(***************************************************************************)
(* The flight supervisor of crazyflie/src/safety.hpp: a table-driven state *)
(* machine that the core loop runs at 25 Hz, and the arming flag that the  *)
(* platform-service task changes on behalf of the client.                  *)
(*                                                                         *)
(* This module runs the supervisor in the most hostile company: update()   *)
(* may see any accelerometer reading, any setpoint time stamp and any      *)
(* motor output, at any tick.  FlightCore runs it inside the core loop     *)
(* and implements SafetySpec.                                              *)
(***************************************************************************)
EXTENDS Integers, Sequences

CONSTANTS
  Wrap,             \* the tick counter counts modulo this (2^32 in the code)
  HysteresisTicks,  \* IS_FLYING_HYSTERESIS_THRESHOLD
  WdtStabilize,     \* COMMANDER_WDT_TIMEOUT_STABILIZE
  WdtShutdown,      \* COMMANDER_WDT_TIMEOUT_SHUTDOWN
  MaxTiltTime,      \* maxTiltTime of isTumbledCheck
  MaxUpsideDownTime,\* maxUpsideDownTime of isTumbledCheck
  Accels,           \* the classes of accelerometer readings that occur
  ParamWrites       \* the parameters that the client writes

ASSUME SafetyAssumption ==
  /\ Wrap \in Nat \ {0}
  /\ {HysteresisTicks, WdtStabilize, WdtShutdown,
      MaxTiltTime, MaxUpsideDownTime} \subseteq Nat
  /\ WdtStabilize <= WdtShutdown
  /\ Accels \subseteq {"level", "tilted", "upsideDown", "freeFall"}
  /\ ParamWrites \subseteq {"stop", "arm", "motorSetEnable", "motorPowerSet"}

VARIABLES
  tick,               \* xTaskGetTickCount()
  state,
  isArmingActivated,
  pendingArming,      \* requestArming() between its checks and its write
  initialTumbleTick,
  latestThrustTick,
  canFlyFlag, isFlyingFlag, isTumbledFlag,
  infoBitfield,
  paramEmergencyStop,
  deprecatedArmParam

armingVars == <<isArmingActivated, pendingArming>>
flagVars   == <<canFlyFlag, isFlyingFlag, isTumbledFlag, infoBitfield>>
paramVars  == <<paramEmergencyStop, deprecatedArmParam>>
safetyVars == <<tick, state, armingVars, initialTumbleTick, latestThrustTick,
                flagVars, paramVars>>

Ticks == 0 .. Wrap - 1

\* uint32_t subtraction: how long ago tick t was
Elapsed(t) == (tick - t) % Wrap

-----------------------------------------------------------------------------
(* The transition table *)

States == {"NotInitialized", "PreFlChecksNotPassed", "PreFlChecksPassed",
           "ReadyToFly", "Flying", "Landed", "Reset", "WarningLevelOut",
           "ExceptFreeFall", "Locked"}

\* CB_CONF_IS_TUMBLED is CB_NONE: tumbling triggers and blocks nothing
ConfIsTumbled == {}

Transition(new, trig, negTrig, trigComb, block, blockComb) ==
  [newState |-> new, triggers |-> trig, negatedTriggers |-> negTrig,
   triggerCombiner |-> trigComb, blockers |-> block, blockerCombiner |-> blockComb]

Always(new) == Transition(new, {}, {}, "Always", {}, "Never")
OnAny(new, trig, negTrig) == Transition(new, trig, negTrig, "Any", {}, "Never")
OnAll(new, trig, negTrig) == Transition(new, trig, negTrig, "All", {}, "Never")

EmergencyStop == OnAny("ExceptFreeFall", {"emergencyStop"}, {})

\* Variants with a fault, for the mutation runs: a trigger is forgotten
AbortedWithoutTimeout == OnAny("ExceptFreeFall", {"emergencyStop"}, {"armed"})
AbortedWithoutStop    == OnAny("ExceptFreeFall", {"commanderWdtTimeout"}, {"armed"})

FlightAborted ==
  OnAny("ExceptFreeFall",
        {"commanderWdtTimeout", "emergencyStop"} \union ConfIsTumbled, {"armed"})

\* Fault: clearing the emergency stop unlocks
UnlockWhenCleared == OnAll("PreFlChecksNotPassed", {}, {"emergencyStop"})

StayLocked == Transition("Locked", {}, {}, "Never", {}, "Always")

stateTransitions ==
  [NotInitialized       |-> <<Always("PreFlChecksNotPassed")>>,
   PreFlChecksNotPassed |->
     <<EmergencyStop,
       Transition("PreFlChecksPassed", {}, {}, "Always", ConfIsTumbled, "Any")>>,
   PreFlChecksPassed    |->
     <<EmergencyStop,
       OnAny("PreFlChecksNotPassed", ConfIsTumbled, {}),
       Transition("ReadyToFly", {"armed"}, {}, "All", ConfIsTumbled, "Any")>>,
   ReadyToFly           |->
     <<EmergencyStop,
       OnAny("PreFlChecksNotPassed", ConfIsTumbled, {"armed"}),
       OnAll("Flying", {"isFlying"}, {})>>,
   Flying               |->
     <<FlightAborted,
       OnAll("WarningLevelOut", {"commanderWdtWarning"}, {}),
       OnAll("Landed", {}, {"isFlying"})>>,
   Landed               |-> <<Always("Reset")>>,
   Reset                |-> <<Always("PreFlChecksNotPassed")>>,
   WarningLevelOut      |->
     <<FlightAborted,
       OnAll("Flying", {}, {"commanderWdtWarning", "commanderWdtTimeout"})>>,
   ExceptFreeFall       |-> <<Always("Locked")>>,
   Locked               |-> <<StayLocked>>]

AreConditionsMet(conditions, required, negated, combiner) ==
  CASE combiner = "All"    -> required \subseteq conditions /\ negated \cap conditions = {}
    [] combiner = "Any"    -> required \cap conditions # {} \/ ~(negated \subseteq conditions)
    [] combiner = "Always" -> TRUE
    [] combiner = "Never"  -> FALSE

IsTransitionValid(t, conditions) ==
  /\ AreConditionsMet(conditions, t.triggers, t.negatedTriggers, t.triggerCombiner)
  /\ ~AreConditionsMet(conditions, t.blockers, {}, t.blockerCombiner)

\* Fault: a later row overrides an earlier one
LastTransition(current, conditions) ==
  LET transitions == stateTransitions[current]
      valid == {i \in 1 .. Len(transitions) : IsTransitionValid(transitions[i], conditions)}
  IN  IF valid = {} THEN current
      ELSE transitions[CHOOSE i \in valid : \A j \in valid : i >= j].newState

\* The first valid transition of a state decides, if there is one
FindTransition(current, conditions) ==
  LET transitions == stateTransitions[current]
      valid == {i \in 1 .. Len(transitions) : IsTransitionValid(transitions[i], conditions)}
  IN  IF valid = {} THEN current
      ELSE transitions[CHOOSE i \in valid : \A j \in valid : i <= j].newState

-----------------------------------------------------------------------------
(* Queries *)

MotorStates == {"ReadyToFly", "Flying", "WarningLevelOut"}

AreMotorsAllowedToRun == state \in MotorStates

CanArm == state = "PreFlChecksPassed"

IsArmed == isArmingActivated \/ deprecatedArmParam

-----------------------------------------------------------------------------
(* One supervisor update *)

\* Faults: no hysteresis limit; the tick of the previous update is looked at
EverSawThrust(thrustTick) == thrustTick # 0
StaleFlyingCheck(thrustTick) ==
  latestThrustTick # 0 /\ Elapsed(latestThrustTick) < HysteresisTicks

\* Tick 0 doubles as "never saw thrust"
IsFlyingCheck(thrustTick) ==
  thrustTick # 0 /\ Elapsed(thrustTick) < HysteresisTicks

\* Tick 0 doubles as "not tumbling".  A free fall is also a tilt, so it
\* restarts the clock rather than stopping it.
TumbleTick(accel) ==
  IF accel = "level" THEN 0
  ELSE IF accel = "freeFall" \/ initialTumbleTick = 0 THEN tick
  ELSE initialTumbleTick

\* Fault: the limits are reached one tick early
TumbledEarly(accel) ==
  /\ accel # "level"
  /\ \/ accel = "upsideDown" /\ Elapsed(TumbleTick(accel)) >= MaxUpsideDownTime
     \/ Elapsed(TumbleTick(accel)) >= MaxTiltTime

IsTumbledCheck(accel) ==
  /\ accel # "level"
  /\ \/ accel = "upsideDown" /\ Elapsed(TumbleTick(accel)) > MaxUpsideDownTime
     \/ Elapsed(TumbleTick(accel)) > MaxTiltTime

Holds(condition, P) == IF P THEN {condition} ELSE {}

Conditions(accel, timestamp, thrustTick) ==
  UNION {Holds("armed", IsArmed),
         Holds("isFlying", IsFlyingCheck(thrustTick)),
         Holds("isTumbled", IsTumbledCheck(accel)),
         Holds("commanderWdtWarning", Elapsed(timestamp) > WdtStabilize),
         Holds("commanderWdtTimeout", Elapsed(timestamp) > WdtShutdown),
         Holds("emergencyStop", paramEmergencyStop)}

\* Fault: only a landing disarms
DisarmOnLanding(newState) ==
  IF newState = "PreFlChecksPassed" /\ deprecatedArmParam THEN TRUE
  ELSE isArmingActivated /\ newState # "Landed"

\* postTransitionActions(): leaving the flying states disarms, and the
\* deprecated parameter arms as soon as the pre-flight checks have passed
ArmingAfter(newState) ==
  IF newState = "PreFlChecksPassed" /\ deprecatedArmParam THEN TRUE
  ELSE isArmingActivated /\ newState \in MotorStates

\* Fault: the state logged is the one before the transition
LogBeforeTransition(tumbled) ==
  /\ canFlyFlag' = (state \in MotorStates)
  /\ isFlyingFlag' = (state \in {"Flying", "WarningLevelOut"})
  /\ isTumbledFlag' = tumbled
  /\ infoBitfield' = UNION {Holds("canArm", state = "PreFlChecksPassed"),
                            Holds("canFly", canFlyFlag')}

UpdateLogData(tumbled) ==
  /\ canFlyFlag' = (state' \in MotorStates)
  /\ isFlyingFlag' = (state' \in {"Flying", "WarningLevelOut"})
  /\ isTumbledFlag' = tumbled
  /\ infoBitfield' =
       UNION {Holds("canArm", state' = "PreFlChecksPassed"),
              Holds("isArmed", isArmingActivated' \/ deprecatedArmParam),
              Holds("autoArm", deprecatedArmParam),
              Holds("canFly", canFlyFlag'),
              Holds("isFlying", isFlyingFlag'),
              Holds("isTumbled", isTumbledFlag')}

\* update(), when the step is one the 25 Hz clock executes.  overIdle says
\* whether some motorsGetRatio(i) is positive.
Update(accel, timestamp, overIdle) ==
  LET thrustTick == IF overIdle THEN tick ELSE latestThrustTick
      newState   == FindTransition(state, Conditions(accel, timestamp, thrustTick))
  IN  /\ latestThrustTick' = thrustTick
      /\ initialTumbleTick' = TumbleTick(accel)
      /\ state' = newState
      /\ isArmingActivated' =
           IF newState # state THEN ArmingAfter(newState) ELSE isArmingActivated
      /\ UpdateLogData(IsTumbledCheck(accel))
      /\ UNCHANGED <<tick, pendingArming, paramVars>>

-----------------------------------------------------------------------------
(* Arming requests and parameters *)

\* requestArming() up to its last check.  The platform-service task can be
\* preempted between the check and the write.  A request that changes
\* nothing or is refused leaves no trace.
RequestArming(doArm) ==
  /\ pendingArming = "none"
  /\ doArm # isArmingActivated
  /\ doArm => CanArm
  /\ pendingArming' = IF doArm THEN "arm" ELSE "disarm"
  /\ UNCHANGED <<tick, state, isArmingActivated, initialTumbleTick,
                 latestThrustTick, flagVars, paramVars>>

\* ... and its write
CommitArming ==
  /\ pendingArming # "none"
  /\ isArmingActivated' = (pendingArming = "arm")
  /\ pendingArming' = "none"
  /\ UNCHANGED <<tick, state, initialTumbleTick, latestThrustTick, flagVars, paramVars>>

\* The PARAM task writes stabilizer.stop
WriteEmergencyStop ==
  /\ "stop" \in ParamWrites
  /\ paramEmergencyStop' \in BOOLEAN
  /\ UNCHANGED <<tick, state, armingVars, initialTumbleTick, latestThrustTick,
                 flagVars, deprecatedArmParam>>

\* The PARAM task writes system.arm
WriteArmParam ==
  /\ "arm" \in ParamWrites
  /\ deprecatedArmParam' \in BOOLEAN
  /\ UNCHANGED <<tick, state, armingVars, initialTumbleTick, latestThrustTick,
                 flagVars, paramEmergencyStop>>

\* Fault: the counter is wider than the type it is stored in
TickUnbounded ==
  /\ tick' = tick + 1
  /\ UNCHANGED <<state, armingVars, initialTumbleTick, latestThrustTick,
                 flagVars, paramVars>>

\* The tick interrupt
TickInterrupt ==
  /\ tick' = (tick + 1) % Wrap
  /\ UNCHANGED <<state, armingVars, initialTumbleTick, latestThrustTick,
                 flagVars, paramVars>>

-----------------------------------------------------------------------------
(* The specification *)

SafetyInit ==
  /\ tick \in Ticks
  /\ state = "NotInitialized"
  /\ isArmingActivated = FALSE
  /\ pendingArming = "none"
  /\ initialTumbleTick = 0
  /\ latestThrustTick = 0
  /\ canFlyFlag = FALSE /\ isFlyingFlag = FALSE /\ isTumbledFlag = FALSE
  /\ infoBitfield = {}
  /\ paramEmergencyStop = FALSE
  /\ deprecatedArmParam = FALSE

SafetyNext ==
  \/ TickInterrupt
  \/ \E doArm \in BOOLEAN : RequestArming(doArm)
  \/ CommitArming
  \/ WriteEmergencyStop
  \/ WriteArmParam
  \/ \E accel \in Accels, timestamp \in Ticks, overIdle \in BOOLEAN :
       Update(accel, timestamp, overIdle)

SafetySpec == SafetyInit /\ [][SafetyNext]_safetyVars

-----------------------------------------------------------------------------
(* Properties *)

\* Every variable keeps the range of the code's type.
SafetyTypeOK ==
  /\ {tick, initialTumbleTick, latestThrustTick} \subseteq Ticks
  /\ state \in States
  /\ pendingArming \in {"none", "arm", "disarm"}
  /\ {isArmingActivated, canFlyFlag, isFlyingFlag, isTumbledFlag,
      paramEmergencyStop, deprecatedArmParam} \subseteq BOOLEAN
  /\ infoBitfield \subseteq
       {"canArm", "isArmed", "autoArm", "canFly", "isFlying", "isTumbled"}

ExceptionStates == {"ExceptFreeFall", "Locked"}

\* Once the supervisor has let the vehicle fall (a lost link, a disarm or an
\* emergency stop in flight), nothing a client can send lets the motors run
\* again: the code asks for a reboot.
ExceptionIsFinal ==
  [][(state \in ExceptionStates) => (state' \in ExceptionStates)]_safetyVars

\* The motors are permitted to start only in an update that finds the vehicle
\* armed on the ground with its checks passed: flight is never entered from
\* any other state, and never with the emergency stop set.
MotorsStartArmed ==
  [][(~AreMotorsAllowedToRun /\ AreMotorsAllowedToRun') =>
       /\ CanArm /\ IsArmed /\ ~paramEmergencyStop
       /\ state' = "ReadyToFly"]_safetyVars

\* An arming does not survive the flight it was given for: whenever the
\* permission to run the motors is withdrawn, or the vehicle becomes ready to
\* be armed, the arming flag is down again unless the auto-arm parameter put it
\* up.  (A request still between its check and its write can raise it later.)
ArmingIsSpent ==
  [][(AreMotorsAllowedToRun /\ ~AreMotorsAllowedToRun') \/ (~CanArm /\ CanArm')
       => isArmingActivated' = (CanArm' /\ deprecatedArmParam)]_safetyVars

\* What the logger publishes agrees with the state that the motors obey: the
\* flags are taken after the transition, and nothing else moves the state.
LogMatchesState ==
  /\ canFlyFlag = AreMotorsAllowedToRun
  /\ isFlyingFlag = (state \in {"Flying", "WarningLevelOut"})
  /\ ("canFly" \in infoBitfield) = canFlyFlag
  /\ ("canArm" \in infoBitfield) = CanArm

\* A vehicle is reported as tumbled only by an update that finds it off level
\* and a tick recorded by an earlier one more than the limit back: neither a
\* single bad sample nor a free fall that has just begun does it.
TumbleIsTimed ==
  [][(isTumbledFlag' /\ ~isTumbledFlag) =>
       /\ initialTumbleTick' = initialTumbleTick
       /\ Elapsed(initialTumbleTick) >
            (IF MaxUpsideDownTime <= MaxTiltTime THEN MaxUpsideDownTime ELSE MaxTiltTime)
    ]_safetyVars
=============================================================================
