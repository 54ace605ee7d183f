----------------------------- MODULE FlightCore -----------------------------
(***************************************************************************)
(* The flight core: the 1 kHz loop of crazyflie/src/tasks/core.hpp with    *)
(* the supervisor, the commander, the Copilot controllers and the motors.  *)
(*                                                                         *)
(* One iteration of the loop is one step here: the core task has the       *)
(* highest priority, so nothing but an interrupt runs while it does.  The  *)
(* tick interrupt, the CRTP task's setpoints, the platform task's arming   *)
(* requests and the PARAM task's writes happen between iterations.         *)
(***************************************************************************)
EXTENDS Safety, Commander

CONSTANTS
  PidDivider,      \* main-loop steps per controller run  (2 in the code)
  SafetyDivider    \* main-loop steps per supervisor run (40 in the code)

ASSUME CoreAssumption ==
  /\ PidDivider \in Nat \ {0}
  /\ SafetyDivider \in Nat \ {0}
  /\ SafetyDivider % PidDivider = 0

VARIABLES
  dataReady,       \* the IMU's semaphore: one sample per tick
  step,            \* the loop counter, modulo SafetyDivider
  motorvals,       \* what the mixers asked for last
  motorRatios,     \* where the ratios on the motors come from
  motorSetEnable,
  motorPowerSet,   \* some motorPowerSet[i] is positive
  transitioned     \* history: the latest supervisor update changed its state

coreVars  == <<dataReady, step, motorvals, motorRatios, transitioned>>
motorParams == <<motorSetEnable, motorPowerSet>>
vars == <<safetyVars, commanderVars, coreVars, motorParams>>

-----------------------------------------------------------------------------
(* The controllers and the motors *)

\* getDemands(): what the setpoint asks for.  In flying mode the thrust demand
\* is an altitude.
OpenLoopDemands == [thrust |-> setpoint.thrust, sticks |-> setpoint.sticks]

\* The end of update(): what the supervisor's state leaves of the demands
ModifyDemands(demands, newState) ==
  CASE newState \in {"ReadyToFly", "Flying"} -> demands
    [] newState = "WarningLevelOut"          -> [demands EXCEPT !.sticks = FALSE]
    [] OTHER                                 -> [demands EXCEPT !.thrust = FALSE]

\* The motor values the controllers may compute.  Outside flying mode the
\* collective thrust is the constant tmin, so some motor is always above zero;
\* without a thrust demand the roll and pitch controllers and the yaw output are
\* then silent.  In flying mode the altitude loops decide.
MotorvalsFor(demands, flying) ==
  IF flying THEN [spin : BOOLEAN, sticks : {demands.sticks}]
  ELSE {[spin |-> TRUE, sticks |-> demands.sticks /\ demands.thrust]}

\* Fault: motors that are not to spin keep their ratio
RatiosNotReset(spin) ==
  motorRatios' = IF motorSetEnable
                 THEN (IF motorPowerSet THEN "override" ELSE "zero")
                 ELSE (IF spin THEN "mixer" ELSE motorRatios)

\* setRatio() on all motors: the motorPowerSet parameters override any request,
\* zero included.
SetRatios(spin) ==
  motorRatios' = IF motorSetEnable
                 THEN (IF motorPowerSet THEN "override" ELSE "zero")
                 ELSE (IF spin THEN "mixer" ELSE "zero")

-----------------------------------------------------------------------------
(* The loop *)

RunsAt(divider) == step % divider = 0

\* One iteration of run().  The permission used at its end was read before the
\* supervisor ran.
CoreIteration(accel) ==
  LET allowed == AreMotorsAllowedToRun
  IN
  /\ dataReady
  /\ dataReady' = FALSE
  /\ step' = (step + 1) % SafetyDivider
  /\ IF RunsAt(SafetyDivider)
     THEN /\ Update(accel, setpoint.timestamp, motorRatios # "zero")
          /\ transitioned' = (state' # state)
     ELSE UNCHANGED <<safetyVars, transitioned>>
  /\ IF RunsAt(PidDivider)
     THEN motorvals' \in
            MotorvalsFor(IF RunsAt(SafetyDivider) THEN ModifyDemands(OpenLoopDemands, state')
                         ELSE OpenLoopDemands,
                         setpoint.flying)
     ELSE UNCHANGED motorvals
  /\ SetRatios(allowed /\ motorvals'.spin)
  /\ UNCHANGED <<commanderVars, motorParams>>

\* Every tick brings a sample.  The loop is taken to keep its rate: it has
\* consumed the last sample when the next one arrives.
Tick ==
  /\ ~dataReady
  /\ TickInterrupt
  /\ dataReady' = TRUE
  /\ UNCHANGED <<commanderVars, step, motorvals, motorRatios, transitioned, motorParams>>

-----------------------------------------------------------------------------
(* The other tasks *)

\* CRTP-RX runs commanderCrtpCB
ReceiveSetpoint ==
  /\ CommanderPacket(tick)
  /\ UNCHANGED <<safetyVars, coreVars, motorParams>>

\* Fault: the platform service sets the flag without asking the supervisor
ArmUnchecked ==
  /\ isArmingActivated' \in BOOLEAN
  /\ UNCHANGED <<tick, state, pendingArming, initialTumbleTick, latestThrustTick,
                 flagVars, paramVars, commanderVars, coreVars, motorParams>>

\* The platform service handles an arming command
PlatformArming ==
  /\ CommitArming \/ \E doArm \in BOOLEAN : RequestArming(doArm)
  /\ UNCHANGED <<commanderVars, coreVars, motorParams>>

\* The PARAM task stores a value
WriteParam ==
  \/ /\ WriteEmergencyStop \/ WriteArmParam
     /\ UNCHANGED <<commanderVars, coreVars, motorParams>>
  \/ /\ "motorSetEnable" \in ParamWrites
     /\ motorSetEnable' \in BOOLEAN
     /\ UNCHANGED <<safetyVars, commanderVars, coreVars, motorPowerSet>>
  \/ /\ "motorPowerSet" \in ParamWrites
     /\ motorPowerSet' \in BOOLEAN
     /\ UNCHANGED <<safetyVars, commanderVars, coreVars, motorSetEnable>>

-----------------------------------------------------------------------------
(* The specification *)

\* The loop starts at step 1, after the start-up and the calibration
Init ==
  /\ SafetyInit
  /\ CommanderInit
  /\ dataReady = FALSE
  /\ step = 1 % SafetyDivider
  /\ motorvals = [spin |-> FALSE, sticks |-> FALSE]
  /\ motorRatios = "zero"
  /\ motorSetEnable = FALSE
  /\ motorPowerSet = FALSE
  /\ transitioned = FALSE

Next ==
  \/ \E accel \in Accels : CoreIteration(accel)
  \/ Tick
  \/ ReceiveSetpoint
  \/ PlatformArming
  \/ WriteParam

Spec == Init /\ [][Next]_vars

\* The IMU keeps sampling and the scheduler runs the task of highest priority;
\* nothing is owed by the client.
CoreFairness ==
  /\ WF_vars(Tick)
  /\ WF_vars(\E accel \in Accels : CoreIteration(accel))

FairSpec == Spec /\ CoreFairness

-----------------------------------------------------------------------------
(* Properties *)

TypeOK ==
  /\ SafetyTypeOK
  /\ CommanderTypeOK(Ticks)
  /\ step \in 0 .. SafetyDivider - 1
  /\ motorvals \in [spin : BOOLEAN, sticks : BOOLEAN]
  /\ motorRatios \in {"zero", "mixer", "override"}
  /\ {dataReady, motorSetEnable, motorPowerSet, transitioned} \subseteq BOOLEAN

\* The supervisor inside the core loop behaves as the supervisor alone.
SupervisorImplemented == SafetySpec

\* One iteration after the supervisor has withdrawn its permission, no motor
\* turns on the mixers' account: only the iteration that ran the supervisor,
\* whose permission was read first, may still have set the old values.
MotorsCutNextIteration ==
  (motorRatios = "mixer" /\ ~AreMotorsAllowedToRun) =>
     transitioned /\ step = 1 % SafetyDivider

\* The commander watchdog: in steady flight the setpoint is never older than the
\* stabilisation limit, and nowhere in the air older than the shutdown limit, by
\* more than the period of the supervisor.  An update that has just taken off
\* has not looked at the setpoint's age.
LinkLossBound ==
  /\ state = "Flying" /\ ~transitioned =>
       Elapsed(setpoint.timestamp) <= WdtStabilize + SafetyDivider
  /\ state = "WarningLevelOut" =>
       Elapsed(setpoint.timestamp) <= WdtShutdown + SafetyDivider

\* A vehicle that keeps flying has been seen with a motor turning within the
\* hysteresis time plus a supervisor period.
FlyingHasThrust ==
  state = "Flying" /\ ~transitioned =>
     Elapsed(latestThrustTick) <= HysteresisTicks + SafetyDivider

\* Why the two bounds hold: the ticks since the supervisor last ran are known
\* from the loop counter, and what it saw then ages by no more than them.
SinceUpdate ==
  (IF step = 0 THEN SafetyDivider ELSE step) - (IF dataReady THEN 0 ELSE 1)

AgesWithTicks ==
  /\ state = "Flying" /\ ~transitioned =>
       /\ Elapsed(setpoint.timestamp) <= WdtStabilize + SinceUpdate
       /\ Elapsed(latestThrustTick) <= HysteresisTicks + SinceUpdate
  /\ state = "WarningLevelOut" =>
       Elapsed(setpoint.timestamp) <= WdtShutdown + SinceUpdate

\* Flight ends in a landing only when no motor was turning at the update that
\* noticed it, save at tick zero, which the code cannot tell from never having
\* seen thrust.
LandingNeedsIdleMotors ==
  [][(state = "Flying" /\ state' = "Landed") =>
       motorRatios = "zero" \/ tick = 0]_vars

\* When the setpoints stop changing, flight ends, in a landing or a fall.
SilenceEndsFlight ==
  []<><<setpoint' # setpoint>>_vars
    \/ (state \in {"Flying", "WarningLevelOut"}
          ~> state \notin {"Flying", "WarningLevelOut"})

\* An emergency stop that stays set stops the mixers' motors for good, whatever
\* the client goes on sending.
EmergencyStopStopsMotors ==
  <>[]paramEmergencyStop => <>[](motorRatios # "mixer")

\* The level-out of a lost link holds for every controller run: "Use safety
\* algorithm to modify demands" (core.hpp).
LevelOutHolds == state = "WarningLevelOut" => ~motorvals.sticks
=============================================================================
