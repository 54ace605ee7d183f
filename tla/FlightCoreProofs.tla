-------------------------- MODULE FlightCoreProofs --------------------------
(***************************************************************************)
(* The flight core, for every loop rate, every limit and every client: it  *)
(* runs the supervisor as SafetySpec says, cuts the motors one iteration   *)
(* after the supervisor has, and bounds the ages that end a flight.        *)
(***************************************************************************)
EXTENDS FlightCore, SafetyProofs

-----------------------------------------------------------------------------
(* Type correctness *)

\* The record of a setpoint.
LEMMA SetpointType ==
  ASSUME NEW ticks, NEW now \in ticks, NEW flying, NEW thrust, NEW sticks,
         flying \in BOOLEAN, thrust \in BOOLEAN, sticks \in BOOLEAN
  PROVE  Setpoint(now, flying, thrust, sticks) \in Setpoints(ticks)
BY Zenon DEF Setpoint, Setpoints

\* Taking a setpoint keeps the types, whatever its priority does.
LEMMA SetSetpointType ==
  ASSUME NEW ticks, setpoint \in Setpoints(ticks),
         activePriority \in {PriorityDisable, PriorityLowest, PriorityCrtp},
         NEW sp \in Setpoints(ticks), SetSetpoint(sp, PriorityCrtp)
  PROVE  /\ setpoint' \in Setpoints(ticks)
         /\ activePriority' \in {PriorityDisable, PriorityLowest, PriorityCrtp}
BY DEF SetSetpoint

\* Every decoder keeps the types of the commander.
LEMMA CommanderPacketType ==
  ASSUME NEW ticks, NEW now \in ticks, CommanderTypeOK(ticks), CommanderPacket(now)
  PROVE  CommanderTypeOK(ticks)'
<1> USE DEF CommanderTypeOK
<1>1. ASSUME NEW thrust \in OpenLoopThrusts, NEW sticks \in BOOLEAN,
             OpenLoopSetpoint(thrust, sticks, now)
      PROVE  CommanderTypeOK(ticks)'
  <2> DEFINE locked == thrust # "zero" /\ (thrustLocked \/ activePriority = PriorityDisable)
             high   == thrust = "high" /\ ~locked
             sp     == Setpoint(now, FALSE, high, sticks)
  <2>1. thrustLocked' \in BOOLEAN
    BY <1>1 DEF OpenLoopSetpoint
  <2>2. high \in BOOLEAN
    OBVIOUS
  <2>3. SetSetpoint(sp, PriorityCrtp)
    BY <1>1, Zenon DEF OpenLoopSetpoint
  <2> HIDE DEF high
  <2>4. sp \in Setpoints(ticks)
    BY <2>2, SetpointType
  <2>5. QED
    BY <2>1, <2>3, <2>4, SetSetpointType
<1>2. ASSUME NEW type \in GenericTypes, NEW sticks \in BOOLEAN,
             GenericSetpoint(type, sticks, now)
      PROVE  CommanderTypeOK(ticks)'
  <2> DEFINE flying == type \in FlyingTypes
             sp     == Setpoint(now, flying, FALSE, sticks)
  <2>1. thrustLocked' = thrustLocked
    BY <1>2 DEF GenericSetpoint
  <2>2. flying \in BOOLEAN
    OBVIOUS
  <2>3. SetSetpoint(sp, PriorityCrtp)
    BY <1>2, Zenon DEF GenericSetpoint
  <2> HIDE DEF flying
  <2>4. sp \in Setpoints(ticks)
    BY <2>2, SetpointType
  <2>5. QED
    BY <2>1, <2>3, <2>4, SetSetpointType
<1>3. CASE NotifySetpointsStop
  BY <1>3 DEF NotifySetpointsStop
<1>4. QED
  BY <1>1, <1>2, <1>3 DEF CommanderPacket

\* A loop counter stays below its divider.
LEMMA StepType ==
  ASSUME NEW n \in Nat
  PROVE  n % SafetyDivider \in 0 .. SafetyDivider - 1
BY CoreAssumption

\* An iteration of the core loop keeps the types of all its parts.
LEMMA CoreIterationType ==
  ASSUME TypeOK, NEW accel \in Accels, CoreIteration(accel)
  PROVE  TypeOK'
<1>1. SafetyTypeOK'
  <2>1. CASE RunsAt(SafetyDivider)
    <3>1. Update(accel, setpoint.timestamp, motorRatios # "zero")
      BY <2>1 DEF CoreIteration
    <3>2. setpoint.timestamp \in Ticks /\ (motorRatios # "zero") \in BOOLEAN
      BY DEF TypeOK, CommanderTypeOK, Setpoints
    <3>3. QED
      BY <3>1, <3>2, UpdateType DEF TypeOK
  <2>2. CASE ~RunsAt(SafetyDivider)
    BY <2>2 DEF CoreIteration, TypeOK, SafetyTypeOK, safetyVars, armingVars, flagVars,
       paramVars
  <2>3. QED
    BY <2>1, <2>2
<1>2. CommanderTypeOK(Ticks)'
  BY DEF CoreIteration, TypeOK, CommanderTypeOK, commanderVars, Ticks
<1>3. step' \in 0 .. SafetyDivider - 1
  <2>1. step + 1 \in Nat
    BY DEF TypeOK
  <2>2. QED
    BY <2>1, StepType DEF CoreIteration
<1>4. motorvals' \in [spin : BOOLEAN, sticks : BOOLEAN]
  <2>1. CASE ~RunsAt(PidDivider)
    BY <2>1 DEF CoreIteration, TypeOK
  <2>2. CASE RunsAt(PidDivider)
    <3>1. OpenLoopDemands \in [thrust : BOOLEAN, sticks : BOOLEAN]
      BY DEF OpenLoopDemands, TypeOK, CommanderTypeOK, Setpoints
    <3>2. ModifyDemands(OpenLoopDemands, state') \in [thrust : BOOLEAN, sticks : BOOLEAN]
      BY <3>1 DEF ModifyDemands
    <3>3. ASSUME NEW d \in [thrust : BOOLEAN, sticks : BOOLEAN], NEW f \in BOOLEAN
          PROVE  MotorvalsFor(d, f) \subseteq [spin : BOOLEAN, sticks : BOOLEAN]
      <4> DEFINE sticks == d.sticks /\ d.thrust
      <4>1. sticks \in BOOLEAN /\ d.sticks \in BOOLEAN
        OBVIOUS
      <4>2. CASE f
        BY <4>1, <4>2 DEF MotorvalsFor
      <4>3. CASE ~f
        <5>1. MotorvalsFor(d, f) = {[spin |-> TRUE, sticks |-> sticks]}
          BY <4>3, Zenon DEF MotorvalsFor
        <5> HIDE DEF sticks
        <5>2. [spin |-> TRUE, sticks |-> sticks] \in [spin : BOOLEAN, sticks : BOOLEAN]
          BY <4>1
        <5>3. QED
          BY <5>1, <5>2
      <4>4. QED
        BY <4>2, <4>3
    <3>4. setpoint.flying \in BOOLEAN
      BY DEF TypeOK, CommanderTypeOK, Setpoints
    <3>5. \E d \in [thrust : BOOLEAN, sticks : BOOLEAN] :
             motorvals' \in MotorvalsFor(d, setpoint.flying)
      BY <2>2, <3>1, <3>2 DEF CoreIteration
    <3>6. QED
      BY <3>3, <3>4, <3>5
  <2>3. QED
    BY <2>1, <2>2
<1>5. motorRatios' \in {"zero", "mixer", "override"}
  BY DEF CoreIteration, SetRatios
<1>6. {dataReady, motorSetEnable, motorPowerSet, transitioned}' \subseteq BOOLEAN
  BY DEF CoreIteration, TypeOK, motorParams
<1>7. QED
  BY <1>1, <1>2, <1>3, <1>4, <1>5, <1>6 DEF TypeOK

\* Every variable of the flight core keeps the range of the code's type.
THEOREM TypeCorrect == Spec => []TypeOK
<1>1. Init => TypeOK
  <2> SUFFICES ASSUME Init PROVE TypeOK
    OBVIOUS
  <2>1. SafetyTypeOK
    <3>1. {tick, initialTumbleTick, latestThrustTick} \subseteq Ticks
      BY ZeroTick DEF Init, SafetyInit
    <3>2. QED
      BY <3>1 DEF Init, SafetyInit, SafetyTypeOK, States
  <2>2. CommanderTypeOK(Ticks)
    <3>1. NullSetpoint \in Setpoints(Ticks)
      BY ZeroTick, SetpointType DEF NullSetpoint
    <3>2. QED
      BY <3>1 DEF Init, CommanderInit, CommanderTypeOK
  <2>3. step \in 0 .. SafetyDivider - 1
    BY StepType DEF Init
  <2>4. QED
    BY <2>1, <2>2, <2>3 DEF Init, TypeOK
<1>2. TypeOK /\ [Next]_vars => TypeOK'
  <2> SUFFICES ASSUME TypeOK, [Next]_vars PROVE TypeOK'
    OBVIOUS
  <2> USE DEF TypeOK
  <2>1. ASSUME NEW accel \in Accels, CoreIteration(accel)
        PROVE  TypeOK'
    BY <2>1, CoreIterationType
  <2>2. CASE Tick
    <3>1. (tick + 1) % Wrap \in Ticks
      BY SafetyAssumption DEF SafetyTypeOK, Ticks
    <3>2. SafetyTypeOK'
      BY <2>2, <3>1 DEF Tick, TickInterrupt, SafetyTypeOK, Ticks, armingVars, flagVars,
         paramVars
    <3>3. CommanderTypeOK(Ticks)'
      BY <2>2 DEF Tick, commanderVars, CommanderTypeOK, Setpoints, Ticks
    <3>4. QED
      BY <2>2, <3>2, <3>3 DEF Tick, motorParams
  <2>3. CASE ReceiveSetpoint
    <3>1. SafetyTypeOK'
      BY <2>3 DEF ReceiveSetpoint, safetyVars, armingVars, flagVars, paramVars,
         SafetyTypeOK, Ticks
    <3>2. tick \in Ticks /\ CommanderTypeOK(Ticks) /\ CommanderPacket(tick)
      BY <2>3 DEF ReceiveSetpoint, SafetyTypeOK
    <3>3. CommanderTypeOK(Ticks)'
      BY <3>2, CommanderPacketType
    <3>4. QED
      BY <2>3, <3>1, <3>3 DEF ReceiveSetpoint, coreVars, motorParams
  <2>4. CASE PlatformArming
    <3>1. SafetyTypeOK'
      BY <2>4 DEF PlatformArming, CommitArming, RequestArming, SafetyTypeOK, Ticks,
         flagVars, paramVars
    <3>2. QED
      BY <2>4, <3>1 DEF PlatformArming, commanderVars, coreVars, motorParams,
         CommanderTypeOK, Setpoints, Ticks
  <2>5. CASE WriteParam
    <3>1. SafetyTypeOK'
      BY <2>5 DEF WriteParam, WriteEmergencyStop, WriteArmParam, SafetyTypeOK, Ticks,
         safetyVars, armingVars, flagVars, paramVars
    <3>2. QED
      BY <2>5, <3>1 DEF WriteParam, commanderVars, coreVars, motorParams,
         CommanderTypeOK, Setpoints, Ticks
  <2>6. CASE UNCHANGED vars
    BY <2>6 DEF vars, safetyVars, commanderVars, coreVars, motorParams, armingVars,
       flagVars, paramVars, SafetyTypeOK, CommanderTypeOK, Setpoints, Ticks
  <2>7. QED
    BY <2>1, <2>2, <2>3, <2>4, <2>5, <2>6 DEF Next
<1>3. QED
  BY <1>1, <1>2, PTL DEF Spec

-----------------------------------------------------------------------------
(* The core loop implements the supervisor's specification *)

\* The supervisor inside the core loop behaves as the supervisor alone, so every
\* property of SafetySpec is one of the flight core.
THEOREM RefinesSafety == Spec => SupervisorImplemented
<1>1. Init => SafetyInit
  BY DEF Init
<1>2. TypeOK /\ [Next]_vars => [SafetyNext]_safetyVars
  <2> SUFFICES ASSUME TypeOK, [Next]_vars, safetyVars' # safetyVars
               PROVE  SafetyNext
    OBVIOUS
  <2>1. ASSUME NEW accel \in Accels, CoreIteration(accel)
        PROVE  SafetyNext
    <3>1. Update(accel, setpoint.timestamp, motorRatios # "zero")
      BY <2>1 DEF CoreIteration
    <3>2. setpoint.timestamp \in Ticks /\ (motorRatios # "zero") \in BOOLEAN
      BY DEF TypeOK, CommanderTypeOK, Setpoints
    <3>3. QED
      BY <3>1, <3>2 DEF SafetyNext
  <2>2. CASE Tick
    BY <2>2 DEF Tick, SafetyNext
  <2>3. CASE ReceiveSetpoint
    BY <2>3 DEF ReceiveSetpoint
  <2>4. CASE PlatformArming
    BY <2>4 DEF PlatformArming, SafetyNext
  <2>5. CASE WriteParam
    BY <2>5 DEF WriteParam, SafetyNext
  <2>6. CASE UNCHANGED vars
    BY <2>6 DEF vars
  <2>7. QED
    BY <2>1, <2>2, <2>3, <2>4, <2>5, <2>6 DEF Next
<1>3. QED
  BY <1>1, <1>2, TypeCorrect, PTL DEF Spec, SupervisorImplemented, SafetySpec

-----------------------------------------------------------------------------
(* Motors and thrust *)

\* The supervisor runs in the first step of its period only.
LEMMA FirstStep ==
  ASSUME TypeOK, RunsAt(SafetyDivider)
  PROVE  step = 0
<1>1. SafetyDivider \in Nat \ {0} /\ step \in 0 .. SafetyDivider - 1
  BY CoreAssumption DEF TypeOK
<1>2. step % SafetyDivider = step
  BY <1>1
<1>3. QED
  BY <1>2 DEF RunsAt

\* One iteration after the supervisor has withdrawn its permission no motor
\* turns on the mixers' account.
THEOREM MotorsCut == Spec => []MotorsCutNextIteration
<1>1. Init => MotorsCutNextIteration
  BY DEF Init, MotorsCutNextIteration
<1>2. TypeOK /\ MotorsCutNextIteration /\ [Next]_vars => MotorsCutNextIteration'
  <2> SUFFICES ASSUME TypeOK, MotorsCutNextIteration, [Next]_vars
               PROVE  MotorsCutNextIteration'
    OBVIOUS
  <2>1. ASSUME NEW accel \in Accels, CoreIteration(accel)
        PROVE  MotorsCutNextIteration'
    <3> SUFFICES ASSUME motorRatios' = "mixer", ~AreMotorsAllowedToRun'
                 PROVE  transitioned' /\ step' = 1 % SafetyDivider
      BY DEF MotorsCutNextIteration
    <3>1. AreMotorsAllowedToRun
      BY <2>1 DEF CoreIteration, SetRatios
    <3>2. state' # state
      BY <3>1 DEF AreMotorsAllowedToRun
    <3>3. RunsAt(SafetyDivider)
      BY <2>1, <3>2 DEF CoreIteration, safetyVars
    <3>4. step = 0
      BY <3>3, FirstStep
    <3>5. transitioned' = (state' # state)
      BY <2>1, <3>3, Zenon DEF CoreIteration
    <3>6. step' = (step + 1) % SafetyDivider /\ step + 1 = 1
      BY <2>1, <3>4 DEF CoreIteration
    <3>7. QED
      BY <3>2, <3>5, <3>6
  <2>2. CASE UNCHANGED <<state, motorRatios, transitioned, step>>
    BY <2>2 DEF MotorsCutNextIteration, AreMotorsAllowedToRun
  <2>3. QED
    BY <2>1, <2>2 DEF Next, Tick, TickInterrupt, ReceiveSetpoint, PlatformArming,
       CommitArming, RequestArming, WriteParam, WriteEmergencyStop, WriteArmParam, vars,
       coreVars, safetyVars
<1>3. QED
  BY <1>1, <1>2, TypeCorrect, PTL DEF Spec

-----------------------------------------------------------------------------
(* The commander watchdog *)

\* How long ago a tick was, without the modulus.
LEMMA ElapsedValue ==
  ASSUME NEW now \in Ticks, NEW t \in Ticks
  PROVE  (now - t) % Wrap = IF t <= now THEN now - t ELSE now - t + Wrap
<1> DEFINE d == now - t
<1>1. Wrap \in Nat /\ Wrap > 0 /\ d \in Int /\ d < Wrap /\ d + Wrap > 0
      /\ (t <= now <=> d >= 0)
  BY SafetyAssumption DEF Ticks
<1> HIDE DEF d
<1>2. CASE d >= 0
  <2>1. d % Wrap = d
    BY <1>1, <1>2
  <2>2. QED
    BY <1>1, <1>2, <2>1 DEF d
<1>3. CASE d < 0
  <2>1. d % Wrap = d + Wrap
    BY <1>1, <1>3
  <2>2. QED
    BY <1>1, <1>3, <2>1 DEF d
<1>4. QED
  BY <1>1, <1>2, <1>3

\* A tick ages everything by at most one.
LEMMA TickAges ==
  ASSUME tick \in Ticks, NEW t \in Ticks, TickInterrupt
  PROVE  (Elapsed(t))' <= Elapsed(t) + 1
<1>1. Wrap \in Nat /\ Wrap > 0
  BY SafetyAssumption
<1>2. tick' = IF tick + 1 = Wrap THEN 0 ELSE tick + 1
  <2>1. tick + 1 \in 1 .. Wrap
    BY <1>1 DEF Ticks
  <2>2. CASE tick + 1 = Wrap
    <3>1. Wrap % Wrap = 0
      BY <1>1
    <3>2. QED
      BY <2>2, <3>1 DEF TickInterrupt
  <2>3. CASE tick + 1 # Wrap
    <3>1. (tick + 1) % Wrap = tick + 1
      BY <1>1, <2>1, <2>3
    <3>2. QED
      BY <2>3, <3>1 DEF TickInterrupt
  <2>4. QED
    BY <2>2, <2>3
<1>3. tick' \in Ticks
  BY <1>1, <1>2 DEF Ticks
<1>4. Elapsed(t) = IF t <= tick THEN tick - t ELSE tick - t + Wrap
  BY ElapsedValue DEF Elapsed
<1>5. (Elapsed(t))' = IF t <= tick' THEN tick' - t ELSE tick' - t + Wrap
  BY <1>3, ElapsedValue DEF Elapsed
<1>6. QED
  BY <1>1, <1>2, <1>4, <1>5 DEF Ticks

\* What an update must have seen to let the vehicle fly on.
LEMMA FlyingOn ==
  ASSUME NEW c, FindTransition("Flying", c) = "Flying"
  PROVE  "commanderWdtWarning" \notin c /\ "isFlying" \in c
<1> DEFINE row(i) == stateTransitions["Flying"][i]
<1>1. /\ row(2) = OnAll("WarningLevelOut", {"commanderWdtWarning"}, {})
      /\ row(3) = OnAll("Landed", {}, {"isFlying"})
  BY DEF stateTransitions
<1>2. \A i \in 1 .. 3 : row(i).newState # "Flying"
  BY ConditionalRows
<1>3. Len(stateTransitions["Flying"]) = 3 /\ 3 \in 1 .. 3 /\ 2 \in 1 .. 3
  BY ConditionalRows
<1>4. \A i \in 1 .. 3 : ~IsTransitionValid(row(i), c)
  BY <1>2, <1>3, RowChosen
<1>5. ~IsTransitionValid(row(2), c) /\ ~IsTransitionValid(row(3), c)
  BY <1>3, <1>4
<1>6. "commanderWdtWarning" \in c =>
        IsTransitionValid(OnAll("WarningLevelOut", {"commanderWdtWarning"}, {}), c)
  BY DEF OnAll, Transition, IsTransitionValid, AreConditionsMet
<1>7. "isFlying" \notin c => IsTransitionValid(OnAll("Landed", {}, {"isFlying"}), c)
  BY DEF OnAll, Transition, IsTransitionValid, AreConditionsMet
<1>8. QED
  BY <1>1, <1>5, <1>6, <1>7

\* ... and to let it level out.
LEMMA LevellingOut ==
  ASSUME NEW s \in States, NEW c, FindTransition(s, c) = "WarningLevelOut"
  PROVE  "commanderWdtTimeout" \notin c
<1>1. s \in MotorStates
  BY MotorStatesEntered DEF MotorStates
<1>2. s # "ReadyToFly"
  <2>1. SUFFICES ASSUME s = "ReadyToFly" PROVE FALSE
    OBVIOUS
  <2>2. \/ FindTransition(s, c) = s
        \/ \E i \in 1 .. 3 : FindTransition(s, c) = stateTransitions[s][i].newState
    BY <2>1, ConditionalRows, RowChosen
  <2>3. FindTransition(s, c) \in {s, "ExceptFreeFall", "PreFlChecksNotPassed", "Flying"}
    BY <2>1, <2>2, ConditionalRows
  <2>4. QED
    BY <2>1, <2>3
<1>3. stateTransitions[s][1] = FlightAborted /\ FlightAborted.newState = "ExceptFreeFall"
  <2>1. /\ stateTransitions["Flying"][1] = FlightAborted
        /\ stateTransitions["WarningLevelOut"][1] = FlightAborted
    BY DEF stateTransitions
  <2>2. FlightAborted.newState = "ExceptFreeFall"
    BY DEF FlightAborted, OnAny, Transition
  <2>3. s = "Flying" \/ s = "WarningLevelOut"
    BY <1>1, <1>2 DEF MotorStates
  <2>4. QED
    BY <2>1, <2>2, <2>3
<1>4. PICK n \in {2, 3} : Len(stateTransitions[s]) = n
  BY <1>1, <1>2, ConditionalRows DEF MotorStates
<1>5. ~IsTransitionValid(stateTransitions[s][1], c)
  <2>1. SUFFICES ASSUME IsTransitionValid(stateTransitions[s][1], c) PROVE FALSE
    OBVIOUS
  <2>2. n \in 1 .. 3 /\ 1 \in 1 .. n
    OBVIOUS
  <2>3. PICK i \in 1 .. n :
          /\ FindTransition(s, c) = stateTransitions[s][i].newState
          /\ \A j \in 1 .. n : IsTransitionValid(stateTransitions[s][j], c) => i <= j
    BY <1>4, <2>1, <2>2, RowChosen
  <2>4. i = 1
    BY <2>1, <2>2, <2>3
  <2>5. QED
    BY <1>3, <2>3, <2>4
<1>6. "commanderWdtTimeout" \in c => IsTransitionValid(FlightAborted, c)
  BY DEF FlightAborted, OnAny, Transition, IsTransitionValid, AreConditionsMet
<1>7. QED
  BY <1>3, <1>5, <1>6

\* The timing conditions, in words of time.
LEMMA TimingConditionsMean ==
  ASSUME NEW accel, NEW timestamp, NEW thrustTick
  PROVE  LET c == Conditions(accel, timestamp, thrustTick)
         IN  /\ "isFlying" \in c <=> IsFlyingCheck(thrustTick)
             /\ "commanderWdtWarning" \in c <=> Elapsed(timestamp) > WdtStabilize
             /\ "commanderWdtTimeout" \in c <=> Elapsed(timestamp) > WdtShutdown
BY DEF Conditions, Holds

\* Ages, limits and the time since the last update are natural numbers.
LEMMA TimeTypes ==
  ASSUME TypeOK
  PROVE  /\ SinceUpdate \in 0 .. SafetyDivider
         /\ WdtStabilize \in Nat /\ WdtShutdown \in Nat /\ HysteresisTicks \in Nat
         /\ \A t \in Ticks : Elapsed(t) \in Nat
         /\ tick \in Ticks /\ setpoint.timestamp \in Ticks /\ latestThrustTick \in Ticks
         /\ Elapsed(setpoint.timestamp) \in Nat /\ Elapsed(latestThrustTick) \in Nat
         /\ SafetyDivider \in Nat
<1>1. SinceUpdate \in 0 .. SafetyDivider
  BY CoreAssumption DEF SinceUpdate, TypeOK
<1>2. WdtStabilize \in Nat /\ WdtShutdown \in Nat /\ HysteresisTicks \in Nat
  BY SafetyAssumption
<1>3. tick \in Ticks /\ setpoint.timestamp \in Ticks /\ latestThrustTick \in Ticks
  BY DEF TypeOK, SafetyTypeOK, CommanderTypeOK, Setpoints
<1>4. \A t \in Ticks : Elapsed(t) \in Nat
  BY <1>3, SafetyAssumption DEF Elapsed, Ticks
<1>5. Elapsed(setpoint.timestamp) \in Nat /\ Elapsed(latestThrustTick) \in Nat
  BY <1>3, <1>4
<1>6. SafetyDivider \in Nat
  BY CoreAssumption
<1>7. QED
  BY <1>1, <1>2, <1>3, <1>4, <1>5, <1>6

\* One iteration of the loop: either the supervisor looks at the ages, or the
\* time since it did has been counted.
LEMMA IterationAges ==
  ASSUME TypeOK, AgesWithTicks, NEW accel \in Accels, CoreIteration(accel)
  PROVE  AgesWithTicks'
<1>1. CASE RunsAt(SafetyDivider)
  <2> DEFINE timestamp  == setpoint.timestamp
             thrustTick == IF motorRatios # "zero" THEN tick ELSE latestThrustTick
             c          == Conditions(accel, timestamp, thrustTick)
  <2>1. Update(accel, timestamp, motorRatios # "zero")
    BY <1>1 DEF CoreIteration
  <2>2. /\ state' = FindTransition(state, c) /\ tick' = tick
        /\ latestThrustTick' = thrustTick
        /\ setpoint' = setpoint
    BY <2>1 DEF Update, CoreIteration, commanderVars
  <2>3. transitioned' = (state' # state)
    BY <1>1, Zenon DEF CoreIteration
  <2>4. /\ "isFlying" \in c <=> IsFlyingCheck(thrustTick)
        /\ "commanderWdtWarning" \in c <=> Elapsed(timestamp) > WdtStabilize
        /\ "commanderWdtTimeout" \in c <=> Elapsed(timestamp) > WdtShutdown
    BY TimingConditionsMean
  <2> HIDE DEF c
  <2>5. SinceUpdate' >= 0
    BY CoreAssumption, StepType DEF SinceUpdate, CoreIteration, TypeOK
  <2>6. /\ Elapsed(timestamp)' = Elapsed(timestamp)
        /\ Elapsed(thrustTick) = Elapsed(latestThrustTick)'
    BY <2>2 DEF Elapsed
  <2>7. Elapsed(timestamp) \in Nat /\ Elapsed(thrustTick) \in Nat
    BY TimeTypes
  <2>8. SinceUpdate' \in Int
    BY CoreAssumption, StepType DEF SinceUpdate, CoreIteration, TypeOK
  <2>9. ASSUME state' = "Flying", ~transitioned'
        PROVE  /\ Elapsed(timestamp)' <= WdtStabilize + SinceUpdate'
               /\ Elapsed(latestThrustTick)' <= HysteresisTicks + SinceUpdate'
    <3>1. FindTransition("Flying", c) = "Flying"
      BY <2>2, <2>3, <2>9
    <3>2. ~(Elapsed(timestamp) > WdtStabilize) /\ IsFlyingCheck(thrustTick)
      BY <2>4, <3>1, FlyingOn
    <3>3. Elapsed(thrustTick) < HysteresisTicks
      BY <3>2 DEF IsFlyingCheck
    <3>4. QED
      BY <2>5, <2>6, <2>7, <2>8, <3>2, <3>3, TimeTypes
  <2>10. ASSUME state' = "WarningLevelOut"
         PROVE  Elapsed(timestamp)' <= WdtShutdown + SinceUpdate'
    <3>1. state \in States
      BY DEF TypeOK, SafetyTypeOK
    <3>2. ~(Elapsed(timestamp) > WdtShutdown)
      BY <2>2, <2>4, <2>10, <3>1, LevellingOut
    <3>3. QED
      BY <2>5, <2>6, <2>7, <2>8, <3>2, TimeTypes
  <2>11. QED
    BY <2>9, <2>10 DEF AgesWithTicks
<1>2. CASE ~RunsAt(SafetyDivider)
  <2>1. step # 0
    <3>1. 0 % SafetyDivider = 0
      BY CoreAssumption
    <3>2. QED
      BY <1>2, <3>1 DEF RunsAt
  <2>2. SinceUpdate' = SinceUpdate
    <3>1. step \in 1 .. SafetyDivider - 1 /\ SafetyDivider \in Nat
      BY <2>1, CoreAssumption DEF TypeOK
    <3>2. step' = IF step + 1 = SafetyDivider THEN 0 ELSE step + 1
      <4>1. CASE step + 1 = SafetyDivider
        <5>1. SafetyDivider % SafetyDivider = 0
          BY CoreAssumption
        <5>2. QED
          BY <4>1, <5>1 DEF CoreIteration
      <4>2. CASE step + 1 # SafetyDivider
        <5>1. (step + 1) % SafetyDivider = step + 1
          BY <3>1, <4>2
        <5>2. QED
          BY <4>2, <5>1 DEF CoreIteration
      <4>3. QED
        BY <4>1, <4>2
    <3>3. dataReady /\ ~dataReady'
      BY DEF CoreIteration
    <3>4. QED
      BY <3>1, <3>2, <3>3 DEF SinceUpdate
  <2>3. UNCHANGED <<tick, state, transitioned, latestThrustTick, setpoint>>
    BY <1>2 DEF CoreIteration, safetyVars, commanderVars
  <2>4. QED
    BY <2>2, <2>3 DEF AgesWithTicks, Elapsed
<1>3. QED
  BY <1>1, <1>2

\* A setpoint is young when it is stored.
LEMMA PacketIsNew ==
  ASSUME CommanderPacket(tick)
  PROVE  setpoint' = setpoint \/ setpoint'.timestamp = tick
BY DEF CommanderPacket, OpenLoopSetpoint, GenericSetpoint, NotifySetpointsStop,
       SetSetpoint, Setpoint

\* What the supervisor saw at its last update ages by no more than the ticks
\* since: the inductive invariant behind the two bounds that follow.
THEOREM AgesBounded == Spec => []AgesWithTicks
<1>1. Init => AgesWithTicks
  BY DEF Init, SafetyInit, AgesWithTicks
<1>2. TypeOK /\ AgesWithTicks /\ [Next]_vars => AgesWithTicks'
  <2> SUFFICES ASSUME TypeOK, AgesWithTicks, [Next]_vars
               PROVE  AgesWithTicks'
    OBVIOUS
  <2>1. ASSUME NEW accel \in Accels, CoreIteration(accel)
        PROVE  AgesWithTicks'
    BY <2>1, IterationAges
  <2>2. CASE Tick
    <3>1. TickInterrupt /\ UNCHANGED <<state, transitioned, latestThrustTick, setpoint, step>>
      BY <2>2 DEF Tick, TickInterrupt, commanderVars
    <3>2. SinceUpdate' = SinceUpdate + 1
      BY <2>2, CoreAssumption DEF Tick, SinceUpdate, TypeOK
    <3>3. /\ Elapsed(setpoint.timestamp)' <= Elapsed(setpoint.timestamp) + 1
          /\ Elapsed(latestThrustTick)' <= Elapsed(latestThrustTick) + 1
      BY <3>1, TickAges, TimeTypes DEF Elapsed
    <3>4. /\ Elapsed(setpoint.timestamp)' \in Int /\ Elapsed(latestThrustTick)' \in Int
      <4>1. tick' \in Int /\ setpoint'.timestamp \in Int /\ latestThrustTick' \in Int
        <5>1. tick' \in Int
          BY <3>1, TimeTypes, SafetyAssumption DEF TickInterrupt, Ticks
        <5>2. QED
          BY <3>1, <5>1, TimeTypes DEF Ticks
      <4>2. QED
        BY <4>1, SafetyAssumption DEF Elapsed
    <3> DEFINE age        == Elapsed(setpoint.timestamp)
               thrustAge  == Elapsed(latestThrustTick)
               age1       == Elapsed(setpoint.timestamp)'
               thrustAge1 == Elapsed(latestThrustTick)'
               since      == SinceUpdate
               since1     == SinceUpdate'
    <3>5. /\ \A limit \in Nat : age <= limit + since => age1 <= limit + since1
          /\ \A limit \in Nat : thrustAge <= limit + since => thrustAge1 <= limit + since1
      <4>1. age \in Nat /\ thrustAge \in Nat /\ since \in Nat
        BY TimeTypes
      <4> HIDE DEF age, thrustAge, age1, thrustAge1, since, since1
      <4>2. /\ age1 \in Int /\ thrustAge1 \in Int /\ since1 = since + 1
            /\ age1 <= age + 1 /\ thrustAge1 <= thrustAge + 1
        BY <3>2, <3>3, <3>4 DEF age, thrustAge, age1, thrustAge1, since, since1
      <4>3. QED
        BY <4>1, <4>2
    <3>6. QED
      BY <3>1, <3>5, TimeTypes, Zenon DEF AgesWithTicks
  <2>3. CASE ReceiveSetpoint
    <3>1. UNCHANGED <<tick, state, transitioned, latestThrustTick, step, dataReady>>
      BY <2>3 DEF ReceiveSetpoint, safetyVars, coreVars
    <3>2. CASE setpoint' = setpoint
      <4>1. UNCHANGED <<tick, state, transitioned, latestThrustTick, step, dataReady, setpoint>>
        BY <3>1, <3>2
      <4>2. QED
        BY <4>1 DEF AgesWithTicks, SinceUpdate, Elapsed
    <3>3. CASE setpoint'.timestamp = tick
      <4> DEFINE age == Elapsed(setpoint.timestamp)'
                 since == SinceUpdate'
      <4>1. age = 0
        BY <3>1, <3>3, ElapsedNow, TimeTypes DEF Elapsed
      <4>2. SinceUpdate' = SinceUpdate /\ (Elapsed(latestThrustTick))' = Elapsed(latestThrustTick)
        BY <3>1 DEF SinceUpdate, Elapsed
      <4>3. since \in Nat /\ WdtStabilize \in Nat /\ WdtShutdown \in Nat
        BY <4>2, TimeTypes
      <4>4. age <= WdtStabilize + since /\ age <= WdtShutdown + since
        <5> HIDE DEF age, since
        <5>1. QED
          BY <4>1, <4>3
      <4>5. state' = "Flying" /\ ~transitioned' =>
              Elapsed(latestThrustTick)' <= HysteresisTicks + SinceUpdate'
        BY <3>1, <4>2 DEF AgesWithTicks
      <4>6. QED
        BY <4>4, <4>5, Zenon DEF AgesWithTicks
    <3>4. QED
      BY <2>3, <3>2, <3>3, PacketIsNew DEF ReceiveSetpoint
  <2>4. CASE UNCHANGED <<tick, state, transitioned, latestThrustTick, step, dataReady, setpoint>>
    BY <2>4 DEF AgesWithTicks, SinceUpdate, Elapsed
  <2>5. QED
    BY <2>1, <2>2, <2>3, <2>4 DEF Next, PlatformArming, CommitArming, RequestArming,
       WriteParam, WriteEmergencyStop, WriteArmParam, vars, safetyVars, commanderVars,
       coreVars
<1>3. QED
  BY <1>1, <1>2, TypeCorrect, PTL DEF Spec

\* A setpoint never grows older in flight than the watchdog's limits allow.
THEOREM LinkLoss == Spec => []LinkLossBound
<1>1. TypeOK /\ AgesWithTicks => LinkLossBound
  BY TimeTypes DEF AgesWithTicks, LinkLossBound
<1>2. QED
  BY <1>1, AgesBounded, TypeCorrect, PTL

\* A vehicle that keeps flying has been seen with a motor turning.
THEOREM ThrustSeen == Spec => []FlyingHasThrust
<1>1. TypeOK /\ AgesWithTicks => FlyingHasThrust
  BY TimeTypes DEF AgesWithTicks, FlyingHasThrust
<1>2. QED
  BY <1>1, AgesBounded, TypeCorrect, PTL

\* What an update must have seen to land the vehicle.
LEMMA LandingSeen ==
  ASSUME NEW c, FindTransition("Flying", c) = "Landed"
  PROVE  "isFlying" \notin c
<1> DEFINE row(i) == stateTransitions["Flying"][i]
<1>1. /\ row(1).newState = "ExceptFreeFall" /\ row(2).newState = "WarningLevelOut"
      /\ row(3) = OnAll("Landed", {}, {"isFlying"})
  BY DEF stateTransitions, FlightAborted, OnAny, OnAll, Transition
<1>2. Len(stateTransitions["Flying"]) = 3 /\ 3 \in 1 .. 3
  BY ConditionalRows
<1>3. PICK i \in 1 .. 3 : FindTransition("Flying", c) = row(i).newState
                         /\ IsTransitionValid(row(i), c)
  BY <1>2, RowChosen
<1>4. i = 3
  BY <1>1, <1>3
<1>5. IsTransitionValid(OnAll("Landed", {}, {"isFlying"}), c) => "isFlying" \notin c
  BY DEF OnAll, Transition, IsTransitionValid, AreConditionsMet
<1>6. QED
  BY <1>1, <1>3, <1>4, <1>5

\* The supervisor lands a vehicle only if no motor turns, whatever the hysteresis is.
THEOREM LandingIdle ==
  ASSUME HysteresisTicks > 0
  PROVE  Spec => LandingNeedsIdleMotors
<1>1. ASSUME TypeOK, Next, state = "Flying", state' = "Landed", motorRatios # "zero", tick # 0
      PROVE  FALSE
  <2>1. PICK accel \in Accels : CoreIteration(accel)
    BY <1>1 DEF Next, Tick, TickInterrupt, ReceiveSetpoint, PlatformArming, CommitArming,
       RequestArming, WriteParam, WriteEmergencyStop, WriteArmParam, safetyVars
  <2>2. RunsAt(SafetyDivider)
    BY <1>1, <2>1 DEF CoreIteration, safetyVars
  <2>3. Update(accel, setpoint.timestamp, TRUE)
    BY <1>1, <2>1, <2>2 DEF CoreIteration
  <2> DEFINE c == Conditions(accel, setpoint.timestamp, tick)
  <2>4. FindTransition("Flying", c) = "Landed"
    BY <1>1, <2>3 DEF Update
  <2>5. "isFlying" \in c <=> IsFlyingCheck(tick)
    BY TimingConditionsMean
  <2>6. IsFlyingCheck(tick)
    BY <1>1, TimeTypes, ElapsedNow, SafetyAssumption DEF IsFlyingCheck
  <2> HIDE DEF c
  <2>7. QED
    BY <2>4, <2>5, <2>6, LandingSeen
<1>2. TypeOK /\ [Next]_vars =>
        [(state = "Flying" /\ state' = "Landed") => motorRatios = "zero" \/ tick = 0]_vars
  BY <1>1
<1>3. QED
  BY <1>2, TypeCorrect, PTL DEF Spec, LandingNeedsIdleMotors
=============================================================================
