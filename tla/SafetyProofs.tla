---------------------------- MODULE SafetyProofs ----------------------------
(***************************************************************************)
(* The supervisor's safety, for every tick width, every limit and every    *)
(* input.                                                                  *)
(***************************************************************************)
EXTENDS Safety, TLAPS

-----------------------------------------------------------------------------
(* The transition table: what each state may lead to *)

\* A set of table rows has a first one.
LEMMA FirstRow ==
  ASSUME NEW S, S \subseteq 1 .. 3, S # {}
  PROVE  LET m == CHOOSE i \in S : \A j \in S : i <= j
         IN  m \in S /\ \A j \in S : m <= j
<1>1. \E i \in S : \A j \in S : i <= j
  <2>1. CASE 1 \in S
    <3>1. \A j \in S : 1 <= j  OBVIOUS
    <3>2. QED  BY <2>1, <3>1
  <2>2. CASE 1 \notin S /\ 2 \in S
    <3>1. \A j \in S : 2 <= j  BY <2>2
    <3>2. QED  BY <2>2, <3>1
  <2>3. CASE 1 \notin S /\ 2 \notin S
    <3>1. \A j \in S : j = 3  BY <2>3
    <3>2. \A j \in S : 3 <= j  BY <3>1
    <3>3. 3 \in S  BY <3>1
    <3>4. QED  BY <3>2, <3>3
  <2>4. QED  BY <2>1, <2>2, <2>3
<1>2. QED
  BY <1>1, Zenon

\* A transition is either no transition or the first valid row of the state.
LEMMA RowChosen ==
  ASSUME NEW s, NEW c, NEW n \in 1 .. 3, Len(stateTransitions[s]) = n
  PROVE  \/ /\ FindTransition(s, c) = s
            /\ \A i \in 1 .. n : ~IsTransitionValid(stateTransitions[s][i], c)
         \/ \E i \in 1 .. n :
              /\ FindTransition(s, c) = stateTransitions[s][i].newState
              /\ IsTransitionValid(stateTransitions[s][i], c)
              /\ \A j \in 1 .. n : IsTransitionValid(stateTransitions[s][j], c) => i <= j
<1> DEFINE rows  == stateTransitions[s]
           valid == {i \in 1 .. Len(rows) : IsTransitionValid(rows[i], c)}
           first == CHOOSE i \in valid : \A j \in valid : i <= j
<1>1. FindTransition(s, c) = IF valid = {} THEN s ELSE rows[first].newState
  BY DEF FindTransition
<1>2. CASE valid = {}
  BY <1>1, <1>2
<1>3. CASE valid # {}
  <2>1. valid \subseteq 1 .. 3
    OBVIOUS
  <2>2. first \in valid /\ \A j \in valid : first <= j
    BY <1>3, <2>1, FirstRow, Zenon
  <2>3. FindTransition(s, c) = rows[first].newState
    BY <1>1, <1>3, Zenon
  <2> HIDE DEF first
  <2>4. QED
    BY <2>2, <2>3, Zenon
<1>4. QED
  BY <1>2, <1>3

\* The rows that are taken unconditionally are valid under any conditions.
LEMMA AlwaysValid ==
  ASSUME NEW new, NEW c
  PROVE  IsTransitionValid(Always(new), c) /\ Always(new).newState = new
BY DEF Always, Transition, IsTransitionValid, AreConditionsMet

\* A state with a single row that is always valid is left for that row's state.
LEMMA Unconditional ==
  ASSUME NEW s, NEW new, NEW c, stateTransitions[s] = <<Always(new)>>
  PROVE  FindTransition(s, c) = new
<1>1. Len(stateTransitions[s]) = 1 /\ stateTransitions[s][1] = Always(new)
  OBVIOUS
<1>2. IsTransitionValid(stateTransitions[s][1], c) /\ stateTransitions[s][1].newState = new
  BY <1>1, AlwaysValid
<1>3. \A i \in 1 .. 1 : i = 1
  OBVIOUS
<1>4. 1 \in 1 .. 3 /\ 1 \in 1 .. 1
  OBVIOUS
<1>5. \/ ~IsTransitionValid(stateTransitions[s][1], c)
      \/ \E i \in 1 .. 1 : FindTransition(s, c) = stateTransitions[s][i].newState
  BY <1>1, <1>4, RowChosen
<1>6. QED
  BY <1>2, <1>3, <1>5

\* An exception leads nowhere but to the locked state.
LEMMA FromException ==
  ASSUME NEW c
  PROVE  /\ FindTransition("ExceptFreeFall", c) = "Locked"
         /\ FindTransition("Locked", c) = "Locked"
<1>1. FindTransition("ExceptFreeFall", c) = "Locked"
  <2>1. stateTransitions["ExceptFreeFall"] = <<Always("Locked")>>
    BY DEF stateTransitions
  <2>2. QED
    BY <2>1, Unconditional, Zenon
<1>2. FindTransition("Locked", c) = "Locked"
  <2>1. stateTransitions["Locked"] = <<StayLocked>>
    BY DEF stateTransitions
  <2>2. StayLocked.newState = "Locked"
    BY DEF StayLocked, Transition
  <2>3. Len(stateTransitions["Locked"]) = 1 /\ stateTransitions["Locked"][1] = StayLocked
    BY <2>1
  <2>4. \A i \in 1 .. 1 : i = 1
    OBVIOUS
  <2>5. 1 \in 1 .. 3
    OBVIOUS
  <2>6. \/ FindTransition("Locked", c) = "Locked"
        \/ \E i \in 1 .. 1 :
             FindTransition("Locked", c) = stateTransitions["Locked"][i].newState
    BY <2>3, <2>5, RowChosen
  <2>7. QED
    BY <2>2, <2>3, <2>4, <2>6
<1>3. QED
  BY <1>1, <1>2

\* Where the states that are left on conditions may lead.
LEMMA ConditionalRows ==
  /\ Len(stateTransitions["PreFlChecksNotPassed"]) = 2
  /\ Len(stateTransitions["PreFlChecksPassed"]) = 3
  /\ Len(stateTransitions["ReadyToFly"]) = 3
  /\ Len(stateTransitions["Flying"]) = 3
  /\ Len(stateTransitions["WarningLevelOut"]) = 2
  /\ \A i \in 1 .. 2 : stateTransitions["PreFlChecksNotPassed"][i].newState \in
                         {"ExceptFreeFall", "PreFlChecksPassed"}
  /\ stateTransitions["PreFlChecksPassed"][1].newState = "ExceptFreeFall"
  /\ stateTransitions["PreFlChecksPassed"][2].newState = "PreFlChecksNotPassed"
  /\ stateTransitions["PreFlChecksPassed"][3].newState = "ReadyToFly"
  /\ \A i \in 1 .. 3 : stateTransitions["ReadyToFly"][i].newState \in
                         {"ExceptFreeFall", "PreFlChecksNotPassed", "Flying"}
  /\ \A i \in 1 .. 3 : stateTransitions["Flying"][i].newState \in
                         {"ExceptFreeFall", "WarningLevelOut", "Landed"}
  /\ \A i \in 1 .. 2 : stateTransitions["WarningLevelOut"][i].newState \in
                         {"ExceptFreeFall", "Flying"}
BY DEF stateTransitions, EmergencyStop, FlightAborted, OnAny, OnAll, Transition

\* The transition into ReadyToFly, and what blocks it.
LEMMA ReadyRow ==
  ASSUME NEW c
  PROVE  /\ IsTransitionValid(stateTransitions["PreFlChecksPassed"][3], c) => "armed" \in c
         /\ "emergencyStop" \in c =>
              IsTransitionValid(stateTransitions["PreFlChecksPassed"][1], c)
<1>1. stateTransitions["PreFlChecksPassed"][1] = EmergencyStop
  BY DEF stateTransitions
<1>2. stateTransitions["PreFlChecksPassed"][3] =
        Transition("ReadyToFly", {"armed"}, {}, "All", ConfIsTumbled, "Any")
  BY DEF stateTransitions
<1>3. "emergencyStop" \in c => IsTransitionValid(EmergencyStop, c)
  BY DEF EmergencyStop, OnAny, Transition, IsTransitionValid, AreConditionsMet
<1>4. IsTransitionValid(
        Transition("ReadyToFly", {"armed"}, {}, "All", ConfIsTumbled, "Any"), c)
        => "armed" \in c
  BY DEF Transition, IsTransitionValid, AreConditionsMet
<1>5. QED
  BY <1>1, <1>2, <1>3, <1>4

\* Every transition leads to a state of the table.
LEMMA TransitionType ==
  ASSUME NEW s \in States, NEW c
  PROVE  FindTransition(s, c) \in States
<1>1. CASE s \in {"NotInitialized", "Reset", "Landed", "ExceptFreeFall"}
  <2>1. /\ stateTransitions["NotInitialized"] = <<Always("PreFlChecksNotPassed")>>
        /\ stateTransitions["Reset"] = <<Always("PreFlChecksNotPassed")>>
        /\ stateTransitions["Landed"] = <<Always("Reset")>>
        /\ stateTransitions["ExceptFreeFall"] = <<Always("Locked")>>
    BY DEF stateTransitions
  <2>2. FindTransition(s, c) \in {"PreFlChecksNotPassed", "Reset", "Locked"}
    BY <1>1, <2>1, Unconditional
  <2>3. QED
    BY <2>2 DEF States
<1>2. CASE s = "Locked"
  BY <1>2, FromException
<1>3. CASE s \in {"PreFlChecksNotPassed", "WarningLevelOut"}
  <2>1. \/ FindTransition(s, c) = s
        \/ \E i \in 1 .. 2 : FindTransition(s, c) = stateTransitions[s][i].newState
    BY <1>3, ConditionalRows, RowChosen
  <2>2. \A i \in 1 .. 2 : stateTransitions[s][i].newState \in States
    BY <1>3, ConditionalRows DEF States
  <2>3. QED
    BY <2>1, <2>2
<1>4. CASE s \in {"PreFlChecksPassed", "ReadyToFly", "Flying"}
  <2>1. \/ FindTransition(s, c) = s
        \/ \E i \in 1 .. 3 : FindTransition(s, c) = stateTransitions[s][i].newState
    BY <1>4, ConditionalRows, RowChosen
  <2>2. \A i \in 1 .. 3 : i = 1 \/ i = 2 \/ i = 3
    OBVIOUS
  <2>3. \A i \in 1 .. 3 : stateTransitions[s][i].newState \in States
    BY <1>4, <2>2, ConditionalRows DEF States
  <2>4. QED
    BY <2>1, <2>3
<1>5. QED
  BY <1>1, <1>2, <1>3, <1>4 DEF States

\* The states in which the motors may run are entered through ReadyToFly only,
\* by an armed vehicle without an emergency stop.
LEMMA MotorStatesEntered ==
  ASSUME NEW s \in States, NEW c, s \notin MotorStates,
         FindTransition(s, c) \in MotorStates
  PROVE  /\ s = "PreFlChecksPassed"
         /\ FindTransition(s, c) = "ReadyToFly"
         /\ "armed" \in c /\ "emergencyStop" \notin c
<1>1. s \notin {"NotInitialized", "Reset", "Landed", "ExceptFreeFall", "Locked"}
  <2>1. /\ stateTransitions["NotInitialized"] = <<Always("PreFlChecksNotPassed")>>
        /\ stateTransitions["Reset"] = <<Always("PreFlChecksNotPassed")>>
        /\ stateTransitions["Landed"] = <<Always("Reset")>>
    BY DEF stateTransitions
  <2>2. /\ FindTransition("NotInitialized", c) = "PreFlChecksNotPassed"
        /\ FindTransition("Reset", c) = "PreFlChecksNotPassed"
        /\ FindTransition("Landed", c) = "Reset"
    BY <2>1, Unconditional
  <2>3. QED
    BY <2>2, FromException DEF MotorStates
<1>2. s # "PreFlChecksNotPassed"
  <2>1. SUFFICES ASSUME s = "PreFlChecksNotPassed" PROVE FALSE
    OBVIOUS
  <2>2. \/ FindTransition(s, c) = s
        \/ \E i \in 1 .. 2 : FindTransition(s, c) = stateTransitions[s][i].newState
    BY <2>1, ConditionalRows, RowChosen
  <2>3. FindTransition(s, c) \in {s, "ExceptFreeFall", "PreFlChecksPassed"}
    BY <2>1, <2>2, ConditionalRows
  <2>4. QED
    BY <2>3 DEF MotorStates
<1>3. s = "PreFlChecksPassed"
  BY <1>1, <1>2 DEF States, MotorStates
<1>4. PICK i \in 1 .. 3 :
        /\ FindTransition(s, c) = stateTransitions[s][i].newState
        /\ IsTransitionValid(stateTransitions[s][i], c)
        /\ \A j \in 1 .. 3 : IsTransitionValid(stateTransitions[s][j], c) => i <= j
  <2>1. Len(stateTransitions[s]) = 3
    BY <1>3, ConditionalRows
  <2>2. 3 \in 1 .. 3
    OBVIOUS
  <2>3. FindTransition(s, c) # s
    OBVIOUS
  <2>4. QED
    BY <2>1, <2>2, <2>3, RowChosen
<1>5. i = 3
  <2>1. i = 1 \/ i = 2 \/ i = 3
    OBVIOUS
  <2>2. i # 1 /\ i # 2
    BY <1>3, <1>4, ConditionalRows DEF MotorStates
  <2>3. QED
    BY <2>1, <2>2
<1>6. FindTransition(s, c) = "ReadyToFly" /\ "armed" \in c
  BY <1>3, <1>4, <1>5, ConditionalRows, ReadyRow
<1>7. "emergencyStop" \notin c
  BY <1>3, <1>4, <1>5, ReadyRow
<1>8. QED
  BY <1>3, <1>6, <1>7

\* The conditions speak of the supervisor's variables.
LEMMA ConditionsMean ==
  ASSUME NEW accel, NEW timestamp, NEW thrustTick
  PROVE  LET c == Conditions(accel, timestamp, thrustTick)
         IN  /\ "armed" \in c <=> IsArmed
             /\ "emergencyStop" \in c <=> paramEmergencyStop
BY DEF Conditions, Holds

-----------------------------------------------------------------------------
(* Type correctness *)

\* The counter of ticks has a first value.
LEMMA ZeroTick == 0 \in Ticks
BY SafetyAssumption DEF Ticks

\* An update keeps the types of the supervisor.
LEMMA UpdateType ==
  ASSUME SafetyTypeOK, NEW accel, NEW timestamp \in Ticks, NEW overIdle \in BOOLEAN,
         Update(accel, timestamp, overIdle)
  PROVE  SafetyTypeOK'
<1> DEFINE thrustTick == IF overIdle THEN tick ELSE latestThrustTick
           conditions == Conditions(accel, timestamp, thrustTick)
<1>1. state' = FindTransition(state, conditions) /\ state \in States
  BY DEF Update, SafetyTypeOK
<1>2. state' \in States
  BY <1>1, TransitionType, Zenon
<1>3. {tick, initialTumbleTick, latestThrustTick}' \subseteq Ticks
  <2>1. /\ 0 \in Ticks
        /\ tick \in Ticks /\ initialTumbleTick \in Ticks /\ latestThrustTick \in Ticks
    BY ZeroTick DEF SafetyTypeOK
  <2>2. TumbleTick(accel) \in Ticks
    BY <2>1 DEF TumbleTick
  <2>3. thrustTick \in Ticks
    BY <2>1
  <2>4. tick' = tick /\ initialTumbleTick' = TumbleTick(accel)
        /\ latestThrustTick' = thrustTick
    BY DEF Update
  <2>5. QED
    BY <2>1, <2>2, <2>3, <2>4, Zenon
<1>4. isArmingActivated' \in BOOLEAN
  BY DEF Update, SafetyTypeOK, ArmingAfter
<1>5. isTumbledFlag' \in BOOLEAN
  BY DEF Update, UpdateLogData, IsTumbledCheck
<1>6. {canFlyFlag, isFlyingFlag}' \subseteq BOOLEAN
  BY DEF Update, UpdateLogData
<1>7. infoBitfield' \subseteq
        {"canArm", "isArmed", "autoArm", "canFly", "isFlying", "isTumbled"}
  BY DEF Update, UpdateLogData, Holds
<1>8. /\ pendingArming' \in {"none", "arm", "disarm"}
      /\ {paramEmergencyStop, deprecatedArmParam}' \subseteq BOOLEAN
  BY DEF Update, SafetyTypeOK, paramVars
<1>9. QED
  BY <1>2, <1>3, <1>4, <1>5, <1>6, <1>7, <1>8 DEF SafetyTypeOK

\* Every variable of the supervisor keeps the range of the code's type.
THEOREM SafetyTypeCorrect == SafetySpec => []SafetyTypeOK
<1>1. SafetyInit => SafetyTypeOK
  <2>1. SafetyInit => {tick, initialTumbleTick, latestThrustTick} \subseteq Ticks
    BY ZeroTick DEF SafetyInit
  <2>2. QED
    BY <2>1 DEF SafetyInit, SafetyTypeOK, States
<1>2. SafetyTypeOK /\ [SafetyNext]_safetyVars => SafetyTypeOK'
  <2> SUFFICES ASSUME SafetyTypeOK, [SafetyNext]_safetyVars
               PROVE  SafetyTypeOK'
    OBVIOUS
  <2> USE DEF SafetyTypeOK
  <2>1. CASE TickInterrupt
    BY <2>1, SafetyAssumption DEF TickInterrupt, Ticks, armingVars, flagVars, paramVars
  <2>2. ASSUME NEW doArm \in BOOLEAN, RequestArming(doArm)
        PROVE  SafetyTypeOK'
    BY <2>2 DEF RequestArming, flagVars, paramVars
  <2>3. CASE CommitArming
    BY <2>3 DEF CommitArming, flagVars, paramVars
  <2>4. CASE WriteEmergencyStop
    BY <2>4 DEF WriteEmergencyStop, armingVars, flagVars
  <2>5. CASE WriteArmParam
    BY <2>5 DEF WriteArmParam, armingVars, flagVars
  <2>6. ASSUME NEW accel \in Accels, NEW timestamp \in Ticks, NEW overIdle \in BOOLEAN,
               Update(accel, timestamp, overIdle)
        PROVE  SafetyTypeOK'
    BY <2>6, UpdateType
  <2>7. CASE UNCHANGED safetyVars
    BY <2>7 DEF safetyVars, armingVars, flagVars, paramVars
  <2>8. QED
    BY <2>1, <2>2, <2>3, <2>4, <2>5, <2>6, <2>7 DEF SafetyNext
<1>3. QED
  BY <1>1, <1>2, PTL DEF SafetySpec

-----------------------------------------------------------------------------
(* What the supervisor may never do *)

\* The supervisor's state is moved by its update alone.
LEMMA OnlyUpdateMoves ==
  ASSUME [SafetyNext]_safetyVars, state' # state
  PROVE  \E accel \in Accels, timestamp \in Ticks, overIdle \in BOOLEAN :
            Update(accel, timestamp, overIdle)
BY DEF SafetyNext, TickInterrupt, RequestArming, CommitArming, WriteEmergencyStop,
       WriteArmParam, safetyVars

\* Once the vehicle has been dropped no client request lets the motors run again.
THEOREM ExceptionFinal == SafetySpec => ExceptionIsFinal
<1>1. ASSUME [SafetyNext]_safetyVars, state \in ExceptionStates
      PROVE  state' \in ExceptionStates
  <2>1. CASE state' = state
    BY <1>1, <2>1
  <2>2. CASE state' # state
    <3>1. PICK accel \in Accels, timestamp \in Ticks, overIdle \in BOOLEAN :
             Update(accel, timestamp, overIdle)
      BY <1>1, <2>2, OnlyUpdateMoves
    <3>2. \E c : state' = FindTransition(state, c)
      BY <3>1 DEF Update
    <3>3. QED
      BY <1>1, <3>2, FromException DEF ExceptionStates
  <2>3. QED
    BY <2>1, <2>2
<1>2. QED
  BY <1>1, PTL DEF SafetySpec, ExceptionIsFinal

\* The motors are permitted to start only for an armed vehicle whose checks have
\* passed, and never with the emergency stop set.
THEOREM StartsArmed == SafetySpec => MotorsStartArmed
<1>1. ASSUME SafetyTypeOK, [SafetyNext]_safetyVars,
             ~AreMotorsAllowedToRun, AreMotorsAllowedToRun'
      PROVE  CanArm /\ IsArmed /\ ~paramEmergencyStop /\ state' = "ReadyToFly"
  <2>1. PICK accel \in Accels, timestamp \in Ticks, overIdle \in BOOLEAN :
           Update(accel, timestamp, overIdle)
    BY <1>1, OnlyUpdateMoves DEF AreMotorsAllowedToRun
  <2> DEFINE thrustTick == IF overIdle THEN tick ELSE latestThrustTick
             c == Conditions(accel, timestamp, thrustTick)
  <2>2. state' = FindTransition(state, c)
    BY <2>1 DEF Update
  <2>3. /\ "armed" \in c <=> IsArmed
        /\ "emergencyStop" \in c <=> paramEmergencyStop
    BY ConditionsMean
  <2>4. state \in States /\ state \notin MotorStates /\ state' \in MotorStates
    BY <1>1 DEF SafetyTypeOK, AreMotorsAllowedToRun
  <2> HIDE DEF c
  <2>5. QED
    BY <2>2, <2>3, <2>4, MotorStatesEntered DEF CanArm
<1>2. QED
  BY <1>1, SafetyTypeCorrect, PTL DEF SafetySpec, MotorsStartArmed

\* An arming does not outlive the permission it led to.
THEOREM ArmingSpent == SafetySpec => ArmingIsSpent
<1>1. ASSUME SafetyTypeOK, [SafetyNext]_safetyVars,
             (AreMotorsAllowedToRun /\ ~AreMotorsAllowedToRun') \/ (~CanArm /\ CanArm')
      PROVE  isArmingActivated' = (CanArm' /\ deprecatedArmParam)
  <2>1. PICK accel \in Accels, timestamp \in Ticks, overIdle \in BOOLEAN :
           Update(accel, timestamp, overIdle)
    BY <1>1, OnlyUpdateMoves DEF AreMotorsAllowedToRun, CanArm
  <2>2. state' \notin MotorStates
    BY <1>1 DEF AreMotorsAllowedToRun, CanArm, MotorStates
  <2>3. state' # state
    BY <1>1 DEF AreMotorsAllowedToRun, CanArm
  <2>4. isArmingActivated' = ArmingAfter(state')
    BY <2>1, <2>3 DEF Update
  <2>5. CASE state' = "PreFlChecksPassed" /\ deprecatedArmParam
    BY <2>4, <2>5 DEF ArmingAfter, CanArm
  <2>6. CASE ~(state' = "PreFlChecksPassed" /\ deprecatedArmParam)
    <3>1. isArmingActivated' = FALSE
      BY <1>1, <2>2, <2>4, <2>6 DEF ArmingAfter, SafetyTypeOK
    <3>2. QED
      BY <1>1, <2>6, <3>1 DEF CanArm, SafetyTypeOK
  <2>7. QED
    BY <2>5, <2>6
<1>2. QED
  BY <1>1, SafetyTypeCorrect, PTL DEF SafetySpec, ArmingIsSpent

\* The logged summary agrees with the state that the motors obey.
THEOREM LogMatches == SafetySpec => []LogMatchesState
<1>1. SafetyInit => LogMatchesState
  <2> SUFFICES ASSUME SafetyInit  PROVE LogMatchesState
    OBVIOUS
  <2>1. state = "NotInitialized" /\ infoBitfield = {}
    BY DEF SafetyInit
  <2>2. canFlyFlag = FALSE /\ isFlyingFlag = FALSE
    BY DEF SafetyInit
  <2>3. /\ AreMotorsAllowedToRun = FALSE /\ CanArm = FALSE
        /\ (state \in {"Flying", "WarningLevelOut"}) = FALSE
    BY <2>1 DEF AreMotorsAllowedToRun, MotorStates, CanArm
  <2>4. ("canFly" \in infoBitfield) = FALSE /\ ("canArm" \in infoBitfield) = FALSE
    BY <2>1
  <2>5. QED
    BY <2>2, <2>3, <2>4, Zenon DEF LogMatchesState
<1>2. LogMatchesState /\ [SafetyNext]_safetyVars => LogMatchesState'
  <2> SUFFICES ASSUME LogMatchesState, [SafetyNext]_safetyVars
               PROVE  LogMatchesState'
    OBVIOUS
  <2>1. CASE UNCHANGED <<state, flagVars>>
    BY <2>1 DEF LogMatchesState, flagVars, AreMotorsAllowedToRun, CanArm
  <2>2. ASSUME NEW accel \in Accels, NEW timestamp \in Ticks, NEW overIdle \in BOOLEAN,
               Update(accel, timestamp, overIdle)
        PROVE  LogMatchesState'
    <3>1. /\ canFlyFlag' = AreMotorsAllowedToRun'
          /\ isFlyingFlag' = (state' \in {"Flying", "WarningLevelOut"})
      BY <2>2, Zenon DEF Update, UpdateLogData, AreMotorsAllowedToRun
    <3>2. canFlyFlag' \in BOOLEAN
      BY <2>2 DEF Update, UpdateLogData
    <3>3. infoBitfield' =
            UNION {Holds("canArm", CanArm'),
                   Holds("isArmed", isArmingActivated' \/ deprecatedArmParam),
                   Holds("autoArm", deprecatedArmParam),
                   Holds("canFly", canFlyFlag'),
                   Holds("isFlying", isFlyingFlag'),
                   Holds("isTumbled", isTumbledFlag')}
      BY <2>2, Zenon DEF Update, UpdateLogData, CanArm
    <3>4. /\ ("canFly" \in infoBitfield)' = canFlyFlag'
          /\ ("canArm" \in infoBitfield)' = CanArm'
      BY <3>2, <3>3 DEF Holds, CanArm
    <3>5. QED
      BY <3>1, <3>4, Zenon DEF LogMatchesState
  <2>3. QED
    BY <2>1, <2>2 DEF SafetyNext, TickInterrupt, RequestArming, CommitArming,
       WriteEmergencyStop, WriteArmParam, safetyVars
<1>3. QED
  BY <1>1, <1>2, PTL DEF SafetySpec

\* No time has passed since the present tick.
LEMMA ElapsedNow ==
  ASSUME tick \in Ticks
  PROVE  Elapsed(tick) = 0
<1>1. Wrap \in Nat \ {0} /\ tick - tick = 0
  BY SafetyAssumption DEF Ticks
<1>2. 0 % Wrap = 0
  BY <1>1
<1>3. QED
  BY <1>1, <1>2 DEF Elapsed

\* A vehicle reported as tumbled has been off level since a recorded tick that
\* is more than the limit back.
THEOREM TumbleTimed == SafetySpec => TumbleIsTimed
<1> DEFINE limit == IF MaxUpsideDownTime <= MaxTiltTime THEN MaxUpsideDownTime
                    ELSE MaxTiltTime
<1>1. ASSUME SafetyTypeOK, [SafetyNext]_safetyVars, isTumbledFlag', ~isTumbledFlag
      PROVE  /\ initialTumbleTick' = initialTumbleTick
             /\ Elapsed(initialTumbleTick) > limit
  <2>1. \E accel \in Accels, timestamp \in Ticks, overIdle \in BOOLEAN :
           Update(accel, timestamp, overIdle)
    BY <1>1 DEF SafetyNext, TickInterrupt, RequestArming, CommitArming,
       WriteEmergencyStop, WriteArmParam, safetyVars, flagVars
  <2>2. PICK accel \in Accels : /\ isTumbledFlag' = IsTumbledCheck(accel)
                                /\ initialTumbleTick' = TumbleTick(accel)
    BY <2>1 DEF Update, UpdateLogData
  <2>3. IsTumbledCheck(accel)
    BY <1>1, <2>2
  <2> DEFINE t == TumbleTick(accel)
             elapsed == Elapsed(t)
  <2>4. elapsed > MaxUpsideDownTime \/ elapsed > MaxTiltTime
    BY <2>3 DEF IsTumbledCheck
  <2>5. t \in {tick, initialTumbleTick}
    BY <2>3 DEF IsTumbledCheck, TumbleTick
  <2>6. tick \in Ticks /\ initialTumbleTick \in Ticks
    BY <1>1 DEF SafetyTypeOK
  <2>7. MaxUpsideDownTime \in Nat /\ MaxTiltTime \in Nat
    BY SafetyAssumption
  <2>8. Elapsed(initialTumbleTick) \in Int
    BY <2>6, SafetyAssumption DEF Elapsed, Ticks
  <2>9. CASE t = tick /\ t # initialTumbleTick
    <3>1. elapsed = 0
      BY <2>6, <2>9, ElapsedNow
    <3> HIDE DEF elapsed
    <3>2. QED
      BY <2>4, <2>7, <3>1
  <2>10. CASE t = initialTumbleTick
    <3>1. elapsed = Elapsed(initialTumbleTick)
      BY <2>10
    <3> HIDE DEF elapsed
    <3>2. Elapsed(initialTumbleTick) > limit
      BY <2>4, <2>7, <2>8, <3>1
    <3>3. QED
      BY <2>2, <2>10, <3>2
  <2>11. QED
    BY <2>5, <2>9, <2>10
<1>2. QED
  BY <1>1, SafetyTypeCorrect, PTL DEF SafetySpec, TumbleIsTimed
=============================================================================
