------------------------------ MODULE Commander ------------------------------
(***************************************************************************)
(* The commander: crazyflie/src/commander.hpp and the CRTP callbacks that  *)
(* feed it.  The newest setpoint sits in a queue of length one that the    *)
(* core loop peeks, the priority of its source in another.                 *)
(*                                                                         *)
(* A setpoint is abstracted to what the supervisor and the mixers tell     *)
(* apart: its time stamp, whether its z mode is enabled (inFlyingMode),    *)
(* whether it carries thrust, and whether it asks for a roll, a pitch or a *)
(* yaw.                                                                    *)
(***************************************************************************)
EXTENDS Integers

CONSTANTS
  GenericTypes,           \* the generic setpoint types that clients send
  OpenLoopThrusts         \* the thrust classes of the legacy packets they send

VARIABLES
  setpoint,               \* the item of setpointQueue
  activePriority,         \* the item of priorityQueue
  thrustLocked            \* of the open-loop decoder

commanderVars == <<setpoint, activePriority, thrustLocked>>

PriorityDisable == 0
PriorityLowest  == 1
PriorityCrtp    == 2

Setpoint(timestamp, flying, thrust, sticks) ==
  [timestamp |-> timestamp, flying |-> flying, thrust |-> thrust, sticks |-> sticks]

Setpoints(ticks) ==
  [timestamp : ticks, flying : BOOLEAN, thrust : BOOLEAN, sticks : BOOLEAN]

NullSetpoint == Setpoint(0, FALSE, FALSE, FALSE)

AllGenericTypes == {"stop", "velocityWorld", "zDistance", "cppmEmu", "altHold",
                    "hover", "fullState", "position"}

ASSUME CommanderAssumption ==
  /\ GenericTypes \subseteq AllGenericTypes
  /\ OpenLoopThrusts \subseteq {"zero", "low", "high"}

\* The decoders that enable the z mode, and those of them that set a velocity
\* or a yaw rate for getDemands() to pass on.  The others leave the setpoint as
\* memset() made it.
FlyingTypes == AllGenericTypes \ {"stop", "cppmEmu"}
StickTypes  == FlyingTypes \ {"position"}

-----------------------------------------------------------------------------
\* setSetpoint() stamps and stores a setpoint unless a source of a higher
\* priority is active; it may be the only caller's last word on both queues.
SetSetpoint(sp, priority) ==
  IF priority >= activePriority
  THEN setpoint' = sp /\ activePriority' = priority
  ELSE UNCHANGED <<setpoint, activePriority>>

\* A legacy roll/pitch/yaw/thrust packet.  Thrust stays locked from the time no
\* source was active until a packet with zero thrust; thrust below MIN_THRUST
\* counts as none.
OpenLoopSetpoint(thrust, sticks, now) ==
  LET locked == thrust # "zero" /\ (thrustLocked \/ activePriority = PriorityDisable)
  IN  /\ thrustLocked' = locked
      /\ SetSetpoint(Setpoint(now, FALSE, thrust = "high" /\ ~locked, sticks), PriorityCrtp)

\* A packet of the generic setpoint port
GenericSetpoint(type, sticks, now) ==
  /\ sticks => type \in StickTypes
  /\ SetSetpoint(Setpoint(now, type \in FlyingTypes, FALSE, sticks), PriorityCrtp)
  /\ UNCHANGED thrustLocked

\* The meta command notifySetpointsStop: relaxPriority()
NotifySetpointsStop ==
  /\ activePriority' = PriorityLowest
  /\ UNCHANGED <<setpoint, thrustLocked>>

\* commanderCrtpCB(), for whatever packet the link delivers
CommanderPacket(now) ==
  \/ \E thrust \in OpenLoopThrusts, sticks \in BOOLEAN :
       OpenLoopSetpoint(thrust, sticks, now)
  \/ \E type \in GenericTypes, sticks \in BOOLEAN : GenericSetpoint(type, sticks, now)
  \/ NotifySetpointsStop

CommanderInit ==
  /\ setpoint = NullSetpoint
  /\ activePriority = PriorityDisable
  /\ thrustLocked = TRUE

CommanderTypeOK(ticks) ==
  /\ setpoint \in Setpoints(ticks)
  /\ activePriority \in {PriorityDisable, PriorityLowest, PriorityCrtp}
  /\ thrustLocked \in BOOLEAN
=============================================================================
