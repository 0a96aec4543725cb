------------------------------ MODULE OlderControl ------------------------------
(***************************************************************************)
(* The control node of swarm_single_no_tf, the leader-follower package that  *)
(* swarm_single_no_tf_yaw grew from.  It has the flight state machine of      *)
(* FlightControl, without three things: no yaw command and no yaw in a        *)
(* waypoint, no wait at a checkpoint, and no vision, so that                 *)
(* vision_return_land_active never becomes true and cancelling it, in the     *)
(* actions taken over from FlightControl, does nothing.                      *)
(***************************************************************************)
EXTENDS FlightControl

(* A waypoint is a bare position: no yaw setpoint, no longer dwell.           *)
PlainWaypoints ==
    /\ UNCHANGED yaw_initialized
    /\ mission_state' # "WAITING_AT_CHECKPOINT"

(* request_offboard_control, at the leader (which relays it) or a follower.    *)
RequestOffboard == RequestOffboardControl

Arm ==
    /\ RequestOffboard
    /\ out' = IF is_leader THEN {"cmd_arm"} ELSE {}
    /\ UNCHANGED <<vision, role, yaw_initialized, fly_pending, px4>>

Land(safe) == LandCommand(safe)

Disarm == SafeDisarmCommand

Takeoff == TakeoffCommand

Fly == FlyCommand

FlyGoal == FlyActionGoal

FlyExecute == FlyActionExecute

ManualControl == ManualOn \/ ManualOff

(* start_mission at the leader.                                              *)
StartMission == MissionCommand /\ PlainWaypoints

MissionAtFollower == FollowerMission

SetPattern == FormationCommand

Lead == BecomeLeader

StepBack == StepDown
-----------------------------------------------------------------------------
ReleaseTick(safe) == TickRelease(safe)

ArmingTick == TickArming

(* update_mission_progress and what it calls.                                *)
MissionProgress == UpdateMissionProgress /\ PlainWaypoints

TakeoffTick(feedback) == TickTakeoff(feedback) /\ (feedback => MissionProgress)

LandingTick == TickLanding

ControlTick ==
    /\ ~StatusDue
    /\ \/ TickSilent \/ TickRaises \/ ArmingTick \/ LandingTick
       \/ \E safe \in BOOLEAN : ReleaseTick(safe)
       \/ \E feedback \in BOOLEAN : TakeoffTick(feedback)

(* The leader's status timer reports only; status_seen is the timer's own.    *)
StatusReport ==
    /\ is_leader
    /\ status_seen' = (state = "ARMING")
    /\ out' = {}
    /\ UNCHANGED <<state, arming, motion_enabled, manual_control, goal, mission,
                   landing, vision, role, misc, fly_pending, px4>>

PX4Status(a, n) == VehicleStatus(a, n)

PX4Position(finite_heading) == LocalPosition(finite_heading)

PX4Landed(report) == LandDetected(report)

NodeRestart == Restart
-----------------------------------------------------------------------------
OlderInit == Init

OlderNext ==
    \/ Arm \/ Disarm \/ Takeoff \/ Fly \/ FlyGoal \/ FlyExecute \/ ManualControl
    \/ StartMission \/ MissionAtFollower \/ SetPattern \/ Lead \/ StepBack
    \/ \E safe \in BOOLEAN : Land(safe)
    \/ ControlTick \/ StatusReport \/ NodeRestart
    \/ \E a \in BOOLEAN, n \in NavStates : PX4Status(a, n)
    \/ \E finite_heading \in BOOLEAN : PX4Position(finite_heading)
    \/ \E report \in LandReports : PX4Landed(report)

OlderSpec == OlderInit /\ [][OlderNext]_vars
=============================================================================
