-------------------------- MODULE DecentralizedControl --------------------------
(***************************************************************************)
(* The control node of swarm_single_decenter: the flight state machine of    *)
(* FlightControl in a drone that has no leader and no followers.  is_leader   *)
(* is a legacy field that stays False; every command comes from the station   *)
(* on one topic and is executed by the drone it targets; nothing is relayed;  *)
(* there is no manual control, formation or Fly action.  Vision is every      *)
(* drone's own: each keeps the response to a detection and returns alone.     *)
(***************************************************************************)
EXTENDS FlightControl

DroneInit == Constructed /\ is_leader = FALSE

RequestOffboard == RequestOffboardControl

(* "arm" leaves a pending return to the status timer.                        *)
Arm ==
    /\ RequestOffboard
    /\ out' = {}
    /\ UNCHANGED <<vision, role, yaw_initialized, fly_pending, px4>>

Takeoff ==
    /\ CancelVisionReturn
    /\ ExecuteTakeoff \/ UNCHANGED <<goal, mission, motion_enabled>>
    /\ out' = {}
    /\ UNCHANGED <<state, arming, manual_control, landing, role, misc, fly_pending,
                   status_seen, px4>>

(* "land": request_land.                                                     *)
Land(safe) ==
    /\ CancelVisionReturn
    /\ RequestLand(safe) \/ LandRefused(safe)
    /\ out' = {}
    /\ UNCHANGED <<offboard_was_confirmed, goal, role, misc, fly_pending,
                   status_seen, px4>>

Disarm == CancelVisionReturn /\ SafeDisarm

(* "fly", "set_goal" and "move": an accepted goal ends a mission in any state,  *)
(* and is flown only in TAKEOFF.                                             *)
SetGoal ==
    /\ CancelVisionReturn
    /\ \/ /\ SetLocalGoal("command")
          /\ AbortMission
          /\ motion_enabled' = (state = "TAKEOFF" \/ (motion_enabled /\ ~mission_active))
       \/ UNCHANGED <<goal, mission, motion_enabled>>
    /\ out' = {}
    /\ UNCHANGED <<state, arming, manual_control, landing, role, misc, fly_pending,
                   status_seen, px4>>

Yaw ==
    /\ CancelVisionReturn
    /\ RequestRelativeYaw
    /\ out' = {}
    /\ UNCHANGED <<state, arming, manual_control, goal, landing, role,
                   world_origin_calibrated, fly_pending, status_seen, px4>>

(* Mutant: a mission leaves the automatic return pending.                    *)
MissionKeepsReturn ==
    /\ UNCHANGED vision
    /\ \/ CanStartMission /\ ActivateWaypoint(0)
       \/ UNCHANGED <<goal, mission, motion_enabled, yaw_initialized>>
    /\ out' = {}
    /\ UNCHANGED <<state, arming, manual_control, landing, role,
                   world_origin_calibrated, fly_pending, status_seen, px4>>

(* This drone's own waypoints of the shared file, refused or started.         *)
Mission ==
    /\ CancelVisionReturn
    /\ \/ CanStartMission /\ ActivateWaypoint(0)
       \/ UNCHANGED <<goal, mission, motion_enabled, yaw_initialized>>
    /\ out' = {}
    /\ UNCHANGED <<state, arming, manual_control, landing, role,
                   world_origin_calibrated, fly_pending, status_seen, px4>>

(* "abort_mission" and "stop_mission".                                       *)
StopMission ==
    /\ mission_active
    /\ AbortMission
    /\ motion_enabled' = FALSE
    /\ out' = {}
    /\ UNCHANGED <<state, arming, manual_control, goal, landing, vision, role, misc,
                   fly_pending, status_seen, px4>>
-----------------------------------------------------------------------------
KeepFlying == UNCHANGED <<state, arming, motion_enabled, manual_control, goal, mission,
                          landing, vision_return_land_active, role, misc, fly_pending,
                          status_seen, px4>>

EnableDetection(action) ==
    /\ ~vision_return_land_active
    /\ vision_detection_action' = action
    /\ out' = {}
    /\ KeepFlying

(* STOP is accepted during a return, which goes on.                          *)
DisableDetection ==
    /\ vision_detection_action' =
         IF vision_return_land_active THEN vision_detection_action ELSE "report"
    /\ out' = {}
    /\ KeepFlying

Detection ==
    /\ StartVisionReturn
    /\ out' = {}
    /\ UNCHANGED <<state, arming, manual_control, landing, role, misc, fly_pending,
                   status_seen, px4>>

(* broadcast_status: every drone runs the status timer, and with it            *)
(* update_vision_return_land, which cancels the return of a drone that left    *)
(* TAKEOFF and lands the drone once at home.                                  *)
StatusBroadcast(at_home, safe) ==
    /\ status_seen' = (state = "ARMING")
    /\ \/ /\ ~vision_return_land_active
          /\ KeepLand /\ UNCHANGED vision
       \/ /\ ReturnLost
          /\ CancelVisionReturn /\ KeepLand
       \/ /\ vision_return_land_active /\ state = "TAKEOFF"
          /\ vision_return_land_active' = ~at_home
          /\ IF at_home THEN RequestLand(safe) \/ LandRefused(safe) ELSE KeepLand
          /\ UNCHANGED vision_detection_action
    /\ out' = {}
    /\ UNCHANGED <<offboard_was_confirmed, goal, role, misc, fly_pending, px4>>
-----------------------------------------------------------------------------
(* The control timer.  The status timer runs in every drone, not only a        *)
(* leader's, so an arming sequence never outruns it.                          *)
BroadcastDue ==
    /\ state = "ARMING" /\ ~status_seen
    /\ offboard_setpoint_counter >= StatusTicks

ReleaseTick(safe) == TickRelease(safe)

ArmingTick == TickArming

MissionProgress == UpdateMissionProgress

TakeoffTick(feedback) == TickTakeoff(feedback) /\ (feedback => MissionProgress)

LandingTick == TickLanding

ControlTick ==
    /\ ~BroadcastDue
    /\ \/ TickSilent \/ TickRaises \/ ArmingTick \/ LandingTick
       \/ \E safe \in BOOLEAN : ReleaseTick(safe)
       \/ \E feedback \in BOOLEAN : TakeoffTick(feedback)

PX4Status(a, n) == VehicleStatus(a, n)

PX4Position(finite_heading) == LocalPosition(finite_heading)

PX4Landed(report) == LandDetected(report)

NodeRestart == Reconstructed /\ is_leader' = FALSE
-----------------------------------------------------------------------------
DroneNext ==
    \/ Arm \/ Takeoff \/ Disarm \/ SetGoal \/ Yaw \/ Mission \/ StopMission
    \/ DisableDetection \/ Detection
    \/ \E safe \in BOOLEAN : Land(safe)
    \/ \E action \in {"report", "return_land"} : EnableDetection(action)
    \/ \E at_home, safe \in BOOLEAN : StatusBroadcast(at_home, safe)
    \/ ControlTick \/ NodeRestart
    \/ \E a \in BOOLEAN, n \in NavStates : PX4Status(a, n)
    \/ \E finite_heading \in BOOLEAN : PX4Position(finite_heading)
    \/ \E report \in LandReports : PX4Landed(report)

DroneSpec == DroneInit /\ [][DroneNext]_vars
-----------------------------------------------------------------------------
(* The automatic return has the drone to itself: in TAKEOFF no mission runs      *)
(* beside it and the drone moves, and while it lasts a second detection finds     *)
(* nothing to start.                                                            *)
ReturnAlone ==
    vision_return_land_active =>
        /\ vision_detection_action = "report"
        /\ state = "TAKEOFF" => motion_enabled /\ ~manual_control /\ ~mission_active
=============================================================================
