----------------------------- MODULE FlightControl -----------------------------
(***************************************************************************)
(* The control node of one drone (swarm_single_no_tf_yaw): the companion    *)
(* computer's flight state machine, the mission executor, the controlled    *)
(* landing, the automatic return after a vision detection, and every        *)
(* command that reaches them, as leader (from the station) or as follower   *)
(* (relayed by the leader).                                                 *)
(*                                                                         *)
(* The node runs under rclpy.spin, so a callback or a timer is one atomic   *)
(* step.  The one exception is the coroutine of the Fly action, which runs  *)
(* later than the goal callback that accepted it: fly_pending.              *)
(*                                                                         *)
(* PX4 is the environment.  armed and nav are what its last VehicleStatus   *)
(* said, land is what the landing detector last said, "stale" when that is  *)
(* older than telemetry_timeout.  The verdict of safety_violation_reason()  *)
(* (telemetry age, failsafe, RC loss, position validity) is an input of     *)
(* each step that asks for it: it may change between any two steps.         *)
(* Positions are abstracted to which request last set the goal, and the     *)
(* verdicts taken on them (goal in range, goal reached, at home) are inputs *)
(* too.                                                                     *)
(***************************************************************************)
EXTENDS Naturals

CONSTANTS
    SetModeAt,     \* setpoints streamed before OFFBOARD is requested (25)
    ArmAt,         \* setpoints streamed before ARM is sent (35)
    TakeoffAt,     \* earliest setpoint at which arming may succeed (40)
    GiveUpAt,      \* setpoint at which arming times out (100)
    StatusTicks,   \* control ticks between two status ticks (20 Hz, 1 Hz: 20)
    LandTimeout,   \* control ticks a controlled landing may take
    Waypoints,     \* number of waypoints of a mission
    Commands       \* which commands and role changes reach the drone

ASSUME TicksAssumption ==
    /\ {SetModeAt, ArmAt, TakeoffAt, GiveUpAt, StatusTicks, LandTimeout} \subseteq Nat
    /\ 1 < SetModeAt /\ SetModeAt < ArmAt /\ ArmAt < TakeoffAt
    /\ TakeoffAt < GiveUpAt
    /\ 0 < StatusTicks /\ StatusTicks < TakeoffAt
    /\ 0 < LandTimeout

ASSUME WaypointsAssumption == Waypoints \in Nat \ {0}

AllCommands == {"arm", "land", "disarm", "takeoff", "fly", "fly_action", "yaw", "manual",
                "mission", "detection", "formation", "role"}

ASSUME CommandsAssumption == Commands \subseteq AllCommands

VARIABLES
    state,                      \* DroneState
    offboard_setpoint_counter,
    offboard_was_confirmed,
    motion_enabled,
    manual_control,
    goal,                       \* which request last stored the active goal
    mission_active,
    mission_index,
    mission_state,
    mission_dwelling,           \* mission_dwell_start is not None
    landing_ticks,              \* control ticks since landing_started_time
    landing_speed_stage,
    landing_disarm_sent,        \* landing_disarm_last_sent_time is not None
    vision_detection_action,
    vision_return_land_active,
    is_leader,
    pattern_known,              \* formation.pattern_name is not None
    world_origin_calibrated,
    yaw_initialized,
    fly_pending,                \* a Fly goal was accepted, its coroutine not run
    status_seen,                \* the status timer fired since ARM was accepted
    armed, nav, land,           \* what PX4 last reported
    out                         \* what the last step published

mission  == <<mission_active, mission_index, mission_state, mission_dwelling>>
landing  == <<landing_ticks, landing_speed_stage, landing_disarm_sent>>
arming   == <<offboard_setpoint_counter, offboard_was_confirmed>>
vision   == <<vision_detection_action, vision_return_land_active>>
role     == <<is_leader, pattern_known>>
px4      == <<armed, nav, land>>
misc     == <<world_origin_calibrated, yaw_initialized>>
vars     == <<state, arming, motion_enabled, manual_control, goal, mission,
              landing, vision, role, misc, fly_pending, status_seen, px4, out>>

States      == {"IDLE", "ARMING", "TAKEOFF", "LANDING", "PILOT_CONTROL"}
Goals       == {"hold", "command", "mission", "home", "formation"}
MissionStates == {"IDLE", "RUNNING", "WAITING_AT_CHECKPOINT", "COMPLETED", "ABORTED"}
NavStates   == {"OFFBOARD", "AUTO_LAND", "OTHER"}
LandReports == {"stale", "air", "landed"}
Messages    == {"heartbeat", "hold", "track", "descend", "SET_MODE", "ARM", "DISARM",
                "cmd_arm", "cmd_takeoff", "cmd_land", "cmd_mission"}

ValuesOK ==
    /\ state \in States
    /\ offboard_setpoint_counter \in 0..(GiveUpAt - 1)
    /\ goal \in Goals
    /\ mission_index \in 0..Waypoints
    /\ mission_state \in MissionStates
    /\ landing_ticks \in 0..(LandTimeout + 1)
    /\ landing_speed_stage \in {"none", "fast", "slow"}
    /\ vision_detection_action \in {"report", "return_land"}
    /\ nav \in NavStates
    /\ land \in LandReports
    /\ out \subseteq Messages

FlagsOK ==
    /\ offboard_was_confirmed \in BOOLEAN /\ motion_enabled \in BOOLEAN
    /\ manual_control \in BOOLEAN /\ mission_active \in BOOLEAN
    /\ mission_dwelling \in BOOLEAN /\ landing_disarm_sent \in BOOLEAN
    /\ vision_return_land_active \in BOOLEAN /\ is_leader \in BOOLEAN
    /\ pattern_known \in BOOLEAN /\ world_origin_calibrated \in BOOLEAN
    /\ yaw_initialized \in BOOLEAN /\ fly_pending \in BOOLEAN
    /\ status_seen \in BOOLEAN /\ armed \in BOOLEAN

TypeOK == ValuesOK /\ FlagsOK

-----------------------------------------------------------------------------
(* The node as constructed, whatever its role.                               *)
Constructed ==
    /\ state = "IDLE"
    /\ offboard_setpoint_counter = 0 /\ offboard_was_confirmed = FALSE
    /\ motion_enabled = FALSE /\ manual_control = FALSE
    /\ goal = "hold"
    /\ mission_active = FALSE /\ mission_index = 0
    /\ mission_state = "IDLE" /\ mission_dwelling = FALSE
    /\ landing_ticks = 0 /\ landing_speed_stage = "none"
    /\ landing_disarm_sent = FALSE
    /\ vision_detection_action = "report" /\ vision_return_land_active = FALSE
    /\ pattern_known = FALSE
    /\ world_origin_calibrated = FALSE /\ yaw_initialized = FALSE
    /\ fly_pending = FALSE /\ status_seen = FALSE
    /\ armed = FALSE /\ nav = "OTHER" /\ land = "stale"
    /\ out = {}

(* Communication.__init__ runs a referendum among no neighbours, so every      *)
(* drone starts as the leader of itself.                                     *)
Init == Constructed /\ is_leader = TRUE

(* Mutant: the new ARM does not reset the mission.                           *)
ResetMissionForgotten == UNCHANGED mission

(* reset_mission_state                                                       *)
ResetMission ==
    /\ mission_active' = FALSE /\ mission_index' = 0
    /\ mission_state' = "IDLE" /\ mission_dwelling' = FALSE

(* abort_mission: no effect unless a mission is active; its other effect,    *)
(* motion_enabled = False, is stated by the callers, who may set it again.   *)
AbortMission ==
    /\ mission_active' = FALSE
    /\ mission_dwelling' = (mission_dwelling /\ ~mission_active)
    /\ mission_state' = IF mission_active THEN "ABORTED" ELSE mission_state
    /\ UNCHANGED mission_index

(* release_to_pilot: latch out and fall silent.  The pending vision return    *)
(* is not among what it resets.                                              *)
Released(counter, confirmed) ==
    /\ state' = "PILOT_CONTROL"
    /\ motion_enabled' = FALSE /\ manual_control' = FALSE
    /\ offboard_setpoint_counter' = counter /\ offboard_was_confirmed' = confirmed
    /\ landing_ticks' = 0 /\ landing_speed_stage' = "none"
    /\ landing_disarm_sent' = FALSE
    /\ AbortMission
    /\ status_seen' = FALSE
    /\ UNCHANGED <<goal, vision, role, fly_pending>>

ReleaseToPilot == Released(0, FALSE)

(* goal_callback_temp and set_local_goal, for a goal inside max_goal_distance *)
SetLocalGoal(kind) == goal' = kind

(* cancel_vision_return_land                                                 *)
CancelVisionReturn ==
    /\ vision_return_land_active' = FALSE
    /\ vision_detection_action' =
         IF vision_return_land_active THEN "report" ELSE vision_detection_action
-----------------------------------------------------------------------------
(* Mutant: ARM is accepted again while arming.                               *)
OffboardIdleOrArming == state # "TAKEOFF"

(* request_offboard_control, when the safety verdict is good.  An armed        *)
(* vehicle is accepted only when its world origin is already calibrated; a    *)
(* disarmed one is calibrated now.                                           *)
OffboardIdle == state \notin {"ARMING", "TAKEOFF"}

RequestOffboardControl ==
    /\ OffboardIdle
    /\ armed => world_origin_calibrated
    /\ world_origin_calibrated' = TRUE
    /\ SetLocalGoal("hold")
    /\ ResetMission
    /\ motion_enabled' = FALSE /\ manual_control' = FALSE
    /\ offboard_setpoint_counter' = 0 /\ offboard_was_confirmed' = FALSE
    /\ landing_ticks' = 0 /\ landing_speed_stage' = "none"
    /\ landing_disarm_sent' = FALSE
    /\ state' = "ARMING"
    /\ status_seen' = FALSE

(* "arm" from the station (leader, which relays it) or from the leader.       *)
ArmCommand ==
    /\ RequestOffboardControl
    /\ out' = IF is_leader THEN {"cmd_arm"} ELSE {}
    /\ UNCHANGED <<vision, role, yaw_initialized, fly_pending, px4>>

(* request_land, also reached through update_vision_return_land; safe is the   *)
(* safety verdict.                                                           *)
CanStartLand(safe) ==
    /\ armed /\ state = "TAKEOFF" /\ nav = "OFFBOARD"
    /\ safe /\ land # "stale"

StartLand(safe) ==
    /\ CanStartLand(safe)
    /\ AbortMission
    /\ motion_enabled' = FALSE /\ manual_control' = FALSE
    /\ offboard_setpoint_counter' = 0
    /\ landing_ticks' = 0 /\ landing_speed_stage' = "none"
    /\ landing_disarm_sent' = FALSE
    /\ state' = "LANDING"

KeepLand == UNCHANGED <<state, offboard_setpoint_counter, motion_enabled,
                        manual_control, mission, landing>>

(* request_land returned True: started now, or already landing and armed.    *)
RequestLand(safe) == StartLand(safe) \/ (armed /\ state = "LANDING" /\ KeepLand)

LandRefused(safe) ==
    ~CanStartLand(safe) /\ ~(armed /\ state = "LANDING") /\ KeepLand

LandCommand(safe) ==
    /\ (is_leader /\ CancelVisionReturn) \/ (~is_leader /\ UNCHANGED vision)
    /\ \/ RequestLand(safe) /\ out' = IF is_leader THEN {"cmd_land"} ELSE {}
       \/ LandRefused(safe) /\ out' = {}
    /\ UNCHANGED <<offboard_was_confirmed, goal, role, misc, fly_pending,
                   status_seen, px4>>

(* request_safe_disarm.  A vehicle already disarmed is put in IDLE from        *)
(* whatever state it was in; a landed one is released without aborting its     *)
(* mission.                                                                  *)
SafeDisarm ==
    /\ \/ /\ ~armed
          /\ state' = "IDLE" /\ out' = {} /\ UNCHANGED motion_enabled
       \/ /\ armed /\ land = "landed"
          /\ state' = "PILOT_CONTROL" /\ out' = {"DISARM"}
          /\ motion_enabled' = FALSE
    /\ UNCHANGED <<arming, manual_control, goal, mission, landing, role, misc,
                   fly_pending, px4>>
    /\ status_seen' = FALSE

(* "disarm_leader", for the leader only.                                     *)
SafeDisarmCommand == is_leader /\ SafeDisarm /\ UNCHANGED vision
-----------------------------------------------------------------------------
(* execute_takeoff: the climb goal replaces a mission.                       *)
ExecuteTakeoff ==
    /\ state = "TAKEOFF" /\ armed /\ nav = "OFFBOARD" /\ ~manual_control
    /\ SetLocalGoal("command")
    /\ AbortMission
    /\ motion_enabled' = TRUE

TakeoffCommand ==
    /\ (is_leader /\ CancelVisionReturn) \/ (~is_leader /\ UNCHANGED vision)
    /\ \/ ExecuteTakeoff /\ out' = IF is_leader THEN {"cmd_takeoff"} ELSE {}
       \/ out' = {} /\ UNCHANGED <<goal, mission, motion_enabled>>
    /\ UNCHANGED <<state, arming, manual_control, landing, role, misc, fly_pending,
                   status_seen, px4>>

(* "fly" (the station's move and set_goal): an accepted goal is stored in any *)
(* state, and flown only in TAKEOFF.                                         *)
FlyToGoal ==
    \/ /\ SetLocalGoal("command")
       /\ \/ state = "TAKEOFF" /\ AbortMission /\ motion_enabled' = TRUE
          \/ state # "TAKEOFF" /\ UNCHANGED <<mission, motion_enabled>>
    \/ UNCHANGED <<goal, mission, motion_enabled>>

FlyCommand ==
    /\ is_leader
    /\ CancelVisionReturn
    /\ FlyToGoal
    /\ out' = {}
    /\ UNCHANGED <<state, arming, manual_control, landing, role, misc, fly_pending,
                   status_seen, px4>>

(* goal_callback of the Fly action: accepted in TAKEOFF only.                *)
FlyActionGoal ==
    /\ is_leader /\ state = "TAKEOFF"
    /\ fly_pending' = TRUE /\ out' = {}
    /\ UNCHANGED <<state, arming, motion_enabled, manual_control, goal, mission,
                   landing, vision, role, misc, status_seen, px4>>

(* execute_callback of the Fly action, up to its feedback loop.              *)
FlyActionExecute ==
    /\ fly_pending
    /\ fly_pending' = FALSE /\ out' = {}
    /\ \/ /\ SetLocalGoal("command")
          /\ \/ state = "TAKEOFF" /\ motion_enabled' = TRUE
             \/ state # "TAKEOFF" /\ UNCHANGED motion_enabled
       \/ UNCHANGED <<goal, motion_enabled>>
    /\ UNCHANGED <<state, arming, manual_control, mission, landing, vision, role,
                   misc, status_seen, px4>>

(* request_relative_yaw, accepted or refused.                                *)
RequestRelativeYaw ==
    \/ /\ state = "TAKEOFF"
       /\ yaw_initialized' = TRUE
       /\ motion_enabled' = (motion_enabled /\ ~mission_active)
       /\ AbortMission
    \/ UNCHANGED <<yaw_initialized, motion_enabled, mission>>

YawCommand ==
    /\ is_leader
    /\ CancelVisionReturn
    /\ RequestRelativeYaw
    /\ out' = {}
    /\ UNCHANGED <<state, arming, manual_control, goal, landing, role,
                   world_origin_calibrated, fly_pending, status_seen, px4>>

(* Mutant: manual control moves the drone in any state.                      *)
ManualMotionAlways == TRUE

(* manual_control_handler: switching it on overrides a mission; switching it  *)
(* off leaves motion_enabled as it is.                                       *)
ManualMotion == state = "TAKEOFF" \/ (motion_enabled /\ ~mission_active)

ManualOn ==
    /\ is_leader
    /\ CancelVisionReturn
    /\ AbortMission
    /\ manual_control' = TRUE
    /\ motion_enabled' = ManualMotion
    /\ out' = {}
    /\ UNCHANGED <<state, arming, goal, landing, role, misc, fly_pending,
                   status_seen, px4>>

ManualOff ==
    /\ is_leader
    /\ manual_control' = FALSE
    /\ out' = {}
    /\ UNCHANGED <<state, arming, motion_enabled, goal, mission, landing, vision,
                   role, misc, fly_pending, status_seen, px4>>
-----------------------------------------------------------------------------
(* activate_current_mission_waypoint for waypoint i; a rejected goal, or a    *)
(* relative yaw without a heading, aborts the mission.                       *)
ActivateWaypoint(i) ==
    /\ mission_index' = i /\ mission_dwelling' = FALSE
    /\ \/ /\ SetLocalGoal("mission")
          /\ mission_active' = TRUE /\ mission_state' = "RUNNING"
          /\ motion_enabled' = TRUE
          /\ yaw_initialized' = TRUE \/ UNCHANGED yaw_initialized
       \/ /\ mission_active' = FALSE /\ mission_state' = "ABORTED"
          /\ motion_enabled' = FALSE
          /\ UNCHANGED <<goal, yaw_initialized>>

CompleteMission ==
    /\ mission_active' = FALSE /\ mission_index' = Waypoints
    /\ mission_dwelling' = FALSE /\ mission_state' = "COMPLETED"
    /\ motion_enabled' = FALSE
    /\ UNCHANGED <<goal, yaw_initialized>>

(* Mutant: a mission is accepted during manual control.                      *)
CanStartMissionManual == state = "TAKEOFF"

(* "mission" or "online_mission" at the leader: start_mission with validated  *)
(* waypoints, then the notification to the followers.  A rejected one still   *)
(* cancels the vision return.                                                *)
CanStartMission == state = "TAKEOFF" /\ ~manual_control

MissionCommand ==
    /\ is_leader
    /\ CancelVisionReturn
    /\ \/ /\ CanStartMission
          /\ ActivateWaypoint(0)
          /\ out' = IF mission_active' THEN {"cmd_mission"} ELSE {}
       \/ out' = {} /\ UNCHANGED <<goal, mission, motion_enabled, yaw_initialized>>
    /\ UNCHANGED <<state, arming, manual_control, landing, role,
                   world_origin_calibrated, fly_pending, status_seen, px4>>

(* "mission" at a follower: it keeps its own goal and starts to move.        *)
FollowerMission ==
    /\ ~is_leader /\ state = "TAKEOFF"
    /\ motion_enabled' = TRUE
    /\ out' = {}
    /\ UNCHANGED <<state, arming, manual_control, goal, mission, landing, vision,
                   role, misc, fly_pending, status_seen, px4>>

(* update_mission_progress: time out, lose the target, start or continue the  *)
(* dwell, or move on to the next waypoint.                                   *)
UpdateMissionProgress ==
    \/ ~mission_active /\ UNCHANGED <<mission, motion_enabled, goal, yaw_initialized>>
    \/ /\ mission_active
       /\ AbortMission /\ motion_enabled' = FALSE
       /\ UNCHANGED <<goal, yaw_initialized>>
    \/ /\ mission_active
       /\ \/ mission_dwelling' = FALSE /\ mission_state' = "RUNNING"
          \/ /\ ~mission_dwelling
             /\ mission_dwelling' = TRUE
             /\ mission_state' \in {mission_state, "WAITING_AT_CHECKPOINT"}
          \/ mission_dwelling /\ UNCHANGED <<mission_dwelling, mission_state>>
       /\ UNCHANGED <<mission_active, mission_index, motion_enabled, goal,
                      yaw_initialized>>
    \/ /\ mission_active /\ mission_dwelling
       /\ \/ mission_index + 1 < Waypoints /\ ActivateWaypoint(mission_index + 1)
          \/ mission_index + 1 >= Waypoints /\ CompleteMission
-----------------------------------------------------------------------------
(* "start_detection" and "stop_detection": only their effect on what a later  *)
(* detection will do.                                                        *)
StartDetection(action) ==
    /\ is_leader /\ ~vision_return_land_active
    /\ vision_detection_action' = action
    /\ out' = {}
    /\ UNCHANGED <<state, arming, motion_enabled, manual_control, goal, mission,
                   landing, vision_return_land_active, role, misc, fly_pending,
                   status_seen, px4>>

StopDetection ==
    /\ is_leader /\ ~vision_return_land_active
    /\ vision_detection_action' = "report"
    /\ out' = {}
    /\ UNCHANGED <<state, arming, motion_enabled, manual_control, goal, mission,
                   landing, vision_return_land_active, role, misc, fly_pending,
                   status_seen, px4>>

(* vision_detection_callback and start_vision_return_land: the action is      *)
(* consumed first, whether or not the return can start (the safety verdict and *)
(* the height check are inputs).                                             *)
StartVisionReturn ==
    /\ vision_detection_action = "return_land" /\ ~vision_return_land_active
    /\ vision_detection_action' = "report"
    /\ \/ /\ state = "TAKEOFF" /\ armed /\ nav = "OFFBOARD"
          /\ ~manual_control
          /\ AbortMission
          /\ SetLocalGoal("home")
          /\ motion_enabled' = TRUE
          /\ vision_return_land_active' = TRUE
       \/ UNCHANGED <<mission, goal, motion_enabled, vision_return_land_active>>

VisionDetection ==
    /\ is_leader
    /\ StartVisionReturn
    /\ out' = {}
    /\ UNCHANGED <<state, arming, manual_control, landing, role, misc, fly_pending,
                   status_seen, px4>>

(* Mutant: the pending return is not given up after a pilot takeover.        *)
ReturnLostIdle == vision_return_land_active /\ state \notin {"TAKEOFF", "PILOT_CONTROL"}

(* _broadcast_status, the leader's 1 Hz timer: update_vision_return_land gives *)
(* up a return whose drone left TAKEOFF and, at home, lands the swarm once.   *)
ReturnLost == vision_return_land_active /\ state # "TAKEOFF"

StatusTick(at_home, safe) ==
    /\ is_leader
    /\ status_seen' = (state = "ARMING")
    /\ \/ /\ ~vision_return_land_active
          /\ KeepLand /\ out' = {} /\ UNCHANGED vision_return_land_active
       \/ /\ ReturnLost
          /\ vision_return_land_active' = FALSE
          /\ KeepLand /\ out' = {}
       \/ /\ vision_return_land_active /\ state = "TAKEOFF"
          /\ vision_return_land_active' = ~at_home
          /\ \/ ~at_home /\ KeepLand /\ out' = {}
             \/ at_home /\ RequestLand(safe) /\ out' = {"cmd_land"}
             \/ at_home /\ LandRefused(safe) /\ out' = {}
    /\ UNCHANGED <<vision_detection_action, offboard_was_confirmed, goal, role,
                   misc, fly_pending, px4>>
-----------------------------------------------------------------------------
(* The referendum's outcome at this drone (LeaderElection has its cause).     *)
(* become_leader holds the current position and starts a new status timer,    *)
(* which is not due yet; step_down_as_leader forgets the vision return;       *)
(* refresh_pattern resets a follower's formation goal.                       *)
RefreshPattern(leader) ==
    goal' = IF pattern_known /\ ~leader THEN "formation" ELSE goal

BecomeLeader ==
    /\ ~is_leader /\ is_leader' = TRUE
    /\ goal' = "hold"
    /\ status_seen' = (state = "ARMING")
    /\ out' = {}
    /\ UNCHANGED <<state, arming, motion_enabled, manual_control, mission, landing,
                   vision, pattern_known, misc, fly_pending, px4>>

StepDown ==
    /\ is_leader /\ is_leader' = FALSE
    /\ vision_detection_action' = "report" /\ vision_return_land_active' = FALSE
    /\ RefreshPattern(FALSE)
    /\ out' = {}
    /\ UNCHANGED <<state, arming, motion_enabled, manual_control, mission, landing,
                   pattern_known, misc, fly_pending, status_seen, px4>>

(* A formation command, at the leader or at a follower (set_pattern).         *)
FormationCommand ==
    /\ pattern_known' = TRUE
    /\ goal' = IF is_leader THEN goal ELSE "formation"
    /\ out' = {}
    /\ UNCHANGED <<state, arming, motion_enabled, manual_control, mission, landing,
                   vision, is_leader, misc, fly_pending, status_seen, px4>>
-----------------------------------------------------------------------------
Active == state \in {"ARMING", "TAKEOFF", "LANDING"}

(* PX4 reports a disarm or another mode while the companion flies TAKEOFF.    *)
TakeoffLost(a, n) == state = "TAKEOFF" /\ ~(a /\ n = "OFFBOARD")

(* The control timer, run_control_loop.  Status and control timers share one  *)
(* thread: an arming sequence cannot stream more than StatusTicks setpoints   *)
(* before the leader's status timer has fired.                               *)
StatusDue ==
    /\ is_leader /\ state = "ARMING" /\ ~status_seen
    /\ offboard_setpoint_counter >= StatusTicks

TickSilent ==
    /\ ~Active
    /\ out' = {}
    /\ UNCHANGED <<state, arming, motion_enabled, manual_control, goal, mission,
                   landing, vision, role, misc, fly_pending, status_seen, px4>>

(* The redundant check of what vehicle_status_callback released on already,    *)
(* or a safety violation.                                                    *)
TickRelease(safe) ==
    /\ Active
    /\ ~safe \/ TakeoffLost(armed, nav)
    /\ ReleaseToPilot
    /\ out' = {}
    /\ UNCHANGED <<misc, px4>>

(* control_loop_callback: an exception of the controller (raised by the       *)
(* navigation, after the heartbeat) releases to the pilot.                   *)
TickRaises ==
    /\ state = "TAKEOFF" /\ motion_enabled /\ armed /\ nav = "OFFBOARD"
    /\ ReleaseToPilot
    /\ out' = {"heartbeat"}
    /\ UNCHANGED <<misc, px4>>

(* The ARMING branch.  Without a heading publish_position_setpoint releases    *)
(* and returns, and the branch goes on with the counter it reset.            *)
Count == offboard_setpoint_counter + 1
OffboardLost == offboard_was_confirmed /\ nav # "OFFBOARD"
ArmingDone == Count >= TakeoffAt /\ nav = "OFFBOARD" /\ armed

ArmingTimesOut == Count >= GiveUpAt /\ ~ArmingDone

TickArmingNoHeading ==
    /\ ~yaw_initialized
    /\ Released(1, nav = "OFFBOARD")
    /\ out' = {"heartbeat"}

TickArmingGivesUp ==
    /\ yaw_initialized
    /\ OffboardLost \/ ArmingTimesOut
    /\ ReleaseToPilot
    /\ out' = {"heartbeat", "hold"}

TickArmingDone ==
    /\ yaw_initialized /\ ~OffboardLost /\ ArmingDone
    /\ state' = "TAKEOFF"
    /\ offboard_setpoint_counter' = 0
    /\ offboard_was_confirmed' = TRUE
    /\ out' = {"heartbeat", "hold"}
    /\ UNCHANGED <<motion_enabled, manual_control, goal, mission, landing, vision,
                   role, fly_pending>>
    /\ status_seen' = FALSE

TickArmingCounts ==
    /\ yaw_initialized /\ ~OffboardLost /\ ~ArmingDone /\ ~ArmingTimesOut
    /\ offboard_setpoint_counter' = Count
    /\ offboard_was_confirmed' = (nav = "OFFBOARD")
    /\ out' = {"heartbeat", "hold"}
              \cup (IF Count = SetModeAt THEN {"SET_MODE"} ELSE {})
              \cup (IF Count = ArmAt /\ ~armed THEN {"ARM"} ELSE {})
    /\ UNCHANGED <<state, motion_enabled, manual_control, goal, mission, landing,
                   vision, role, fly_pending, status_seen>>

TickArming ==
    /\ state = "ARMING"
    /\ TickArmingNoHeading \/ TickArmingGivesUp \/ TickArmingDone \/ TickArmingCounts
    /\ UNCHANGED <<misc, px4>>

(* The TAKEOFF branch.  feedback is False after a control gap or when          *)
(* navigate_to_goal holds; a leader has no formation goal to resolve unless   *)
(* it is flown manually.  A mission progresses only on valid feedback.        *)
GoalResolves == is_leader => (manual_control \/ goal # "formation")

TickTakeoff(feedback) ==
    /\ state = "TAKEOFF" /\ armed /\ nav = "OFFBOARD"
    /\ motion_enabled \/ feedback
    /\ motion_enabled /\ feedback => GoalResolves
    /\ \/ feedback /\ UpdateMissionProgress
       \/ ~feedback /\ UNCHANGED <<mission, motion_enabled, goal, yaw_initialized>>
    /\ out' = {"heartbeat",
               IF feedback /\ motion_enabled /\ motion_enabled' THEN "track" ELSE "hold"}
    /\ UNCHANGED <<state, arming, manual_control, landing, vision, role,
                   world_origin_calibrated, fly_pending, status_seen, px4>>

(* run_landing_control.                                                      *)
LandingElapsed == IF landing_ticks > LandTimeout THEN landing_ticks ELSE landing_ticks + 1
KeepFlight == UNCHANGED <<motion_enabled, manual_control, goal, mission, vision, role,
                          fly_pending, status_seen>>

TickLandingDisarmed ==
    /\ ~armed
    /\ state' = "IDLE"
    /\ offboard_setpoint_counter' = 0
    /\ landing_ticks' = 0 /\ landing_speed_stage' = "none"
    /\ landing_disarm_sent' = FALSE
    /\ out' = {}
    /\ KeepFlight /\ UNCHANGED offboard_was_confirmed

TickLandingAutoLand ==
    /\ armed /\ nav = "AUTO_LAND"
    /\ landing_ticks' = LandingElapsed
    /\ out' = {}
    /\ KeepFlight /\ UNCHANGED <<state, arming, landing_speed_stage, landing_disarm_sent>>

LandingHoldsForever == nav = "OFFBOARD" /\ land # "stale"   \* mutant: no timeout

LandingHolds == nav = "OFFBOARD" /\ land # "stale" /\ landing_ticks <= LandTimeout

TickLandingReleases ==
    /\ armed /\ nav # "AUTO_LAND" /\ ~LandingHolds
    /\ ReleaseToPilot
    /\ out' = {}

TickLandingTouchdown(resend) ==
    /\ armed /\ LandingHolds /\ land = "landed"
    /\ landing_ticks' = LandingElapsed
    /\ landing_disarm_sent' = TRUE
    /\ out' = {"heartbeat", "hold"}
              \cup (IF ~landing_disarm_sent \/ resend THEN {"DISARM"} ELSE {})
    /\ KeepFlight /\ UNCHANGED <<state, arming, landing_speed_stage>>

(* The slow phase is latched: noise in the height cannot speed it up again.   *)
LandingStage(low) == IF low \/ landing_speed_stage = "slow" THEN "slow" ELSE "fast"

TickLandingDescends(timing_ok, low) ==
    /\ armed /\ LandingHolds /\ land = "air"
    /\ landing_ticks' = LandingElapsed
    /\ landing_speed_stage' = IF timing_ok THEN LandingStage(low) ELSE landing_speed_stage
    /\ out' = {"heartbeat", IF timing_ok THEN "descend" ELSE "hold"}
    /\ KeepFlight /\ UNCHANGED <<state, arming, landing_disarm_sent>>

TickLanding ==
    /\ state = "LANDING"
    /\ \/ TickLandingDisarmed
       \/ TickLandingAutoLand
       \/ TickLandingReleases
       \/ \E resend \in BOOLEAN : TickLandingTouchdown(resend)
       \/ \E timing_ok, low \in BOOLEAN : TickLandingDescends(timing_ok, low)
    /\ UNCHANGED <<misc, px4>>

Tick ==
    /\ ~StatusDue
    /\ \/ TickSilent \/ TickRaises \/ TickArming
       \/ \E safe \in BOOLEAN : TickRelease(safe)
       \/ \E feedback \in BOOLEAN : TickTakeoff(feedback)
       \/ TickLanding
-----------------------------------------------------------------------------
(* PX4 speaks: vehicle_status_callback may release at once; the local         *)
(* position initialises the yaw setpoint while nothing is being flown.        *)
VehicleStatus(a, n) ==
    /\ armed' = a /\ nav' = n
    /\ \/ TakeoffLost(a, n) /\ ReleaseToPilot
       \/ /\ ~TakeoffLost(a, n)
          /\ UNCHANGED <<state, arming, motion_enabled, manual_control, goal, mission,
                         landing, vision, role, fly_pending, status_seen>>
    /\ out' = {}
    /\ UNCHANGED <<land, misc>>

YawAlwaysFollowsHeading == TRUE   \* mutant: the heading overwrites yaw in flight

YawFollowsHeading == state \in {"IDLE", "ARMING", "PILOT_CONTROL"}

LocalPosition(finite_heading) ==
    /\ yaw_initialized' = IF YawFollowsHeading THEN finite_heading ELSE yaw_initialized
    /\ out' = {}
    /\ UNCHANGED <<state, arming, motion_enabled, manual_control, goal, mission, landing,
                   vision, role, world_origin_calibrated, fly_pending, status_seen,
                   px4>>

LandDetected(report) ==
    /\ land' = report
    /\ out' = {}
    /\ UNCHANGED <<state, arming, motion_enabled, manual_control, goal, mission, landing,
                   vision, role, misc, fly_pending, status_seen, armed, nav>>

(* The node dies and systemd starts it again; PX4 flies on, but the new node   *)
(* has not heard from it.                                                    *)
Reconstructed ==
    /\ state' = "IDLE"
    /\ offboard_setpoint_counter' = 0 /\ offboard_was_confirmed' = FALSE
    /\ motion_enabled' = FALSE /\ manual_control' = FALSE
    /\ goal' = "hold"
    /\ mission_active' = FALSE /\ mission_index' = 0
    /\ mission_state' = "IDLE" /\ mission_dwelling' = FALSE
    /\ landing_ticks' = 0 /\ landing_speed_stage' = "none"
    /\ landing_disarm_sent' = FALSE
    /\ vision_detection_action' = "report" /\ vision_return_land_active' = FALSE
    /\ pattern_known' = FALSE
    /\ world_origin_calibrated' = FALSE /\ yaw_initialized' = FALSE
    /\ fly_pending' = FALSE /\ status_seen' = FALSE
    /\ armed' = FALSE /\ nav' = "OTHER" /\ land' = "stale"
    /\ out' = {}

Restart == Reconstructed /\ is_leader' = TRUE

(* What the station, or the leader in a follower's case, asks for.           *)
Obey(command) ==
    CASE command = "arm"        -> ArmCommand
      [] command = "land"       -> \E safe \in BOOLEAN : LandCommand(safe)
      [] command = "disarm"     -> SafeDisarmCommand
      [] command = "takeoff"    -> TakeoffCommand
      [] command = "fly"        -> FlyCommand
      [] command = "fly_action" -> FlyActionGoal \/ FlyActionExecute
      [] command = "yaw"        -> YawCommand
      [] command = "manual"     -> ManualOn \/ ManualOff
      [] command = "mission"    -> MissionCommand \/ FollowerMission
      [] command = "formation"  -> FormationCommand
      [] command = "detection"  -> \/ \E action \in {"report", "return_land"} :
                                          StartDetection(action)
                                   \/ StopDetection \/ VisionDetection

Station == \E command \in Commands \ {"role"} : Obey(command)

Roles == "role" \in Commands /\ (BecomeLeader \/ StepDown)

PX4 ==
    \/ \E a \in BOOLEAN, n \in NavStates : VehicleStatus(a, n)
    \/ \E finite_heading \in BOOLEAN : LocalPosition(finite_heading)
    \/ \E report \in LandReports : LandDetected(report)

StatusTimer == \E at_home, safe \in BOOLEAN : StatusTick(at_home, safe)

Next == Station \/ Roles \/ PX4 \/ Tick \/ StatusTimer \/ Restart

Spec == Init /\ [][Next]_vars

(* Both timers keep firing: the executor's wait set is never starved of them. *)
FairSpec ==
    /\ Spec
    /\ WF_vars(Tick)
    /\ WF_vars(StatusTimer)
-----------------------------------------------------------------------------
(* TAKEOFF is flown only while PX4's last report is armed and in OFFBOARD:     *)
(* the callback and the arming sequence keep it so whatever PX4 reports, and   *)
(* request_safe_disarm's unconditional move to IDLE then never interrupts it.  *)
FlownOnlyInOffboard == state = "TAKEOFF" => armed /\ nav = "OFFBOARD"

(* motion_enabled, which lets navigation steer, is on in TAKEOFF alone: every  *)
(* way out of TAKEOFF turns it off and no command turns it on elsewhere.       *)
MotionOnlyInTakeoff == motion_enabled => state = "TAKEOFF"

(* Both: navigation steers only an armed vehicle that PX4 reports in OFFBOARD,  *)
(* whatever became of the mode and the arming between two ticks.               *)
SteersOnlyInOffboard == FlownOnlyInOffboard /\ MotionOnlyInTakeoff

(* A running mission is being flown: it has a waypoint left and moves, manual   *)
(* control is off, and neither an arming sequence nor a landing carries one.    *)
MissionIsFlown ==
    mission_active =>
        /\ mission_index < Waypoints
        /\ mission_state \in {"RUNNING", "WAITING_AT_CHECKPOINT"}
        /\ state \notin {"ARMING", "LANDING"}
        /\ state = "TAKEOFF" => motion_enabled /\ ~manual_control

(* The automatic return has the drone to itself: only a leader runs one, and    *)
(* in TAKEOFF neither a mission nor manual control competes with it.  It        *)
(* outlives a release to the pilot until the next status tick, never an ARM.    *)
VisionReturnAlone ==
    vision_return_land_active =>
        /\ is_leader
        /\ state = "TAKEOFF" => motion_enabled /\ ~manual_control /\ ~mission_active

(* A flown or landing drone always has a yaw setpoint, so                       *)
(* publish_position_setpoint cannot release it half way through a step.         *)
HeadingKept == state \in {"TAKEOFF", "LANDING"} => yaw_initialized

(* ARM is never an implicit take-off: TAKEOFF is entered from ARMING only, at   *)
(* rest, with no mission or automatic return left over from an earlier flight.  *)
TakeoffEnteredAtRest ==
    [][state' = "TAKEOFF" /\ state # "TAKEOFF" =>
           /\ state = "ARMING"
           /\ ~motion_enabled' /\ ~mission_active' /\ ~vision_return_land_active']_vars

(* README, "Only the leader executes the file": no follower runs a mission.     *)
OnlyLeaderExecutesMission == mission_active => is_leader
-----------------------------------------------------------------------------
(* An arming sequence ends, in TAKEOFF or released to the pilot, whatever PX4    *)
(* answers.                                                                     *)
ArmingResolves == state = "ARMING" ~> state # "ARMING"

(* A controlled landing ends, in IDLE or released to the pilot, unless PX4's     *)
(* own AUTO_LAND takes it over.                                                 *)
LandingResolves == state = "LANDING" ~> state # "LANDING" \/ nav = "AUTO_LAND"

(* A return whose drone was released is given up.                               *)
VisionReturnGivenUp ==
    vision_return_land_active /\ state # "TAKEOFF" ~> ~vision_return_land_active
=============================================================================
