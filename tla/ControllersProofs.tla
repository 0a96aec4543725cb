---------------------------- MODULE ControllersProofs ----------------------------
(***************************************************************************)
(* Proofs about Controllers: what FlightControlProofs shows of one package    *)
(* holds in all four, for every value of the constants.                      *)
(*                                                                         *)
(* The copies of a handler in another package are proved to be steps of      *)
(* FlightControl, so that they keep FlightInv (NoTfIsOlder, TfIsOlder); what *)
(* the decentralized package has of its own is proved action by action.       *)
(***************************************************************************)
EXTENDS Controllers, FlightControlProofs

USE DEF
    mission, landing, arming, vision, role, px4, misc, NoTf!mission, NoTf!landing,
    NoTf!arming, NoTf!vision, NoTf!role, NoTf!px4, NoTf!misc, Tf!mission, Tf!landing,
    Tf!arming, Tf!vision, Tf!role, Tf!px4, Tf!misc, Tf!NoTf!mission, Tf!NoTf!landing,
    Tf!NoTf!arming, Tf!NoTf!vision, Tf!NoTf!role, Tf!NoTf!px4, Tf!NoTf!misc,
    Dec!mission, Dec!landing, Dec!arming, Dec!vision, Dec!role, Dec!px4, Dec!misc
-----------------------------------------------------------------------------
(* The steps of the older packages: no detection, and a status timer that only  *)
(* reports.                                                                  *)
OlderSteps ==
    \/ Commanded \/ BecomeLeader \/ StepDown \/ PX4 \/ Tick \/ Restart
    \/ StatusTick(FALSE, FALSE)

(* Every handler of swarm_single_no_tf is a copy of one of FlightControl: the facts    *)
(* cited are all the definitions of both, nothing else.                        *)
LEMMA NoTfCopies ==
    /\ NoTf!Arm => ArmCommand
    /\ NoTf!Disarm => SafeDisarmCommand
    /\ NoTf!Takeoff => TakeoffCommand
    /\ NoTf!Fly => FlyCommand
    /\ NoTf!FlyGoal => FlyActionGoal
    /\ NoTf!FlyExecute => FlyActionExecute
    /\ NoTf!ManualControl => ManualOn \/ ManualOff
    /\ NoTf!StartMission => MissionCommand
    /\ NoTf!MissionAtFollower => FollowerMission
    /\ NoTf!SetPattern => FormationCommand
    /\ \A safe \in BOOLEAN : NoTf!Land(safe) => LandCommand(safe)
    /\ NoTf!Lead => BecomeLeader
    /\ NoTf!StepBack => StepDown
    /\ ~vision_return_land_active /\ NoTf!StatusReport => StatusTick(FALSE, FALSE)
    /\ \A a \in BOOLEAN, n \in NavStates : NoTf!PX4Status(a, n) => VehicleStatus(a, n)
    /\ \A finite_heading \in BOOLEAN :
          NoTf!PX4Position(finite_heading) => LocalPosition(finite_heading)
    /\ \A report \in LandReports : NoTf!PX4Landed(report) => LandDetected(report)
    /\ NoTf!NodeRestart => Restart
  BY DEF
    SafeDisarmCommand, TakeoffCommand, FlyCommand, FlyActionGoal, FlyActionExecute,
    ManualOn, ManualOff, MissionCommand, FollowerMission, FormationCommand, LandCommand,
    BecomeLeader, StepDown, VehicleStatus, LocalPosition, LandDetected, Restart,
    RequestOffboardControl, SafeDisarm, CancelVisionReturn, ExecuteTakeoff, FlyToGoal,
    SetLocalGoal, AbortMission, ManualMotion, CanStartMission, ActivateWaypoint,
    RequestLand, LandRefused, RefreshPattern, TakeoffLost, ReleaseToPilot,
    YawFollowsHeading, Reconstructed, OffboardIdle, ResetMission, StartLand, KeepLand,
    CanStartLand, Released, ArmCommand, StatusTick, ReturnLost, NoTf!Arm, NoTf!Disarm,
    NoTf!Takeoff, NoTf!Fly, NoTf!FlyGoal, NoTf!FlyExecute, NoTf!ManualControl,
    NoTf!StartMission, NoTf!MissionAtFollower, NoTf!SetPattern, NoTf!Land, NoTf!Lead,
    NoTf!StepBack, NoTf!StatusReport, NoTf!PX4Status, NoTf!PX4Position, NoTf!PX4Landed,
    NoTf!NodeRestart, NoTf!RequestOffboard, NoTf!SafeDisarmCommand, NoTf!TakeoffCommand,
    NoTf!FlyCommand, NoTf!FlyActionGoal, NoTf!FlyActionExecute, NoTf!ManualOn,
    NoTf!ManualOff, NoTf!MissionCommand, NoTf!PlainWaypoints, NoTf!FollowerMission,
    NoTf!FormationCommand, NoTf!LandCommand, NoTf!BecomeLeader, NoTf!StepDown,
    NoTf!VehicleStatus, NoTf!LocalPosition, NoTf!LandDetected, NoTf!Restart,
    NoTf!RequestOffboardControl, NoTf!SafeDisarm, NoTf!CancelVisionReturn,
    NoTf!ExecuteTakeoff, NoTf!FlyToGoal, NoTf!SetLocalGoal, NoTf!AbortMission,
    NoTf!ManualMotion, NoTf!CanStartMission, NoTf!ActivateWaypoint, NoTf!RequestLand,
    NoTf!LandRefused, NoTf!RefreshPattern, NoTf!TakeoffLost, NoTf!ReleaseToPilot,
    NoTf!YawFollowsHeading, NoTf!Reconstructed, NoTf!OffboardIdle, NoTf!ResetMission,
    NoTf!StartLand, NoTf!KeepLand, NoTf!CanStartLand, NoTf!Released

(* So are the branches of its control timer.                                   *)
LEMMA NoTfTicks ==
    /\ StatusDue <=> NoTf!StatusDue
    /\ NoTf!TickSilent => TickSilent
    /\ NoTf!TickRaises => TickRaises
    /\ NoTf!ArmingTick => TickArming
    /\ NoTf!LandingTick => TickLanding
    /\ \A safe \in BOOLEAN : NoTf!ReleaseTick(safe) => TickRelease(safe)
    /\ \A feedback \in BOOLEAN : NoTf!TakeoffTick(feedback) => TickTakeoff(feedback)
  BY DEF
    TickSilent, TickRaises, StatusDue, Active, ReleaseToPilot, TickArming, TickLanding,
    TickRelease, TickTakeoff, Released, TickArmingNoHeading, TickArmingGivesUp,
    TickArmingDone, TickArmingCounts, TickLandingDisarmed, TickLandingAutoLand,
    TickLandingReleases, TickLandingTouchdown, TickLandingDescends, TakeoffLost,
    GoalResolves, UpdateMissionProgress, AbortMission, OffboardLost, ArmingTimesOut,
    ArmingDone, Count, KeepFlight, LandingElapsed, LandingHolds, LandingStage,
    ActivateWaypoint, CompleteMission, SetLocalGoal, NoTf!TickSilent, NoTf!TickRaises,
    NoTf!ArmingTick, NoTf!LandingTick, NoTf!ReleaseTick, NoTf!TakeoffTick,
    NoTf!StatusDue, NoTf!Active, NoTf!ReleaseToPilot, NoTf!TickArming, NoTf!TickLanding,
    NoTf!TickRelease, NoTf!TickTakeoff, NoTf!MissionProgress, NoTf!Released,
    NoTf!TickArmingNoHeading, NoTf!TickArmingGivesUp, NoTf!TickArmingDone,
    NoTf!TickArmingCounts, NoTf!TickLandingDisarmed, NoTf!TickLandingAutoLand,
    NoTf!TickLandingReleases, NoTf!TickLandingTouchdown, NoTf!TickLandingDescends,
    NoTf!TakeoffLost, NoTf!GoalResolves, NoTf!UpdateMissionProgress,
    NoTf!PlainWaypoints, NoTf!AbortMission, NoTf!OffboardLost, NoTf!ArmingTimesOut,
    NoTf!ArmingDone, NoTf!Count, NoTf!KeepFlight, NoTf!LandingElapsed,
    NoTf!LandingHolds, NoTf!LandingStage, NoTf!ActivateWaypoint, NoTf!CompleteMission,
    NoTf!SetLocalGoal

(* So a step of swarm_single_no_tf is one of the older steps.                    *)
LEMMA NoTfIsOlder == ~vision_return_land_active /\ NoTf!OlderNext => OlderSteps
<1>1. NoTf!ControlTick => Tick
  BY NoTfTicks DEF NoTf!ControlTick, Tick
<1> QED
  BY <1>1, NoTfCopies DEF NoTf!OlderNext, NoTf!NavStates, NoTf!LandReports, NavStates,
      LandReports, OlderSteps, Commanded, PX4

(* Every handler of swarm_single is a copy too, some through swarm_single_no_tf.      *)
LEMMA TfCopies ==
    /\ Tf!Arm => ArmCommand
    /\ Tf!Disarm => SafeDisarmCommand
    /\ Tf!Takeoff => TakeoffCommand
    /\ Tf!Fly => FlyCommand
    /\ Tf!FlyGoal => FlyActionGoal
    /\ Tf!FlyExecute => FlyActionExecute
    /\ Tf!ManualControl => ManualOn \/ ManualOff
    /\ Tf!StartMission => MissionCommand
    /\ Tf!MissionAtFollower => FollowerMission
    /\ Tf!SetPattern => FormationCommand
    /\ \A safe \in BOOLEAN : Tf!Land(safe) => LandCommand(safe)
    /\ Tf!Lead => BecomeLeader
    /\ Tf!StepBack => StepDown
    /\ ~vision_return_land_active /\ Tf!StatusReport => StatusTick(FALSE, FALSE)
    /\ \A a \in BOOLEAN, n \in NavStates : Tf!PX4Status(a, n) => VehicleStatus(a, n)
    /\ \A finite_heading \in BOOLEAN :
          Tf!PX4Position(finite_heading) => LocalPosition(finite_heading)
    /\ \A report \in LandReports : Tf!PX4Landed(report) => LandDetected(report)
    /\ Tf!NodeRestart => Restart
  BY DEF
    SafeDisarmCommand, TakeoffCommand, FlyCommand, FlyActionGoal, FlyActionExecute,
    ManualOn, ManualOff, MissionCommand, FollowerMission, FormationCommand, LandCommand,
    BecomeLeader, StepDown, VehicleStatus, LocalPosition, LandDetected, Restart,
    RequestOffboardControl, SafeDisarm, CancelVisionReturn, ExecuteTakeoff, FlyToGoal,
    SetLocalGoal, AbortMission, ManualMotion, CanStartMission, ActivateWaypoint,
    RequestLand, LandRefused, RefreshPattern, TakeoffLost, ReleaseToPilot,
    YawFollowsHeading, Reconstructed, OffboardIdle, ResetMission, StartLand, KeepLand,
    CanStartLand, Released, ArmCommand, StatusTick, ReturnLost, Tf!Arm, Tf!Disarm,
    Tf!Takeoff, Tf!Fly, Tf!FlyGoal, Tf!FlyExecute, Tf!ManualControl, Tf!StartMission,
    Tf!MissionAtFollower, Tf!SetPattern, Tf!Land, Tf!Lead, Tf!StepBack, Tf!StatusReport,
    Tf!PX4Status, Tf!PX4Position, Tf!PX4Landed, Tf!NodeRestart, Tf!RequestOffboard,
    Tf!NoTf!Arm, Tf!NoTf!Disarm, Tf!NoTf!Takeoff, Tf!NoTf!Fly, Tf!NoTf!FlyGoal,
    Tf!NoTf!FlyExecute, Tf!NoTf!ManualControl, Tf!NoTf!StartMission,
    Tf!NoTf!MissionAtFollower, Tf!NoTf!SetPattern, Tf!NoTf!Land, Tf!NoTf!Lead,
    Tf!NoTf!StepBack, Tf!NoTf!StatusReport, Tf!NoTf!PX4Status, Tf!NoTf!PX4Position,
    Tf!NoTf!PX4Landed, Tf!NoTf!NodeRestart, Tf!NoTf!RequestOffboard,
    Tf!NoTf!SafeDisarmCommand, Tf!NoTf!TakeoffCommand, Tf!NoTf!FlyCommand,
    Tf!NoTf!FlyActionGoal, Tf!NoTf!FlyActionExecute, Tf!NoTf!ManualOn,
    Tf!NoTf!ManualOff, Tf!NoTf!MissionCommand, Tf!NoTf!PlainWaypoints,
    Tf!NoTf!FollowerMission, Tf!NoTf!FormationCommand, Tf!NoTf!LandCommand,
    Tf!NoTf!BecomeLeader, Tf!NoTf!StepDown, Tf!NoTf!VehicleStatus,
    Tf!NoTf!LocalPosition, Tf!NoTf!LandDetected, Tf!NoTf!Restart,
    Tf!NoTf!RequestOffboardControl, Tf!NoTf!SafeDisarm, Tf!NoTf!CancelVisionReturn,
    Tf!NoTf!ExecuteTakeoff, Tf!NoTf!FlyToGoal, Tf!NoTf!SetLocalGoal,
    Tf!NoTf!AbortMission, Tf!NoTf!ManualMotion, Tf!NoTf!CanStartMission,
    Tf!NoTf!ActivateWaypoint, Tf!NoTf!RequestLand, Tf!NoTf!LandRefused,
    Tf!NoTf!RefreshPattern, Tf!NoTf!TakeoffLost, Tf!NoTf!ReleaseToPilot,
    Tf!NoTf!YawFollowsHeading, Tf!NoTf!Reconstructed, Tf!NoTf!OffboardIdle,
    Tf!NoTf!ResetMission, Tf!NoTf!StartLand, Tf!NoTf!KeepLand, Tf!NoTf!CanStartLand,
    Tf!NoTf!Released

(* And the branches of its control timer.                                      *)
LEMMA TfTicks ==
    /\ StatusDue <=> Tf!StatusDue
    /\ Tf!TickSilent => TickSilent
    /\ Tf!TickRaises => TickRaises
    /\ Tf!ArmingTick => TickArming
    /\ Tf!LandingTick => TickLanding
    /\ \A safe \in BOOLEAN : Tf!ReleaseTick(safe) => TickRelease(safe)
    /\ \A feedback \in BOOLEAN : Tf!TakeoffTick(feedback) => TickTakeoff(feedback)
  BY DEF
    TickSilent, TickRaises, StatusDue, Active, ReleaseToPilot, TickArming, TickLanding,
    TickRelease, TickTakeoff, Released, TickArmingNoHeading, TickArmingGivesUp,
    TickArmingDone, TickArmingCounts, TickLandingDisarmed, TickLandingAutoLand,
    TickLandingReleases, TickLandingTouchdown, TickLandingDescends, TakeoffLost,
    GoalResolves, UpdateMissionProgress, AbortMission, OffboardLost, ArmingTimesOut,
    ArmingDone, Count, KeepFlight, LandingElapsed, LandingHolds, LandingStage,
    ActivateWaypoint, CompleteMission, SetLocalGoal, Tf!TickSilent, Tf!TickRaises,
    Tf!ArmingTick, Tf!LandingTick, Tf!ReleaseTick, Tf!TakeoffTick, Tf!StatusDue,
    Tf!Active, Tf!ReleaseToPilot, Tf!TickTakeoff, Tf!MissionProgress, Tf!Released,
    Tf!GoalResolves, Tf!UpdateMissionProgress, Tf!AbortMission, Tf!ActivateWaypoint,
    Tf!CompleteMission, Tf!SetLocalGoal, Tf!NoTf!TickSilent, Tf!NoTf!TickRaises,
    Tf!NoTf!ArmingTick, Tf!NoTf!LandingTick, Tf!NoTf!ReleaseTick, Tf!NoTf!TakeoffTick,
    Tf!NoTf!StatusDue, Tf!NoTf!Active, Tf!NoTf!ReleaseToPilot, Tf!NoTf!TickArming,
    Tf!NoTf!TickLanding, Tf!NoTf!TickRelease, Tf!NoTf!TickTakeoff,
    Tf!NoTf!MissionProgress, Tf!NoTf!Released, Tf!NoTf!TickArmingNoHeading,
    Tf!NoTf!TickArmingGivesUp, Tf!NoTf!TickArmingDone, Tf!NoTf!TickArmingCounts,
    Tf!NoTf!TickLandingDisarmed, Tf!NoTf!TickLandingAutoLand,
    Tf!NoTf!TickLandingReleases, Tf!NoTf!TickLandingTouchdown,
    Tf!NoTf!TickLandingDescends, Tf!NoTf!TakeoffLost, Tf!NoTf!GoalResolves,
    Tf!NoTf!UpdateMissionProgress, Tf!NoTf!PlainWaypoints, Tf!NoTf!AbortMission,
    Tf!NoTf!OffboardLost, Tf!NoTf!ArmingTimesOut, Tf!NoTf!ArmingDone, Tf!NoTf!Count,
    Tf!NoTf!KeepFlight, Tf!NoTf!LandingElapsed, Tf!NoTf!LandingHolds,
    Tf!NoTf!LandingStage, Tf!NoTf!ActivateWaypoint, Tf!NoTf!CompleteMission,
    Tf!NoTf!SetLocalGoal

(* So a step of swarm_single is one of the older steps.                          *)
LEMMA TfIsOlder == ~vision_return_land_active /\ Tf!TfNext => OlderSteps
<1>1. Tf!ControlTick => Tick
  BY TfTicks DEF Tf!ControlTick, Tick
<1> QED
  BY <1>1, TfCopies DEF Tf!TfNext, Tf!NavStates, Tf!LandReports, NavStates, LandReports,
      OlderSteps, Commanded, PX4

-----------------------------------------------------------------------------
(* The older packages start no return.                                         *)
LEMMA OlderNeverReturn ==
    IInv /\ ~vision_return_land_active /\ OlderSteps
        => IInv' /\ ~vision_return_land_active' /\ EntersAtRest
<1> SUFFICES ASSUME IInv, ~vision_return_land_active, OlderSteps
             PROVE  IInv' /\ ~vision_return_land_active' /\ EntersAtRest
  OBVIOUS
<1>1. Steps
  BY DEF OlderSteps, Steps, StatusTimer
<1>2. IInv' /\ EntersAtRest
  BY <1>1, StepKeeps
<1>3. ~vision_return_land_active'
  <2>1. CASE Commanded
    BY <2>1 DEF Commanded, LandCommand, ArmCommand, SafeDisarmCommand, SafeDisarm,
        TakeoffCommand, FlyCommand, FlyActionGoal, FlyActionExecute, YawCommand, ManualOn,
        ManualOff, MissionCommand, FollowerMission, FormationCommand, StartDetection,
        StopDetection, CancelVisionReturn
  <2>2. CASE PX4 \/ Tick
    BY <2>2, TicksLeaveReturn DEF Tick, Ticks
  <2>3. CASE BecomeLeader \/ StepDown \/ Restart \/ StatusTick(FALSE, FALSE)
    BY <2>3 DEF BecomeLeader, StepDown, Restart, Reconstructed, StatusTick
  <2> QED
    BY <2>1, <2>2, <2>3 DEF OlderSteps
<1> QED
  BY <1>2, <1>3
-----------------------------------------------------------------------------
(* The decentralized drone has no leader: FlightInv, and a return under way has used  *)
(* up the action that would start another.                                    *)
DroneInv ==
    /\ FlightInv
    /\ ~is_leader
    /\ vision_return_land_active => vision_detection_action = "report"

(* Its control timer and what PX4 reports are copies of FlightControl's.          *)
LEMMA DecTicks ==
    /\ Dec!ControlTick => Ticks /\ ~Dec!BroadcastDue
    /\ \A a \in BOOLEAN, n \in NavStates : Dec!PX4Status(a, n) => VehicleStatus(a, n)
    /\ \A finite_heading \in BOOLEAN :
          Dec!PX4Position(finite_heading) => LocalPosition(finite_heading)
    /\ \A report \in LandReports : Dec!PX4Landed(report) => LandDetected(report)
<1> USE DEF
    ActivateWaypoint, AbortMission, TickSilent, TickRaises, VehicleStatus,
    LocalPosition, LandDetected, SetLocalGoal, Active, ReleaseToPilot, TickArming,
    TickLanding, TickRelease, TickTakeoff, TakeoffLost, YawFollowsHeading, Released,
    TickArmingNoHeading, TickArmingGivesUp, TickArmingDone, TickArmingCounts,
    TickLandingDisarmed, TickLandingAutoLand, TickLandingReleases, TickLandingTouchdown,
    TickLandingDescends, GoalResolves, UpdateMissionProgress, OffboardLost,
    ArmingTimesOut, ArmingDone, Count, KeepFlight, LandingElapsed, LandingHolds,
    LandingStage, CompleteMission, Dec!PX4Status, Dec!PX4Position, Dec!PX4Landed,
    Dec!TickSilent, Dec!TickRaises, Dec!ArmingTick, Dec!LandingTick, Dec!ReleaseTick,
    Dec!TakeoffTick, Dec!VehicleStatus, Dec!LocalPosition, Dec!LandDetected, Dec!Active,
    Dec!ReleaseToPilot, Dec!TickArming, Dec!TickLanding, Dec!TickRelease,
    Dec!TickTakeoff, Dec!MissionProgress, Dec!TakeoffLost, Dec!YawFollowsHeading,
    Dec!Released, Dec!TickArmingNoHeading, Dec!TickArmingGivesUp, Dec!TickArmingDone,
    Dec!TickArmingCounts, Dec!TickLandingDisarmed, Dec!TickLandingAutoLand,
    Dec!TickLandingReleases, Dec!TickLandingTouchdown, Dec!TickLandingDescends,
    Dec!GoalResolves, Dec!UpdateMissionProgress, Dec!AbortMission, Dec!OffboardLost,
    Dec!ArmingTimesOut, Dec!ArmingDone, Dec!Count, Dec!KeepFlight, Dec!LandingElapsed,
    Dec!LandingHolds, Dec!LandingStage, Dec!ActivateWaypoint, Dec!CompleteMission,
    Dec!SetLocalGoal
<1>1. /\ Dec!TickSilent => TickSilent
      /\ Dec!TickRaises => TickRaises
      /\ Dec!LandingTick => TickLanding
      /\ \A safe \in BOOLEAN : Dec!ReleaseTick(safe) => TickRelease(safe)
  OBVIOUS
<1>2. Dec!ArmingTick => TickArming
  OBVIOUS
<1>3. \A feedback \in BOOLEAN : Dec!TakeoffTick(feedback) => TickTakeoff(feedback)
  OBVIOUS
<1>4. /\ \A a \in BOOLEAN, n \in NavStates : Dec!PX4Status(a, n) => VehicleStatus(a, n)
      /\ \A finite_heading \in BOOLEAN :
            Dec!PX4Position(finite_heading) => LocalPosition(finite_heading)
      /\ \A report \in LandReports : Dec!PX4Landed(report) => LandDetected(report)
  OBVIOUS
<1> QED
  BY <1>1, <1>2, <1>3, <1>4 DEF Dec!ControlTick, Ticks

(* Every handler of its own keeps the invariant, and none takes off.              *)
LEMMA DecHandlers ==
    DroneInv /\ Dec!DroneNext =>
        \/ DroneInv' /\ EntersAtRest
        \/ Dec!ControlTick \/ PX4
<1> SUFFICES ASSUME DroneInv, Dec!DroneNext, ~Dec!ControlTick, ~PX4
             PROVE  DroneInv' /\ EntersAtRest
  OBVIOUS
<1> USE TicksAssumption, WaypointsAssumption
    DEF DroneInv, FlightInv, EntersAtRest, ValuesOK, FlownOnlyInOffboard,
        MotionOnlyInTakeoff, MissionIsFlown, ReturnSteersAlone, HeadingKept,
        ReturnBeforeStatus, States, Goals, MissionStates, NavStates,
        LandReports, Messages
<1>1. CASE Dec!Arm
  BY <1>1 DEF Dec!Arm, Dec!RequestOffboard, Dec!RequestOffboardControl,
      Dec!OffboardIdle, Dec!SetLocalGoal, Dec!ResetMission
<1>2. CASE Dec!Takeoff
  BY <1>2 DEF Dec!Takeoff, Dec!CancelVisionReturn, Dec!ExecuteTakeoff,
      Dec!SetLocalGoal, Dec!AbortMission
<1>3. CASE Dec!Disarm
  BY <1>3 DEF Dec!Disarm, Dec!CancelVisionReturn, Dec!SafeDisarm
<1>4. CASE Dec!SetGoal
  <2>1. CASE UNCHANGED <<goal, Dec!mission, motion_enabled>>
    BY <1>4, <2>1 DEF Dec!SetGoal, Dec!CancelVisionReturn
  <2>2. CASE /\ Dec!SetLocalGoal("command") /\ Dec!AbortMission
             /\ motion_enabled' = (state = "TAKEOFF" \/ (motion_enabled /\ ~mission_active))
    <3>1. mission_active' = FALSE /\ state' = state /\ (motion_enabled' => state' = "TAKEOFF")
      BY <1>4, <2>2 DEF Dec!SetGoal, Dec!AbortMission
    <3> QED
      BY <1>4, <2>2, <3>1 DEF Dec!SetGoal, Dec!CancelVisionReturn, Dec!SetLocalGoal,
          Dec!AbortMission
  <2> QED
    BY <1>4, <2>1, <2>2 DEF Dec!SetGoal
<1>5. CASE Dec!Yaw
  BY <1>5 DEF Dec!Yaw, Dec!CancelVisionReturn, Dec!RequestRelativeYaw,
      Dec!AbortMission
<1>6. CASE Dec!Mission
  BY <1>6 DEF Dec!Mission, Dec!CancelVisionReturn, Dec!CanStartMission,
      Dec!ActivateWaypoint, Dec!SetLocalGoal
<1>7. CASE Dec!StopMission
  BY <1>7 DEF Dec!StopMission, Dec!AbortMission
<1>8. CASE Dec!DisableDetection
  BY <1>8 DEF Dec!DisableDetection, Dec!KeepFlying
<1>9. CASE Dec!Detection
  BY <1>9 DEF Dec!Detection, Dec!StartVisionReturn, Dec!AbortMission, Dec!SetLocalGoal
<1>10. ASSUME NEW safe \in BOOLEAN, Dec!Land(safe) PROVE DroneInv' /\ EntersAtRest
  BY <1>10 DEF Dec!Land, Dec!CancelVisionReturn, Dec!RequestLand, Dec!LandRefused,
      Dec!StartLand, Dec!KeepLand, Dec!CanStartLand, Dec!AbortMission
<1>11. ASSUME NEW action \in {"report", "return_land"}, Dec!EnableDetection(action)
      PROVE DroneInv' /\ EntersAtRest
  BY <1>11 DEF Dec!EnableDetection, Dec!KeepFlying
<1>12. ASSUME NEW at_home \in BOOLEAN, NEW safe \in BOOLEAN,
             Dec!StatusBroadcast(at_home, safe)
      PROVE DroneInv' /\ EntersAtRest
  BY <1>12 DEF Dec!StatusBroadcast, Dec!KeepLand, Dec!ReturnLost,
      Dec!CancelVisionReturn, Dec!RequestLand, Dec!LandRefused, Dec!StartLand,
      Dec!CanStartLand, Dec!AbortMission
<1>13. CASE Dec!NodeRestart
  BY <1>13 DEF Dec!NodeRestart, Dec!Reconstructed
<1> QED
  BY DecTicks, <1>1, <1>2, <1>3, <1>4, <1>5, <1>6, <1>7, <1>8, <1>9, <1>10, <1>11,
      <1>12, <1>13 DEF Dec!DroneNext, Dec!NavStates, Dec!LandReports, PX4

-----------------------------------------------------------------------------
(* A drone starts well in each package.                                        *)
LEMMA DecStarts == Dec!DroneInit => DroneInv
  BY TicksAssumption, WaypointsAssumption
  DEF Dec!DroneInit, Dec!Constructed, DroneInv, FlightInv, ValuesOK, FlownOnlyInOffboard,
      MotionOnlyInTakeoff, MissionIsFlown, ReturnSteersAlone, HeadingKept,
      ReturnBeforeStatus, States, Goals, MissionStates, NavStates, LandReports, Messages

(* The older ones start as swarm_single_no_tf_yaw does.                          *)
LEMMA OlderStarts ==
    NoTf!OlderInit \/ Tf!TfInit => Init /\ ~vision_return_land_active
  BY DEF NoTf!OlderInit, NoTf!Init, NoTf!Constructed, Tf!TfInit, Tf!Init, Tf!Constructed,
      Init, Constructed

(* A step of a decentralized drone keeps its invariant and takes off from rest only.  *)
LEMMA DecKeeps == DroneInv /\ Dec!DroneNext => DroneInv' /\ EntersAtRest
<1> SUFFICES ASSUME DroneInv, Dec!ControlTick \/ PX4
             PROVE  DroneInv' /\ EntersAtRest
  BY DecHandlers
<1>1. FlightInv' /\ EntersAtRest
  <2>1. CASE PX4
    BY <2>1, PX4Keeps, OnlyTicksTakeOff DEF DroneInv
  <2>2. CASE Dec!ControlTick
    <3>1. Ticks /\ ~Dec!BroadcastDue
      BY <2>2, DecTicks
    <3>2. ArmingInTime
      BY <3>1, TicksAssumption
      DEF DroneInv, FlightInv, ValuesOK, Dec!BroadcastDue, ArmingInTime
    <3> QED
      BY <3>1, <3>2, TicksKeep, TicksEnterAtRest DEF DroneInv
  <2> QED
    BY <2>1, <2>2
<1>2. UNCHANGED <<vision, is_leader>>
  BY TicksLeaveReturn, DecTicks
<1> QED
  BY <1>1, <1>2 DEF DroneInv

(* The invariant of each package.                                              *)
PackageInv ==
    /\ package \in {"no_tf_yaw", "no_tf", "tf", "decenter"}
    /\ package = "no_tf_yaw" => IInv
    /\ package \in {"no_tf", "tf"} => IInv /\ ~vision_return_land_active
    /\ package = "decenter" => DroneInv

(* It holds at the start of whichever package the drone runs,                      *)
LEMMA PackageStarts == DroneInit => PackageInv
  BY InitIInv, OlderStarts, DecStarts DEF DroneInit, PackageInv

(* every step of that package keeps it,                                        *)
LEMMA PackageKeeps ==
    PackageInv /\ [DroneNext]_<<vars, package>> => PackageInv' /\ [EntersAtRest]_vars
<1> SUFFICES ASSUME PackageInv, [DroneNext]_<<vars, package>>
             PROVE  PackageInv' /\ [EntersAtRest]_vars
  OBVIOUS
<1>1. CASE UNCHANGED <<vars, package>>
  <2>1. /\ IInv => IInv'
        /\ DroneInv => DroneInv'
        /\ UNCHANGED vision_return_land_active
    BY <1>1, StutterKeeps DEF vars, DroneInv, FlightInv, ValuesOK, FlownOnlyInOffboard,
        MotionOnlyInTakeoff, MissionIsFlown, ReturnSteersAlone, HeadingKept,
        ReturnBeforeStatus
  <2> QED
    BY <1>1, <2>1 DEF PackageInv
<1>2. CASE package = "no_tf_yaw" /\ Next /\ UNCHANGED package
  BY <1>2, NextIsAStep, StepKeeps DEF PackageInv
<1>3. CASE package \in {"no_tf", "tf"} /\ OlderSteps /\ UNCHANGED package
  BY <1>3, OlderNeverReturn DEF PackageInv
<1>4. CASE package = "decenter" /\ Dec!DroneNext /\ UNCHANGED package
  BY <1>4, DecKeeps DEF PackageInv
<1> QED
  BY <1>1, <1>2, <1>3, <1>4, NoTfIsOlder, TfIsOlder DEF DroneNext, PackageInv

(* so it always holds.                                                         *)
LEMMA PackageInductive == DroneSpec => []PackageInv
<1>1. PackageInv /\ [DroneNext]_<<vars, package>> => PackageInv'
  BY PackageKeeps
<1> QED
  BY <1>1, PackageStarts, PTL DEF DroneSpec
-----------------------------------------------------------------------------
(* In every package the drone steers itself in TAKEOFF alone, armed and in OFFBOARD.  *)
THEOREM MotionIsConfinedInAll == DroneSpec => []SteersOnlyInOffboard
<1>1. PackageInv => SteersOnlyInOffboard
  BY DEF PackageInv, IInv, DroneInv, FlightInv, SteersOnlyInOffboard
<1> QED
  BY <1>1, PackageInductive, PTL

(* In every package a mission that is running is being flown.                    *)
THEOREM MissionFlownInAll == DroneSpec => []MissionIsFlown
<1>1. PackageInv => MissionIsFlown
  BY DEF PackageInv, IInv, DroneInv, FlightInv
<1> QED
  BY <1>1, PackageInductive, PTL

(* In every package a flown or landing drone has a yaw setpoint.                  *)
THEOREM HeadingKeptInAll == DroneSpec => []HeadingKept
<1>1. PackageInv => HeadingKept
  BY DEF PackageInv, IInv, DroneInv, FlightInv
<1> QED
  BY <1>1, PackageInductive, PTL

(* The automatic return has the drone to itself, led or alone; the older packages  *)
(* never start one.                                                            *)
THEOREM ReturnAlwaysHasDrone == DroneSpec => []ReturnHasDrone
<1>1. PackageInv => ReturnHasDrone
  <2>1. IInv => VisionReturnAlone
    BY DEF IInv, FlightInv, LeaderReturns, ReturnSteersAlone, VisionReturnAlone
  <2>2. DroneInv => Dec!ReturnAlone
    BY DEF DroneInv, FlightInv, ReturnSteersAlone, Dec!ReturnAlone
  <2> QED
    BY <2>1, <2>2 DEF PackageInv, ReturnHasDrone
<1> QED
  BY <1>1, PackageInductive, PTL

(* In every package ARM is no implicit take-off: TAKEOFF is entered at rest.       *)
THEOREM TakeoffAtRestInAll == DroneSpec => TakeoffEnteredAtRest
<1>1. PackageInv /\ [DroneNext]_<<vars, package>> => [EntersAtRest]_vars
  BY PackageKeeps
<1> QED
  BY <1>1, PackageInductive, PTL DEF DroneSpec, TakeoffEnteredAtRest, EntersAtRest
================================================================================
