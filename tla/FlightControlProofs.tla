-------------------------- MODULE FlightControlProofs --------------------------
(***************************************************************************)
(* Proofs about FlightControl, for every value of its constants.            *)
(*                                                                         *)
(* Type correctness is proved in two parts, values and flags.  The safety   *)
(* invariants are proved together: MotionOnlyInTakeoff needs                *)
(* FlownOnlyInOffboard (request_safe_disarm leaves TAKEOFF without touching  *)
(* motion_enabled when the vehicle is disarmed), and VisionReturnAlone      *)
(* needs MissionIsFlown and ReturnBeforeStatus, which says why an automatic  *)
(* return does not survive an arming sequence.  The lemmas on steps are      *)
(* grouped by who takes them, for ControllersProofs to use them again.       *)
(***************************************************************************)
EXTENDS FlightControl, TLAPS

(* A return still pending while arming has not seen a status tick, and so the  *)
(* sequence has not come past the tick at which one is due.                   *)
ReturnBeforeStatus ==
    vision_return_land_active /\ state = "ARMING" =>
        ~status_seen /\ offboard_setpoint_counter <= StatusTicks

(* In TAKEOFF an automatic return steers alone.                               *)
ReturnSteersAlone ==
    vision_return_land_active /\ state = "TAKEOFF" =>
        motion_enabled /\ ~manual_control /\ ~mission_active

LeaderReturns == vision_return_land_active => is_leader

(* What holds in every package (ControllersProofs), and the rest of VisionReturnAlone, *)
(* which holds where there are leaders.                                       *)
FlightInv ==
    /\ ValuesOK
    /\ FlownOnlyInOffboard
    /\ MotionOnlyInTakeoff
    /\ MissionIsFlown
    /\ ReturnSteersAlone
    /\ HeadingKept
    /\ ReturnBeforeStatus

IInv == FlightInv /\ LeaderReturns

(* An arming sequence with a return pending has not outrun the status timer.   *)
ArmingInTime ==
    vision_return_land_active /\ state = "ARMING" /\ ~status_seen =>
        offboard_setpoint_counter < StatusTicks

USE DEF mission, landing, arming, vision, role, px4, misc
-----------------------------------------------------------------------------
(* The actions, by who takes them.                                           *)
Commanded ==
    \/ ArmCommand \/ SafeDisarmCommand \/ TakeoffCommand \/ FlyCommand
    \/ FlyActionGoal \/ FlyActionExecute \/ YawCommand \/ ManualOn \/ ManualOff
    \/ MissionCommand \/ FollowerMission \/ FormationCommand \/ StopDetection
    \/ \E safe \in BOOLEAN : LandCommand(safe)
    \/ \E action \in {"report", "return_land"} : StartDetection(action)

Ticks ==
    \/ TickSilent \/ TickRaises \/ TickArming \/ TickLanding
    \/ \E safe \in BOOLEAN : TickRelease(safe)
    \/ \E feedback \in BOOLEAN : TickTakeoff(feedback)

Steps ==
    \/ Commanded \/ VisionDetection \/ BecomeLeader \/ StepDown
    \/ PX4 \/ Tick \/ StatusTimer \/ Restart

(* A command is one of these actions, and no other, whichever commands arrive. *)
LEMMA NextIsAStep == Next => Steps
<1> SUFFICES ASSUME NEW command \in Commands \ {"role"}, Obey(command)
             PROVE  Commanded \/ VisionDetection
  BY DEF Next, Station, Roles, Steps
<1> QED
  BY CommandsAssumption DEF Obey, AllCommands, Commanded

(* A freshly constructed node is well typed and satisfies the invariant.       *)
LEMMA InitValues == Init => ValuesOK
  BY TicksAssumption, WaypointsAssumption
  DEF Init, Constructed, ValuesOK, States, Goals, MissionStates, NavStates,
      LandReports, Messages

(* The flags of a freshly constructed node are Booleans.                      *)
LEMMA InitFlags == Init => FlagsOK
  BY DEF Init, Constructed, FlagsOK

(* Nothing is armed, flown, run or pending in a freshly constructed node.     *)
LEMMA InitIInv == Init => IInv
  BY InitValues
  DEF Init, Constructed, IInv, FlightInv, FlownOnlyInOffboard, MotionOnlyInTakeoff,
      MissionIsFlown, ReturnSteersAlone, LeaderReturns, HeadingKept, ReturnBeforeStatus
-----------------------------------------------------------------------------
(* Every step keeps the counters, enumerations and messages in range.          *)
LEMMA StepValues == ValuesOK /\ (Steps \/ Ticks) => ValuesOK'
<1> SUFFICES ASSUME ValuesOK, Steps \/ Ticks PROVE ValuesOK'
  OBVIOUS
<1> USE TicksAssumption, WaypointsAssumption DEF ValuesOK, States, Goals,
    MissionStates, NavStates, LandReports, Messages
<1>1. ASSUME NEW safe \in BOOLEAN, LandCommand(safe) PROVE ValuesOK'
  BY <1>1 DEF LandCommand, CancelVisionReturn, RequestLand, LandRefused, StartLand,
      CanStartLand, AbortMission, KeepLand
<1>2. CASE ArmCommand
  BY <1>2 DEF ArmCommand, RequestOffboardControl, OffboardIdle, SetLocalGoal,
      ResetMission
<1>3. CASE SafeDisarmCommand
  BY <1>3 DEF SafeDisarmCommand, SafeDisarm
<1>4. CASE TakeoffCommand
  BY <1>4 DEF TakeoffCommand, ExecuteTakeoff, SetLocalGoal, AbortMission,
      CancelVisionReturn
<1>5. CASE FlyCommand
  BY <1>5 DEF FlyCommand, FlyToGoal, SetLocalGoal, AbortMission, CancelVisionReturn
<1>6. CASE FlyActionGoal
  BY <1>6 DEF FlyActionGoal
<1>7. CASE FlyActionExecute
  BY <1>7 DEF FlyActionExecute, SetLocalGoal
<1>8. CASE YawCommand
  BY <1>8 DEF YawCommand, RequestRelativeYaw, AbortMission, CancelVisionReturn
<1>9. CASE ManualOn
  BY <1>9 DEF ManualOn, ManualMotion, AbortMission, CancelVisionReturn
<1>10. CASE ManualOff
  BY <1>10 DEF ManualOff
<1>11. CASE MissionCommand
  BY <1>11 DEF MissionCommand, CanStartMission, ActivateWaypoint, SetLocalGoal,
      CancelVisionReturn
<1>12. CASE FollowerMission
  BY <1>12 DEF FollowerMission
<1>13. CASE FormationCommand
  BY <1>13 DEF FormationCommand
<1>14. ASSUME NEW action \in {"report", "return_land"},
        StartDetection(action)
        PROVE ValuesOK'
  BY <1>14 DEF StartDetection
<1>15. CASE StopDetection
  BY <1>15 DEF StopDetection
<1>16. CASE VisionDetection
  BY <1>16 DEF VisionDetection, StartVisionReturn, AbortMission, SetLocalGoal
<1>17. CASE BecomeLeader
  BY <1>17 DEF BecomeLeader
<1>18. CASE StepDown
  BY <1>18 DEF StepDown, RefreshPattern
<1>19. ASSUME NEW a \in BOOLEAN, NEW n \in NavStates,
        VehicleStatus(a, n)
        PROVE ValuesOK'
  BY <1>19 DEF VehicleStatus, TakeoffLost, ReleaseToPilot, Released, AbortMission
<1>20. ASSUME NEW finite_heading \in BOOLEAN,
        LocalPosition(finite_heading)
        PROVE ValuesOK'
  BY <1>20 DEF LocalPosition, YawFollowsHeading
<1>21. ASSUME NEW report \in LandReports, LandDetected(report) PROVE ValuesOK'
  BY <1>21 DEF LandDetected
<1>22. CASE TickSilent
  BY <1>22 DEF TickSilent, Active
<1>23. ASSUME NEW safe \in BOOLEAN, TickRelease(safe) PROVE ValuesOK'
  BY <1>23 DEF TickRelease, Active, TakeoffLost, ReleaseToPilot, Released,
      AbortMission
<1>24. CASE TickRaises
  BY <1>24 DEF TickRaises, ReleaseToPilot, Released, AbortMission
<1>25. CASE TickArming
  <2>1. CASE TickArmingNoHeading
    BY <1>25, <2>1 DEF TickArming, TickArmingNoHeading, Released, AbortMission
  <2>2. CASE TickArmingGivesUp
    BY <1>25, <2>2 DEF TickArming, TickArmingGivesUp, ReleaseToPilot, Released,
        AbortMission
  <2>3. CASE TickArmingDone
    BY <1>25, <2>3 DEF TickArming, TickArmingDone, ArmingDone, OffboardLost, Count
  <2>4. CASE TickArmingCounts
    BY <1>25, <2>4 DEF TickArming, TickArmingCounts, ArmingDone, OffboardLost,
        ArmingTimesOut, Count
  <2> QED
    BY <1>25, <2>1, <2>2, <2>3, <2>4 DEF TickArming
<1>26. ASSUME NEW feedback \in BOOLEAN, TickTakeoff(feedback) PROVE ValuesOK'
  BY <1>26 DEF TickTakeoff, UpdateMissionProgress, ActivateWaypoint,
      CompleteMission, AbortMission, SetLocalGoal
<1>27. CASE TickLanding
  <2>1. CASE TickLandingDisarmed
    BY <1>27, <2>1 DEF TickLanding, TickLandingDisarmed, KeepFlight
  <2>2. CASE TickLandingAutoLand
    BY <1>27, <2>2 DEF TickLanding, TickLandingAutoLand, KeepFlight, LandingElapsed
  <2>3. CASE TickLandingReleases
    BY <1>27, <2>3 DEF TickLanding, TickLandingReleases, ReleaseToPilot, Released,
        AbortMission
  <2>4. ASSUME NEW resend \in BOOLEAN, TickLandingTouchdown(resend) PROVE ValuesOK'
    BY <1>27, <2>4 DEF TickLanding, TickLandingTouchdown, LandingHolds, KeepFlight,
        LandingElapsed
  <2>5. ASSUME NEW timing_ok \in BOOLEAN, NEW low \in BOOLEAN,
          TickLandingDescends(timing_ok, low)
          PROVE ValuesOK'
    BY <1>27, <2>5 DEF TickLanding, TickLandingDescends, LandingHolds, LandingStage,
        KeepFlight, LandingElapsed
  <2> QED
    BY <1>27, <2>1, <2>2, <2>3, <2>4, <2>5 DEF TickLanding
<1>28. ASSUME NEW at_home \in BOOLEAN, NEW safe \in BOOLEAN,
        StatusTick(at_home, safe)
        PROVE ValuesOK'
  BY <1>28 DEF StatusTick, ReturnLost, KeepLand, RequestLand, LandRefused,
      StartLand, CanStartLand, AbortMission
<1>29. CASE Restart
  BY <1>29 DEF Restart, Reconstructed
<1> QED
  BY <1>1, <1>2, <1>3, <1>4, <1>5, <1>6, <1>7, <1>8, <1>9, <1>10, <1>11, <1>12,
      <1>13, <1>14, <1>15, <1>16, <1>17, <1>18, <1>19, <1>20, <1>21, <1>22, <1>23,
      <1>24, <1>25, <1>26, <1>27, <1>28, <1>29 DEF Steps, Commanded, PX4, Tick, Ticks,
      StatusTimer
-----------------------------------------------------------------------------
(* Every step keeps the flags Boolean.                                         *)
LEMMA StepFlags == FlagsOK /\ Steps => FlagsOK'
<1> SUFFICES ASSUME FlagsOK, Steps PROVE FlagsOK'
  OBVIOUS
<1> USE TicksAssumption, WaypointsAssumption DEF FlagsOK
<1>1. ASSUME NEW safe \in BOOLEAN, LandCommand(safe) PROVE FlagsOK'
  BY <1>1, ZenonT(60) DEF LandCommand, CancelVisionReturn, RequestLand, LandRefused,
      StartLand, CanStartLand, AbortMission, KeepLand
<1>2. CASE ArmCommand
  BY <1>2 DEF ArmCommand, RequestOffboardControl, OffboardIdle, SetLocalGoal,
      ResetMission
<1>3. CASE SafeDisarmCommand
  BY <1>3, ZenonT(60) DEF SafeDisarmCommand, SafeDisarm
<1>4. CASE TakeoffCommand
  BY <1>4, ZenonT(60) DEF TakeoffCommand, ExecuteTakeoff, SetLocalGoal, AbortMission,
      CancelVisionReturn
<1>5. CASE FlyCommand
  BY <1>5, ZenonT(60) DEF FlyCommand, FlyToGoal, SetLocalGoal, AbortMission,
      CancelVisionReturn
<1>6. CASE FlyActionGoal
  BY <1>6 DEF FlyActionGoal
<1>7. CASE FlyActionExecute
  BY <1>7, ZenonT(60) DEF FlyActionExecute, SetLocalGoal
<1>8. CASE YawCommand
  BY <1>8, ZenonT(60) DEF YawCommand, RequestRelativeYaw, AbortMission, CancelVisionReturn
<1>9. CASE ManualOn
  BY <1>9 DEF ManualOn, ManualMotion, AbortMission, CancelVisionReturn
<1>10. CASE ManualOff
  BY <1>10, ZenonT(60) DEF ManualOff
<1>11. CASE MissionCommand
  BY <1>11, ZenonT(60) DEF MissionCommand, CanStartMission, ActivateWaypoint, SetLocalGoal,
      CancelVisionReturn
<1>12. CASE FollowerMission
  BY <1>12 DEF FollowerMission
<1>13. CASE FormationCommand
  BY <1>13 DEF FormationCommand
<1>14. ASSUME NEW action \in {"report", "return_land"},
        StartDetection(action)
        PROVE FlagsOK'
  BY <1>14 DEF StartDetection
<1>15. CASE StopDetection
  BY <1>15 DEF StopDetection
<1>16. CASE VisionDetection
  BY <1>16, ZenonT(60) DEF VisionDetection, StartVisionReturn, AbortMission, SetLocalGoal
<1>17. CASE BecomeLeader
  BY <1>17 DEF BecomeLeader
<1>18. CASE StepDown
  BY <1>18, ZenonT(60) DEF StepDown, RefreshPattern
<1>19. ASSUME NEW a \in BOOLEAN, NEW n \in NavStates, VehicleStatus(a, n) PROVE FlagsOK'
  <2>1. CASE TakeoffLost(a, n)
    BY <1>19, <2>1, Zenon DEF VehicleStatus, ReleaseToPilot, Released, AbortMission
  <2>2. CASE ~TakeoffLost(a, n)
    <3>1. armed' = a
      BY <1>19 DEF VehicleStatus
    <3>2. UNCHANGED <<offboard_was_confirmed, motion_enabled, manual_control, mission,
                      landing, vision, role, misc, fly_pending, status_seen>>
      BY <1>19, <2>2 DEF VehicleStatus
    <3> QED
      BY <1>19, <3>1, <3>2
  <2> QED
    BY <2>1, <2>2
<1>20. ASSUME NEW finite_heading \in BOOLEAN,
        LocalPosition(finite_heading)
        PROVE FlagsOK'
  BY <1>20 DEF LocalPosition, YawFollowsHeading
<1>21. ASSUME NEW report \in LandReports, LandDetected(report) PROVE FlagsOK'
  BY <1>21 DEF LandDetected
<1>22. CASE TickSilent
  BY <1>22 DEF TickSilent, Active
<1>23. ASSUME NEW safe \in BOOLEAN, TickRelease(safe) PROVE FlagsOK'
  BY <1>23 DEF TickRelease, Active, TakeoffLost, ReleaseToPilot, Released,
      AbortMission
<1>24. CASE TickRaises
  BY <1>24 DEF TickRaises, ReleaseToPilot, Released, AbortMission
<1>25. CASE ~StatusDue /\ TickArming
  <2>1. CASE TickArmingNoHeading
    BY <1>25, <2>1 DEF TickArming, TickArmingNoHeading, Released, AbortMission
  <2>2. CASE TickArmingGivesUp
    BY <1>25, <2>2 DEF TickArming, TickArmingGivesUp, ReleaseToPilot, Released,
        AbortMission
  <2>3. CASE TickArmingDone
    BY <1>25, <2>3 DEF TickArming, TickArmingDone, ArmingDone, OffboardLost, Count,
        StatusDue
  <2>4. CASE TickArmingCounts
    BY <1>25, <2>4 DEF TickArming, TickArmingCounts, ArmingDone, OffboardLost,
        ArmingTimesOut, Count, StatusDue
  <2> QED
    BY <1>25, <2>1, <2>2, <2>3, <2>4 DEF TickArming
<1>26. ASSUME NEW feedback \in BOOLEAN, TickTakeoff(feedback) PROVE FlagsOK'
  BY <1>26, ZenonT(60) DEF TickTakeoff, UpdateMissionProgress, ActivateWaypoint,
      CompleteMission, AbortMission, SetLocalGoal
<1>27. CASE TickLanding
  <2>1. CASE TickLandingDisarmed
    BY <1>27, <2>1, ZenonT(40) DEF TickLanding, TickLandingDisarmed, KeepFlight
  <2>2. CASE TickLandingAutoLand
    <3>1. UNCHANGED <<arming, motion_enabled, manual_control, mission, vision, role,
                      misc, fly_pending, status_seen, px4, landing_disarm_sent>>
      BY <1>27, <2>2 DEF TickLanding, TickLandingAutoLand, KeepFlight
    <3> QED
      BY <3>1
  <2>3. CASE TickLandingReleases
    BY <1>27, <2>3, ZenonT(40) DEF TickLanding, TickLandingReleases, ReleaseToPilot,
        Released, AbortMission
  <2>4. ASSUME NEW resend \in BOOLEAN, TickLandingTouchdown(resend) PROVE FlagsOK'
    <3>1. UNCHANGED <<arming, motion_enabled, manual_control, mission, vision, role,
                      misc, fly_pending, status_seen, px4>>
      BY <1>27, <2>4, Zenon DEF TickLanding, TickLandingTouchdown, KeepFlight
    <3>2. landing_disarm_sent' = TRUE
      BY <2>4, Zenon DEF TickLandingTouchdown
    <3> QED
      BY <3>1, <3>2
  <2>5. ASSUME NEW timing_ok \in BOOLEAN, NEW low \in BOOLEAN,
          TickLandingDescends(timing_ok, low)
          PROVE FlagsOK'
    <3>1. UNCHANGED <<arming, motion_enabled, manual_control, mission, vision, role,
                      misc, fly_pending, status_seen, px4, landing_disarm_sent>>
      BY <1>27, <2>5 DEF TickLanding, TickLandingDescends, KeepFlight
    <3> QED
      BY <3>1
  <2> QED
    BY <1>27, <2>1, <2>2, <2>3, <2>4, <2>5 DEF TickLanding
<1>28. ASSUME NEW at_home \in BOOLEAN, NEW safe \in BOOLEAN,
        StatusTick(at_home, safe)
        PROVE FlagsOK'
  BY <1>28, ZenonT(60) DEF StatusTick, ReturnLost, KeepLand, RequestLand,
      LandRefused, StartLand, CanStartLand, AbortMission
<1>29. CASE Restart
  BY <1>29 DEF Restart, Reconstructed
<1> QED
  BY <1>1, <1>2, <1>3, <1>4, <1>5, <1>6, <1>7, <1>8, <1>9, <1>10, <1>11, <1>12,
      <1>13, <1>14, <1>15, <1>16, <1>17, <1>18, <1>19, <1>20, <1>21, <1>22, <1>23,
      <1>24, <1>25, <1>26, <1>27, <1>28, <1>29 DEF Steps, Commanded, PX4, Tick, StatusTimer
-----------------------------------------------------------------------------
(* The control timer keeps FlightInv unless the arming sequence has outrun the      *)
(* status timer, whose package is not looked at.                              *)
LEMMA TicksKeep == FlightInv /\ ArmingInTime /\ Ticks => FlightInv'
<1> SUFFICES ASSUME FlightInv, ArmingInTime, Ticks PROVE FlightInv'
  OBVIOUS
<1> USE TicksAssumption, WaypointsAssumption DEF FlightInv, ValuesOK,
    FlownOnlyInOffboard, MotionOnlyInTakeoff, MissionIsFlown, ReturnSteersAlone,
    HeadingKept, ReturnBeforeStatus, States, Goals, MissionStates, NavStates,
    LandReports, Messages
<1>1. CASE TickSilent
  BY <1>1 DEF TickSilent, Active
<1>2. ASSUME NEW safe \in BOOLEAN, TickRelease(safe) PROVE FlightInv'
  BY <1>2 DEF TickRelease, Active, TakeoffLost, ReleaseToPilot, Released,
      AbortMission
<1>3. CASE TickRaises
  BY <1>3 DEF TickRaises, ReleaseToPilot, Released, AbortMission
<1>4. CASE TickArming
  <2>1. CASE TickArmingNoHeading
    BY <1>4, <2>1 DEF TickArming, TickArmingNoHeading, Released, AbortMission
  <2>2. CASE TickArmingGivesUp
    BY <1>4, <2>2 DEF TickArming, TickArmingGivesUp, ReleaseToPilot, Released,
        AbortMission
  <2>3. CASE TickArmingDone
    BY <1>4, <2>3 DEF TickArming, TickArmingDone, ArmingDone, OffboardLost, Count, ArmingInTime
  <2>4. CASE TickArmingCounts
    BY <1>4, <2>4 DEF TickArming, TickArmingCounts, ArmingDone, OffboardLost,
        ArmingTimesOut, Count, ArmingInTime
  <2> QED
    BY <1>4, <2>1, <2>2, <2>3, <2>4 DEF TickArming
<1>5. ASSUME NEW feedback \in BOOLEAN, TickTakeoff(feedback) PROVE FlightInv'
  <2>1. /\ state = "TAKEOFF"
        /\ UNCHANGED <<state, arming, manual_control, landing, vision, role,
                       world_origin_calibrated, fly_pending, status_seen, px4>>
    BY <1>5 DEF TickTakeoff
  <2>2. ValuesOK'
    BY <1>5, StepValues DEF Ticks
  <2>3. ASSUME UNCHANGED <<mission, motion_enabled, goal, yaw_initialized>> PROVE FlightInv'
    BY <2>1, <2>2, <2>3
  <2>4. ASSUME mission_active, AbortMission, motion_enabled' = FALSE,
               UNCHANGED <<goal, yaw_initialized>>
        PROVE FlightInv'
    BY <2>1, <2>2, <2>4 DEF AbortMission
  <2>5. ASSUME mission_active,
               mission_state' \in {"RUNNING", "WAITING_AT_CHECKPOINT", mission_state},
               UNCHANGED <<mission_active, mission_index, motion_enabled, goal,
                           yaw_initialized>>
        PROVE FlightInv'
    BY <2>1, <2>2, <2>5
  <2>6. ASSUME mission_active, mission_index + 1 < Waypoints,
               ActivateWaypoint(mission_index + 1)
        PROVE FlightInv'
    <3>1. mission_index' < Waypoints
      BY <2>6 DEF ActivateWaypoint
    <3>2. CASE /\ mission_active' = TRUE /\ mission_state' = "RUNNING"
               /\ motion_enabled' = TRUE
               /\ yaw_initialized' = TRUE \/ UNCHANGED yaw_initialized
      <4>1. MissionIsFlown'
        BY <2>1, <2>6, <3>1, <3>2
      <4>2. ReturnSteersAlone'
        BY <2>1, <2>6, <3>2
      <4>3. HeadingKept' /\ MotionOnlyInTakeoff'
        BY <2>1, <3>2
      <4>4. FlownOnlyInOffboard' /\ ReturnBeforeStatus'
        BY <2>1
      <4> QED
        BY <2>2, <4>1, <4>2, <4>3, <4>4, Zenon
    <3>3. CASE /\ mission_active' = FALSE /\ motion_enabled' = FALSE
               /\ UNCHANGED yaw_initialized
      BY <2>1, <2>2, <2>6, <3>3
    <3> QED
      BY <2>6, <3>2, <3>3, Zenon DEF ActivateWaypoint
  <2>7. ASSUME mission_active, CompleteMission
        PROVE FlightInv'
    BY <2>1, <2>2, <2>7 DEF CompleteMission
  <2> QED
    BY <1>5, <2>3, <2>4, <2>5, <2>6, <2>7 DEF TickTakeoff, UpdateMissionProgress
<1>6. CASE TickLanding
  <2>1. CASE TickLandingDisarmed
    BY <1>6, <2>1 DEF TickLanding, TickLandingDisarmed, KeepFlight
  <2>2. CASE TickLandingAutoLand
    BY <1>6, <2>2 DEF TickLanding, TickLandingAutoLand, KeepFlight, LandingElapsed
  <2>3. CASE TickLandingReleases
    BY <1>6, <2>3 DEF TickLanding, TickLandingReleases, ReleaseToPilot, Released,
        AbortMission
  <2>4. ASSUME NEW resend \in BOOLEAN, TickLandingTouchdown(resend) PROVE FlightInv'
    BY <1>6, <2>4 DEF TickLanding, TickLandingTouchdown, LandingHolds, KeepFlight,
        LandingElapsed
  <2>5. ASSUME NEW timing_ok \in BOOLEAN, NEW low \in BOOLEAN,
          TickLandingDescends(timing_ok, low)
          PROVE FlightInv'
    BY <1>6, <2>5 DEF TickLanding, TickLandingDescends, LandingHolds, LandingStage,
        KeepFlight, LandingElapsed
  <2> QED
    BY <1>6, <2>1, <2>2, <2>3, <2>4, <2>5 DEF TickLanding
<1> QED
  BY <1>1, <1>2, <1>3, <1>4, <1>5, <1>6 DEF Ticks

(* What PX4 reports keeps it.                                                 *)
LEMMA PX4Keeps == FlightInv /\ PX4 => FlightInv'
<1> SUFFICES ASSUME FlightInv, PX4 PROVE FlightInv'
  OBVIOUS
<1> USE TicksAssumption, WaypointsAssumption DEF FlightInv, ValuesOK,
    FlownOnlyInOffboard, MotionOnlyInTakeoff, MissionIsFlown, ReturnSteersAlone,
    HeadingKept, ReturnBeforeStatus, States, Goals, MissionStates, NavStates,
    LandReports, Messages
<1>1. ASSUME NEW a \in BOOLEAN, NEW n \in NavStates, VehicleStatus(a, n) PROVE FlightInv'
  BY <1>1 DEF VehicleStatus, TakeoffLost, ReleaseToPilot, Released, AbortMission
<1>2. ASSUME NEW finite_heading \in BOOLEAN, LocalPosition(finite_heading) PROVE FlightInv'
  BY <1>2 DEF LocalPosition, YawFollowsHeading
<1>3. ASSUME NEW report \in LandReports, LandDetected(report) PROVE FlightInv'
  BY <1>3 DEF LandDetected
<1> QED
  BY <1>1, <1>2, <1>3 DEF PX4

(* Every command, relayed or not, keeps it.                                   *)
LEMMA CommandsKeep == FlightInv /\ Commanded => FlightInv'
<1> SUFFICES ASSUME FlightInv, Commanded PROVE FlightInv'
  OBVIOUS
<1> USE TicksAssumption, WaypointsAssumption DEF FlightInv, ValuesOK,
    FlownOnlyInOffboard, MotionOnlyInTakeoff, MissionIsFlown, ReturnSteersAlone,
    HeadingKept, ReturnBeforeStatus, States, Goals, MissionStates, NavStates,
    LandReports, Messages
<1>1. ASSUME NEW safe \in BOOLEAN, LandCommand(safe) PROVE FlightInv'
  BY <1>1 DEF LandCommand, CancelVisionReturn, RequestLand, LandRefused, StartLand,
      CanStartLand, AbortMission, KeepLand
<1>2. CASE ArmCommand
  BY <1>2 DEF ArmCommand, RequestOffboardControl, OffboardIdle, SetLocalGoal,
      ResetMission
<1>3. CASE SafeDisarmCommand
  BY <1>3 DEF SafeDisarmCommand, SafeDisarm
<1>4. CASE TakeoffCommand
  BY <1>4 DEF TakeoffCommand, ExecuteTakeoff, SetLocalGoal, AbortMission,
      CancelVisionReturn
<1>5. CASE FlyCommand
  BY <1>5 DEF FlyCommand, FlyToGoal, SetLocalGoal, AbortMission, CancelVisionReturn
<1>6. CASE FlyActionGoal
  BY <1>6 DEF FlyActionGoal
<1>7. CASE FlyActionExecute
  BY <1>7 DEF FlyActionExecute, SetLocalGoal
<1>8. CASE YawCommand
  BY <1>8 DEF YawCommand, RequestRelativeYaw, AbortMission, CancelVisionReturn
<1>9. CASE ManualOn
  <2>1. ValuesOK'
    BY <1>9 DEF ManualOn, ManualMotion, AbortMission, CancelVisionReturn
  <2>2. FlownOnlyInOffboard'
    BY <1>9 DEF ManualOn, ManualMotion, AbortMission, CancelVisionReturn
  <2>3. MotionOnlyInTakeoff'
    BY <1>9 DEF ManualOn, ManualMotion, AbortMission, CancelVisionReturn
  <2>4. MissionIsFlown'
    BY <1>9 DEF ManualOn, ManualMotion, AbortMission, CancelVisionReturn
  <2>5. ReturnSteersAlone'
    BY <1>9 DEF ManualOn, ManualMotion, AbortMission, CancelVisionReturn
  <2>6. HeadingKept'
    BY <1>9 DEF ManualOn, ManualMotion, AbortMission, CancelVisionReturn
  <2>7. ReturnBeforeStatus'
    BY <1>9 DEF ManualOn, ManualMotion, AbortMission, CancelVisionReturn
  <2> QED
    BY <2>1, <2>2, <2>3, <2>4, <2>5, <2>6, <2>7
<1>10. CASE ManualOff
  BY <1>10 DEF ManualOff
<1>11. CASE MissionCommand
  BY <1>11 DEF MissionCommand, CanStartMission, ActivateWaypoint, SetLocalGoal,
      CancelVisionReturn
<1>12. CASE FollowerMission
  BY <1>12 DEF FollowerMission
<1>13. CASE FormationCommand
  BY <1>13 DEF FormationCommand
<1>14. ASSUME NEW action \in {"report", "return_land"},
        StartDetection(action)
        PROVE FlightInv'
  BY <1>14 DEF StartDetection
<1>15. CASE StopDetection
  BY <1>15 DEF StopDetection
<1> QED
  BY <1>1, <1>2, <1>3, <1>4, <1>5, <1>6, <1>7, <1>8, <1>9, <1>10, <1>11, <1>12,
      <1>13, <1>14, <1>15 DEF Commanded

(* So do the detection, the changes of the role, the status timer and a restart.  *)
LEMMA OthersKeep ==
    IInv /\ (VisionDetection \/ BecomeLeader \/ StepDown \/ StatusTimer \/ Restart)
        => FlightInv'
<1> SUFFICES ASSUME IInv,
                    VisionDetection \/ BecomeLeader \/ StepDown \/ StatusTimer \/ Restart
             PROVE  FlightInv'
  OBVIOUS
<1> USE TicksAssumption, WaypointsAssumption DEF IInv, LeaderReturns, FlightInv, ValuesOK,
    FlownOnlyInOffboard, MotionOnlyInTakeoff, MissionIsFlown, ReturnSteersAlone,
    HeadingKept, ReturnBeforeStatus, States, Goals, MissionStates, NavStates,
    LandReports, Messages
<1>1. CASE VisionDetection
  BY <1>1 DEF VisionDetection, StartVisionReturn, AbortMission, SetLocalGoal
<1>2. CASE BecomeLeader
  BY <1>2 DEF BecomeLeader
<1>3. CASE StepDown
  BY <1>3 DEF StepDown, RefreshPattern
<1>4. ASSUME NEW at_home \in BOOLEAN, NEW safe \in BOOLEAN,
        StatusTick(at_home, safe)
        PROVE FlightInv'
  BY <1>4 DEF StatusTick, ReturnLost, KeepLand, RequestLand, LandRefused,
      StartLand, CanStartLand, AbortMission
<1>5. CASE Restart
  BY <1>5 DEF Restart, Reconstructed
<1> QED
  BY <1>1, <1>2, <1>3, <1>4, <1>5 DEF StatusTimer

(* The control timer and PX4 change neither the role nor the return.             *)
LEMMA TicksLeaveReturn == Ticks \/ PX4 => UNCHANGED <<vision, is_leader>>
<1>1. CASE Ticks
  BY <1>1 DEF Ticks, TickSilent, TickRaises, TickArming, TickArmingNoHeading,
      TickArmingGivesUp, TickArmingDone, TickArmingCounts, TickRelease, TickTakeoff,
      TickLanding, TickLandingDisarmed, TickLandingAutoLand, TickLandingReleases,
      TickLandingTouchdown, TickLandingDescends, KeepFlight, ReleaseToPilot, Released
<1>2. CASE PX4
  BY <1>2 DEF PX4, VehicleStatus, LocalPosition, LandDetected, ReleaseToPilot, Released
<1> QED
  BY <1>1, <1>2

(* Only a leader starts a return, and one that steps down forgets it.            *)
LEMMA LeaderReturnsKept == LeaderReturns /\ Steps => LeaderReturns'
<1> SUFFICES ASSUME LeaderReturns, Steps, vision_return_land_active' PROVE is_leader'
  BY DEF LeaderReturns
<1> USE DEF LeaderReturns
<1>1. CASE VisionDetection
  BY <1>1 DEF VisionDetection
<1>2. CASE BecomeLeader \/ StepDown \/ Restart
  BY <1>2, Zenon DEF BecomeLeader, StepDown, Restart, Reconstructed
<1>3. CASE StatusTimer
  BY <1>3 DEF StatusTimer, StatusTick
<1>4. CASE Commanded
  <2>1. UNCHANGED is_leader
    BY <1>4 DEF Commanded, LandCommand, ArmCommand, SafeDisarmCommand, SafeDisarm,
        TakeoffCommand, FlyCommand, FlyActionGoal, FlyActionExecute, YawCommand, ManualOn,
        ManualOff, MissionCommand, FollowerMission, FormationCommand, StartDetection,
        StopDetection
  <2>2. vision_return_land_active
    BY <1>4 DEF Commanded, LandCommand, ArmCommand, SafeDisarmCommand, SafeDisarm,
        TakeoffCommand, FlyCommand, FlyActionGoal, FlyActionExecute, YawCommand, ManualOn,
        ManualOff, MissionCommand, FollowerMission, FormationCommand, StartDetection,
        StopDetection, CancelVisionReturn
  <2> QED
    BY <2>1, <2>2
<1>5. CASE PX4 \/ Tick
  BY <1>5, TicksLeaveReturn DEF Tick, Ticks
<1> QED
  BY <1>1, <1>2, <1>3, <1>4, <1>5 DEF Steps

(* A leader's arming sequence does not outrun the status timer.                 *)
LEMMA LeaderArmsInTime == IInv /\ ~StatusDue => ArmingInTime
  BY TicksAssumption DEF IInv, FlightInv, ValuesOK, LeaderReturns, StatusDue, ArmingInTime

(* What is unchanged stays true.                                              *)
LEMMA StutterKeeps == UNCHANGED vars => /\ IInv => IInv'
                                        /\ TypeOK => TypeOK'
<1>1. UNCHANGED vars => (IInv => IInv')
  BY DEF vars, IInv, FlightInv, LeaderReturns, ValuesOK, FlownOnlyInOffboard,
      MotionOnlyInTakeoff, MissionIsFlown, ReturnSteersAlone, HeadingKept,
      ReturnBeforeStatus
<1>2. UNCHANGED vars => (TypeOK => TypeOK')
  BY DEF vars, TypeOK, ValuesOK, FlagsOK
<1> QED
  BY <1>1, <1>2

-----------------------------------------------------------------------------
(* ARM is no implicit take-off: the step of TakeoffEnteredAtRest.              *)
EntersAtRest ==
    state' = "TAKEOFF" /\ state # "TAKEOFF" =>
        /\ state = "ARMING"
        /\ ~motion_enabled' /\ ~mission_active' /\ ~vision_return_land_active'

(* The arming sequence ends at rest, and no other branch of the timer ends it in   *)
(* TAKEOFF.                                                                  *)
LEMMA TicksEnterAtRest == FlightInv /\ ArmingInTime /\ Ticks => EntersAtRest
<1> SUFFICES ASSUME FlightInv, ArmingInTime, Ticks,
                    state' = "TAKEOFF", state # "TAKEOFF"
             PROVE  EntersAtRest
  BY DEF EntersAtRest
<1>1. TickArming /\ TickArmingDone
  BY DEF Ticks, TickSilent, TickRaises, TickArming, TickArmingNoHeading, TickArmingGivesUp,
      TickArmingCounts, TickRelease, TickTakeoff, TickLanding, TickLandingDisarmed,
      TickLandingAutoLand, TickLandingReleases, TickLandingTouchdown,
      TickLandingDescends, KeepFlight, ReleaseToPilot, Released
<1>2. /\ state = "ARMING" /\ UNCHANGED <<motion_enabled, mission, vision>>
      /\ offboard_setpoint_counter + 1 >= TakeoffAt
  BY <1>1 DEF TickArming, TickArmingDone, ArmingDone, Count
<1>3. ~motion_enabled /\ ~mission_active
  BY <1>2 DEF FlightInv, MotionOnlyInTakeoff, MissionIsFlown
<1>4. ~vision_return_land_active
  BY <1>2, TicksAssumption DEF FlightInv, ValuesOK, ReturnBeforeStatus, ArmingInTime
<1> QED
  BY <1>2, <1>3, <1>4 DEF EntersAtRest

(* No command, report of PX4 or other timer takes off.                         *)
LEMMA OnlyTicksTakeOff ==
    PX4 \/ Commanded \/ VisionDetection \/ BecomeLeader \/ StepDown \/ StatusTimer
        \/ Restart => EntersAtRest
<1> SUFFICES ASSUME \/ PX4 \/ Commanded \/ VisionDetection \/ BecomeLeader \/ StepDown
                    \/ StatusTimer \/ Restart
             PROVE  state' \in {state, "IDLE", "ARMING", "LANDING", "PILOT_CONTROL"}
  BY DEF EntersAtRest
<1>1. CASE PX4
  BY <1>1 DEF PX4, VehicleStatus, LocalPosition, LandDetected, ReleaseToPilot, Released
<1>2. CASE Commanded
  BY <1>2 DEF Commanded, LandCommand, ArmCommand, SafeDisarmCommand, SafeDisarm,
      TakeoffCommand, FlyCommand, FlyActionGoal, FlyActionExecute, YawCommand, ManualOn,
      ManualOff, MissionCommand, FollowerMission, FormationCommand, StartDetection,
      StopDetection, RequestOffboardControl, RequestLand, StartLand, LandRefused, KeepLand
<1>3. CASE VisionDetection \/ BecomeLeader \/ StepDown \/ Restart
  BY <1>3 DEF VisionDetection, BecomeLeader, StepDown, Restart, Reconstructed
<1>4. CASE StatusTimer
  BY <1>4 DEF StatusTimer, StatusTick, RequestLand, StartLand, LandRefused, KeepLand
<1> QED
  BY <1>1, <1>2, <1>3, <1>4

-----------------------------------------------------------------------------
(* Every step keeps the inductive invariant, and takes off from rest only.       *)
LEMMA StepKeeps == IInv /\ Steps => IInv' /\ EntersAtRest
<1> SUFFICES ASSUME IInv, Steps PROVE IInv' /\ EntersAtRest
  OBVIOUS
<1>1. LeaderReturns'
  BY LeaderReturnsKept DEF IInv
<1>2. FlightInv' /\ EntersAtRest
  <2>1. CASE Tick
    BY <2>1, TicksKeep, TicksEnterAtRest, LeaderArmsInTime DEF IInv, Tick, Ticks
  <2> QED
    BY <2>1, PX4Keeps, CommandsKeep, OthersKeep, OnlyTicksTakeOff DEF Steps, IInv
<1> QED
  BY <1>1, <1>2 DEF IInv
-----------------------------------------------------------------------------
(* The type invariant of FlightControl holds for every value of the constants. *)
THEOREM TypeCorrect == Spec => []TypeOK
<1>1. Init => TypeOK
  BY InitValues, InitFlags DEF TypeOK
<1>2. TypeOK /\ [Next]_vars => TypeOK'
  BY StepValues, StepFlags, StutterKeeps, NextIsAStep DEF TypeOK
<1> QED
  BY <1>1, <1>2, PTL DEF Spec

(* The strengthened invariant holds in every reachable state.                  *)
LEMMA Inductive == Spec => []IInv
<1>1. IInv /\ [Next]_vars => IInv'
  BY StutterKeeps, NextIsAStep, StepKeeps
<1> QED
  BY <1>1, InitIInv, PTL DEF Spec

(* The drone steers itself in TAKEOFF alone, and TAKEOFF is flown only while   *)
(* PX4's last report is armed and in OFFBOARD.                                *)
THEOREM MotionIsConfined == Spec => []SteersOnlyInOffboard
<1>1. IInv => SteersOnlyInOffboard
  BY DEF IInv, FlightInv, SteersOnlyInOffboard
<1> QED
  BY <1>1, Inductive, PTL

(* A mission that is running is being flown, by a drone under no other control. *)
THEOREM MissionAlwaysFlown == Spec => []MissionIsFlown
<1>1. IInv => MissionIsFlown
  BY DEF IInv, FlightInv
<1> QED
  BY <1>1, Inductive, PTL

(* The automatic return never shares the drone with a mission, with manual      *)
(* control or with a follower's role, and never survives into a new flight.     *)
THEOREM ReturnAlwaysAlone == Spec => []VisionReturnAlone
<1>1. IInv => VisionReturnAlone
  BY DEF IInv, FlightInv, LeaderReturns, ReturnSteersAlone, VisionReturnAlone
<1> QED
  BY <1>1, Inductive, PTL

(* In flight the yaw setpoint is always initialised.                           *)
THEOREM HeadingAlwaysKept == Spec => []HeadingKept
<1>1. IInv => HeadingKept
  BY DEF IInv, FlightInv
<1> QED
  BY <1>1, Inductive, PTL

(* TAKEOFF is entered from ARMING only, at rest, with nothing left over from an     *)
(* earlier flight: whatever was commanded, released or restarted before.           *)
THEOREM TakeoffAlwaysEnteredAtRest == Spec => TakeoffEnteredAtRest
<1>1. IInv /\ [Next]_vars => [EntersAtRest]_vars
  BY NextIsAStep, StepKeeps
<1> QED
  BY <1>1, Inductive, PTL DEF Spec, TakeoffEnteredAtRest, EntersAtRest
================================================================================
