------------------------------- MODULE TfControl -------------------------------
(***************************************************************************)
(* The control node of swarm_single, the oldest leader-follower package.     *)
(* Its goal is a transform in the TF tree: set_goal_transform stores an       *)
(* absolute one, a formation slot is one whose parent is the leader's         *)
(* odometry frame, and peers are known by their frames.  What the flight      *)
(* state machine sees of that is the same as in swarm_single_no_tf: the goal  *)
(* is replaced by the same requests, resolved or not (an input), and stored   *)
(* in the node, the timer that broadcasts it having no reader here.          *)
(***************************************************************************)
EXTENDS FlightControl

NoTf == INSTANCE OlderControl

RequestOffboard == NoTf!RequestOffboard

Arm ==
    /\ RequestOffboard
    /\ out' = IF is_leader THEN {"cmd_arm"} ELSE {}
    /\ UNCHANGED <<vision, role, yaw_initialized, fly_pending, px4>>

Land(safe) == NoTf!Land(safe)

Disarm == NoTf!Disarm

Takeoff == NoTf!Takeoff

Fly == NoTf!Fly

FlyGoal == NoTf!FlyGoal

FlyExecute == NoTf!FlyExecute

ManualControl == NoTf!ManualControl

StartMission == NoTf!StartMission

MissionAtFollower == NoTf!MissionAtFollower

SetPattern == NoTf!SetPattern

Lead == NoTf!Lead

StepBack == NoTf!StepBack
-----------------------------------------------------------------------------
ReleaseTick(safe) == NoTf!ReleaseTick(safe)

ArmingTick == NoTf!ArmingTick

MissionProgress == NoTf!MissionProgress

TakeoffTick(feedback) == TickTakeoff(feedback) /\ (feedback => MissionProgress)

LandingTick == NoTf!LandingTick

ControlTick ==
    /\ ~StatusDue
    /\ \/ TickSilent \/ TickRaises \/ ArmingTick \/ LandingTick
       \/ \E safe \in BOOLEAN : ReleaseTick(safe)
       \/ \E feedback \in BOOLEAN : TakeoffTick(feedback)

StatusReport == NoTf!StatusReport

PX4Status(a, n) == NoTf!PX4Status(a, n)

PX4Position(finite_heading) == NoTf!PX4Position(finite_heading)

PX4Landed(report) == NoTf!PX4Landed(report)

NodeRestart == NoTf!NodeRestart
-----------------------------------------------------------------------------
TfInit == Init

TfNext ==
    \/ Arm \/ Disarm \/ Takeoff \/ Fly \/ FlyGoal \/ FlyExecute \/ ManualControl
    \/ StartMission \/ MissionAtFollower \/ SetPattern \/ Lead \/ StepBack
    \/ \E safe \in BOOLEAN : Land(safe)
    \/ ControlTick \/ StatusReport \/ NodeRestart
    \/ \E a \in BOOLEAN, n \in NavStates : PX4Status(a, n)
    \/ \E finite_heading \in BOOLEAN : PX4Position(finite_heading)
    \/ \E report \in LandReports : PX4Landed(report)

TfSpec == TfInit /\ [][TfNext]_vars
=============================================================================
