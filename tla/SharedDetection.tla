----------------------------- MODULE SharedDetection -----------------------------
(***************************************************************************)
(* Detection in the decentralized swarm.  The station's detection commands    *)
(* go to every controller on a best-effort topic; every controller that       *)
(* executes one publishes START or STOP on one trigger topic that every        *)
(* camera hears; every camera publishes its detections on one topic that       *)
(* every controller hears, and each controller answers alone.                 *)
(*                                                                         *)
(* A camera is a flight_vision_node or a vision_node (web): its subscription   *)
(* runs in the ROS executor and the inference in a thread of its own, so that  *)
(* a trigger may come between any two steps of the thread.  The trigger and     *)
(* detection topics are reliable and ordered per publisher; a queue holds      *)
(* Depth detections and forgets the oldest.  What a camera sees, whether its   *)
(* inference fails, the rate limit of its detections, and whether a drone may  *)
(* start its return are inputs.                                              *)
(***************************************************************************)
EXTENDS Naturals, Sequences

CONSTANTS
    Drones,        \* drones with a controller
    Cameras,       \* vision nodes
    Depth,         \* detections a controller's subscription keeps per camera (10)
    MaxCommands,   \* bound on the station's commands
    Lossy          \* whether the command topic loses messages

ASSUME DepthAssumption == Depth \in Nat \ {0} /\ MaxCommands \in Nat

VARIABLES
    web,           \* the cameras that are vision_node, fixed for ever
    commands,      \* [Drones -> Seq(Requests)], commands not executed yet
    triggers,      \* [Drones -> [Cameras -> Seq(Triggers)]]
    events,        \* [Cameras -> [Drones -> number of detections not handled]]
    on_detection,  \* vision_detection_action of every controller
    returning,     \* vision_return_land_active of every controller
    enabled,       \* detection_enabled of every camera
    thread,        \* where the camera's vision_loop is
    cached,        \* cached_detected of a vision_node
    late,          \* detections published since the camera handled a STOP
    sent, last,    \* how many commands the station sent, and the last
    missed         \* whether a controller missed the last one

station == <<sent, last, missed>>
cameras == <<enabled, thread, cached, late>>
answers == <<on_detection, returning>>
detectionVars == <<web, commands, triggers, events, answers, cameras, station>>

Requests == {"start_report", "start_return_land", "stop"}
Triggers == {"START", "STOP"}
Threads  == {"idle", "inference", "found"}

DetectionTypeOK ==
    /\ web \subseteq Cameras
    /\ commands \in [Drones -> Seq(Requests)]
    /\ triggers \in [Drones -> [Cameras -> Seq(Triggers)]]
    /\ events \in [Cameras -> [Drones -> 0..Depth]]
    /\ on_detection \in [Drones -> {"report", "return_land"}]
    /\ returning \in [Drones -> BOOLEAN]
    /\ enabled \in [Cameras -> BOOLEAN] /\ cached \in [Cameras -> BOOLEAN]
    /\ thread \in [Cameras -> Threads] /\ late \in [Cameras -> 0..2]
    /\ sent \in 0..MaxCommands /\ last \in Requests \cup {"none"} /\ missed \in BOOLEAN

DetectionInit ==
    /\ web \in SUBSET Cameras
    /\ commands = [d \in Drones |-> <<>>]
    /\ triggers = [d \in Drones |-> [v \in Cameras |-> <<>>]]
    /\ events = [v \in Cameras |-> [d \in Drones |-> 0]]
    /\ on_detection = [d \in Drones |-> "report"]
    /\ returning = [d \in Drones |-> FALSE]
    /\ enabled = [v \in Cameras |-> FALSE] /\ thread = [v \in Cameras |-> "idle"]
    /\ cached = [v \in Cameras |-> FALSE] /\ late = [v \in Cameras |-> 0]
    /\ sent = 0 /\ last = "none" /\ missed = FALSE
-----------------------------------------------------------------------------
(* The station publishes one command to all drones; it reaches some of them.   *)
Send(request, reached) ==
    /\ sent < MaxCommands
    /\ sent' = sent + 1 /\ last' = request /\ missed' = (reached # Drones)
    /\ Lossy \/ reached = Drones
    /\ commands' = [d \in Drones |-> IF d \in reached THEN Append(commands[d], request)
                                                      ELSE commands[d]]
    /\ UNCHANGED <<web, triggers, events, answers, cameras>>

(* vision_trigger_publisher.publish                                          *)
Trigger(d, payload) ==
    triggers' = [triggers EXCEPT ![d] =
                    [v \in Cameras |-> Append(triggers[d][v], payload)]]

(* execute_start_detection: refused during a return.                         *)
StartDetection(d, action) ==
    \/ returning[d] /\ UNCHANGED <<triggers, on_detection>>
    \/ /\ ~returning[d]
       /\ on_detection' = [on_detection EXCEPT ![d] = action]
       /\ Trigger(d, "START")

(* Mutant: a controller that would only report has nothing to stop.           *)
StopDetectionInReturnMode(d) ==
    \/ on_detection[d] = "report" /\ UNCHANGED <<triggers, on_detection>>
    \/ /\ on_detection[d] = "return_land" /\ Trigger(d, "STOP")
       /\ on_detection' = [on_detection EXCEPT ![d] = "report"]

(* execute_stop_detection: STOP, which does not cancel a return.              *)
StopDetection(d) ==
    /\ Trigger(d, "STOP")
    /\ on_detection' = [on_detection EXCEPT ![d] =
                           IF returning[d] THEN on_detection[d] ELSE "report"]

ExecuteCommand(d) ==
    /\ commands[d] # <<>>
    /\ commands' = [commands EXCEPT ![d] = Tail(commands[d])]
    /\ \/ Head(commands[d]) = "start_report" /\ StartDetection(d, "report")
       \/ Head(commands[d]) = "start_return_land" /\ StartDetection(d, "return_land")
       \/ Head(commands[d]) = "stop" /\ StopDetection(d)
    /\ UNCHANGED <<web, events, returning, cameras, station>>

(* start_vision_return_land: one-shot; the response and the STOP come before    *)
(* the checks that may reject the return.                                     *)
StartVisionReturnLand(d) ==
    /\ on_detection' = [on_detection EXCEPT ![d] = "report"]
    /\ Trigger(d, "STOP")
    /\ \E accepted \in BOOLEAN : returning' = [returning EXCEPT ![d] = accepted]

(* Mutant: a drone answers the detections of its own camera only.              *)
OwnDetectionOnly(d, v) ==
    /\ events[v][d] > 0
    /\ events' = [events EXCEPT ![v][d] = @ - 1]
    /\ \/ /\ on_detection[d] = "return_land" /\ ~returning[d]
          /\ d = (CHOOSE own \in Drones : TRUE)
          /\ StartVisionReturnLand(d)
       \/ UNCHANGED <<triggers, answers>>
    /\ UNCHANGED <<web, commands, cameras, station>>

(* vision_detection_callback: any camera's detection, not only the drone's own. *)
VisionDetectionCallback(d, v) ==
    /\ events[v][d] > 0
    /\ events' = [events EXCEPT ![v][d] = @ - 1]
    /\ \/ /\ on_detection[d] = "return_land" /\ ~returning[d]
          /\ StartVisionReturnLand(d)
       \/ /\ on_detection[d] = "report" \/ returning[d]
          /\ UNCHANGED <<triggers, answers>>
    /\ UNCHANGED <<web, commands, cameras, station>>

(* The return ends: the drone lands at home, or the return is cancelled.       *)
EndReturn(d) ==
    /\ returning[d]
    /\ returning' = [returning EXCEPT ![d] = FALSE]
    /\ UNCHANGED <<web, commands, triggers, events, on_detection, cameras, station>>
-----------------------------------------------------------------------------
(* trigger_callback.  Class lists are not modelled.                          *)
TriggerCallback(v, d) ==
    /\ triggers[d][v] # <<>>
    /\ triggers' = [triggers EXCEPT ![d][v] = Tail(@)]
    /\ enabled' = [enabled EXCEPT ![v] = (Head(triggers[d][v]) = "START")]
    /\ late' = [late EXCEPT ![v] = 0]
    /\ UNCHANGED <<web, commands, events, answers, thread, cached, station>>

(* vision_loop reads a frame and starts its inference, if detection is enabled. *)
Look(v) ==
    /\ thread[v] = "idle" /\ enabled[v]
    /\ thread' = [thread EXCEPT ![v] = "inference"]
    /\ UNCHANGED <<web, commands, triggers, events, answers, enabled, cached, late, station>>

(* The inference raises: flight_vision_node disables detection, vision_node     *)
(* goes on with the next frame.                                              *)
InferenceFails(v) ==
    /\ thread[v] = "inference"
    /\ thread' = [thread EXCEPT ![v] = "idle"]
    /\ enabled' = [enabled EXCEPT ![v] = (v \in web /\ enabled[v])]
    /\ UNCHANGED <<web, commands, triggers, events, answers, cached, late, station>>

(* The inference ends; enabled is looked at again, for a STOP meanwhile.        *)
NothingSeen(v) ==
    /\ thread[v] = "inference"
    /\ thread' = [thread EXCEPT ![v] = "idle"]
    /\ cached' = [cached EXCEPT ![v] = FALSE]
    /\ UNCHANGED <<web, commands, triggers, events, answers, enabled, late, station>>

TargetSeen(v) ==
    /\ thread[v] = "inference" /\ enabled[v]
    /\ thread' = [thread EXCEPT ![v] = "found"]
    /\ cached' = [cached EXCEPT ![v] = (v \in web)]
    /\ UNCHANGED <<web, commands, triggers, events, answers, enabled, late, station>>

(* Mutant: a skipped frame repeats the last result, enabled or not.            *)
SkipFrameAnyway(v) ==
    /\ v \in web /\ thread[v] = "idle"
    /\ thread' = [thread EXCEPT ![v] = IF cached[v] THEN "found" ELSE "idle"]
    /\ UNCHANGED <<web, commands, triggers, events, answers, enabled, cached, late, station>>

(* vision_node on a frame without inference: the cached result counts while     *)
(* detection is enabled and is forgotten otherwise.                           *)
SkipFrame(v) ==
    /\ v \in web /\ thread[v] = "idle"
    /\ thread' = [thread EXCEPT ![v] = IF enabled[v] /\ cached[v] THEN "found" ELSE "idle"]
    /\ cached' = [cached EXCEPT ![v] = enabled[v] /\ cached[v]]
    /\ UNCHANGED <<web, commands, triggers, events, answers, enabled, late, station>>

(* publish_detection_command, publish_command: a detection for all drones, or   *)
(* none within command_interval of the previous one.                          *)
Publish(v) ==
    /\ thread[v] = "found"
    /\ thread' = [thread EXCEPT ![v] = "idle"]
    /\ events' = [events EXCEPT ![v] =
                     [d \in Drones |-> IF @[d] < Depth THEN @[d] + 1 ELSE Depth]]
    /\ late' = [late EXCEPT ![v] = IF enabled[v] \/ @ = 2 THEN @ ELSE @ + 1]
    /\ UNCHANGED <<web, commands, triggers, answers, enabled, cached, station>>

RateLimited(v) ==
    /\ thread[v] = "found"
    /\ thread' = [thread EXCEPT ![v] = "idle"]
    /\ UNCHANGED <<web, commands, triggers, events, answers, enabled, cached, late, station>>
-----------------------------------------------------------------------------
Controller(d) ==
    ExecuteCommand(d) \/ EndReturn(d) \/ \E v \in Cameras : VisionDetectionCallback(d, v)

Camera(v) ==
    \/ \E d \in Drones : TriggerCallback(v, d)
    \/ Look(v) \/ InferenceFails(v) \/ NothingSeen(v) \/ TargetSeen(v) \/ SkipFrame(v)
    \/ Publish(v) \/ RateLimited(v)

DetectionNext ==
    \/ \E request \in Requests, reached \in SUBSET Drones : Send(request, reached)
    \/ \E d \in Drones : Controller(d)
    \/ \E v \in Cameras : Camera(v)

DetectionSpec == DetectionInit /\ [][DetectionNext]_detectionVars


(* The executors serve what waits in their queues and the threads go on; the     *)
(* target stays in view, and a camera is not rate limited for ever.             *)
DetectionFairness ==
    /\ \A d \in Drones : /\ WF_detectionVars(ExecuteCommand(d))
                         /\ \A v \in Cameras :
                               /\ WF_detectionVars(VisionDetectionCallback(d, v))
                               /\ WF_detectionVars(TriggerCallback(v, d))
    /\ \A v \in Cameras :
          /\ WF_detectionVars(Look(v))
          /\ WF_detectionVars(InferenceFails(v) \/ NothingSeen(v) \/ TargetSeen(v))
          /\ SF_detectionVars(TargetSeen(v)) /\ SF_detectionVars(Publish(v))

FairDetectionSpec == DetectionSpec /\ DetectionFairness
-----------------------------------------------------------------------------
Quiet ==
    /\ \A d \in Drones : commands[d] = <<>>
    /\ \A d \in Drones, v \in Cameras : triggers[d][v] = <<>> /\ events[v][d] = 0

(* A stop that every controller heard stops every camera: although each camera   *)
(* merges the triggers of all controllers in any order, START and STOP of a       *)
(* controller that is behind included, it ends disabled.                        *)
StopHeardByAllStops ==
    Quiet /\ last = "stop" /\ ~missed => \A v \in Cameras : ~enabled[v]

(* STOP races the inference thread: after it a camera publishes at most the one   *)
(* detection the thread had already decided to publish.                         *)
AtMostOneLate == \A v \in Cameras : late[v] <= 1

(* In return_land mode the first detection stops inference: while a controller     *)
(* waits for one, the cameras do not run for ever.                               *)
ReturnModeStopsInference ==
    \A d \in Drones, v \in Cameras :
        (on_detection[d] = "return_land" /\ enabled[v])
            ~> (on_detection[d] = "report" \/ ~enabled[v])

(* swarm_single_decenter/README.md:43-45, "The first valid target event stops      *)
(* detection ... and sends every armed Offboard drone": once a drone returns, the  *)
(* detections are handled and the cameras off, no other drone is left waiting.    *)
FirstEventSendsAll ==
    Quiet /\ (\E d \in Drones : returning[d]) /\ (\A v \in Cameras : ~enabled[v]) =>
        \A d \in Drones : on_detection[d] = "report"
================================================================================
