------------------------------ MODULE SupportProofs ------------------------------
(***************************************************************************)
(* The safety of the components that share nothing, each under its own        *)
(* specification, for any values of its parameters: the gimbal's watchdogs,   *)
(* the logger's Wi-Fi child, the detection of the decentralized swarm, the    *)
(* reports of the full status, the trackers of lost messages, the logger's     *)
(* reports, and the sweep the coverage planner hands out.  The parsers have a   *)
(* module of their own.  At the end, the run that joins them.                  *)
(***************************************************************************)
EXTENDS MCSupport, FramingProofs


(* The gimbal.  An axis that moves and whose stop is not given up has its watchdog armed,     *)
(* which since the last rate command has counted down what has passed.              *)
Armed(a) ==
    moving[a] /\ ~unstopped[a] =>
        /\ socket_open
        /\ timeout[a] > 0 => /\ active[a] /\ deadline[a] >= 1
                             /\ deadline[a] + age[a] = timeout[a]

GimbalShape ==
    /\ timeout \in [Axes -> Nat] /\ socket_open \in BOOLEAN
    /\ active \in [Axes -> BOOLEAN] /\ moving \in [Axes -> BOOLEAN]
    /\ unstopped \in [Axes -> BOOLEAN]
    /\ deadline \in [Axes -> Nat] /\ age \in [Axes -> Nat]
    /\ \A a \in Axes : deadline[a] <= timeout[a] /\ age[a] <= Longest(a)

GimbalInv == GimbalShape /\ \A a \in Axes : Armed(a)

LEMMA GimbalInvInit == GimbalInit => GimbalInv
<1> SUFFICES ASSUME GimbalInit PROVE GimbalInv
    OBVIOUS
<1>1. timeout \in [Axes -> Nat]
    BY TimeoutsAssumption DEF GimbalInit
<1>2. GimbalShape
    BY <1>1 DEF GimbalInit, GimbalShape, Longest
<1>3. \A a \in Axes : Armed(a)
    BY DEF GimbalInit, Armed
<1>4. QED  BY <1>2, <1>3 DEF GimbalInv

LEMMA MoveStep == GimbalInv /\ (\E a \in Axes : MoveCommand(a)) /\ socket_open => GimbalInv'
<1> SUFFICES ASSUME GimbalInv, NEW a \in Axes, NEW fate \in Fates, Move(a, fate), socket_open,
                    UNCHANGED <<timeout, socket_open>>
             PROVE  GimbalInv'
    BY DEF MoveCommand
<1> USE DEF GimbalInv, GimbalShape, Move, Sent, Fates, Longest
<1>1. GimbalShape'
    OBVIOUS
<1>2. ASSUME NEW b \in Axes PROVE Armed(b)'
  <2>1. CASE b = a
      BY <2>1 DEF Armed
  <2>2. CASE b # a
      BY <2>2 DEF Armed
  <2>3. QED  BY <2>1, <2>2
<1>3. QED  BY <1>1, <1>2

LEMMA EndMotionStep ==
    ASSUME GimbalInv, NEW axes \in SUBSET Axes, NEW fate \in [axes -> Fates],
           NEW disarmed \in SUBSET axes, EndMotion(fate, disarmed, disarmed),
           UNCHANGED socket_open
    PROVE  GimbalInv'
<1> USE DEF GimbalInv, GimbalShape, EndMotion, Longest
<1>1. GimbalShape'
  <2>1. moving' \in [Axes -> BOOLEAN] /\ active' \in [Axes -> BOOLEAN]
      BY Zenon
  <2>2. unstopped' \in [Axes -> BOOLEAN]
      BY Zenon
  <2>3. /\ deadline' \in [Axes -> Nat] /\ UNCHANGED <<timeout, age, socket_open>>
        /\ \A a \in Axes : deadline'[a] <= timeout'[a] /\ age'[a] <= Longest(a)'
      OBVIOUS
  <2>4. QED  BY <2>1, <2>2, <2>3
<1>2. ASSUME NEW b \in Axes PROVE Armed(b)'
  <2>1. CASE b \in disarmed
      BY <2>1 DEF Armed
  <2>2. CASE b \notin disarmed
      BY <2>2 DEF Armed
  <2>3. QED  BY <2>1, <2>2
<1>3. QED  BY <1>1, <1>2

LEMMA WatchdogStep == GimbalInv /\ WatchdogTimer => GimbalInv'
<1> SUFFICES ASSUME GimbalInv, WatchdogTimer PROVE GimbalInv'
    OBVIOUS
<1> USE DEF GimbalInv, GimbalShape, Longest
<1> DEFINE due == {a \in Axes : active[a] /\ deadline[a] = 1}
<1>1. /\ \E fate \in [due -> Fates] :
            /\ moving' = [a \in Axes |-> moving[a] /\ ~(a \in due /\ fate[a] = "taken")]
            /\ unstopped' = [a \in Axes |-> IF a \in due THEN fate[a] # "taken"
                                                        ELSE unstopped[a]]
      /\ active' = [a \in Axes |-> active[a] /\ a \notin due]
      /\ deadline' = [a \in Axes |-> IF deadline[a] = 0 THEN 0 ELSE deadline[a] - 1]
      /\ age' = [a \in Axes |-> IF age[a] < Longest(a) THEN age[a] + 1 ELSE age[a]]
      /\ UNCHANGED <<timeout, socket_open>>
    BY DEF WatchdogTimer
<1>2. GimbalShape'
  <2>1. moving' \in [Axes -> BOOLEAN] /\ active' \in [Axes -> BOOLEAN]
      BY <1>1, Zenon
  <2>2. unstopped' \in [Axes -> BOOLEAN]
      BY <1>1, Zenon
  <2>3. /\ deadline' \in [Axes -> Nat] /\ age' \in [Axes -> Nat]
        /\ UNCHANGED <<timeout, socket_open>>
        /\ \A a \in Axes : deadline'[a] <= timeout'[a] /\ age'[a] <= Longest(a)'
      BY <1>1
  <2>4. QED  BY <2>1, <2>2, <2>3
<1>3. ASSUME NEW b \in Axes PROVE Armed(b)'
  <2>1. CASE b \in due
      BY <1>1, <2>1 DEF Armed
  <2>2. CASE b \notin due
      BY <1>1, <2>2 DEF Armed
  <2>3. QED  BY <2>1, <2>2
<1>4. QED  BY <1>2, <1>3

LEMMA GimbalInvStep == GimbalInv /\ [GimbalNext]_gimbalVars => GimbalInv'
<1> SUFFICES ASSUME GimbalInv, [GimbalNext]_gimbalVars PROVE GimbalInv'
    OBVIOUS
<1>1. ASSUME NEW axes \in SUBSET Axes, StopCommand(axes) PROVE GimbalInv'
  <2>1. PICK fate \in [axes -> Fates] : EndMotion(fate, Accepted(fate), Accepted(fate))
      BY <1>1 DEF StopCommand
  <2>2. Accepted(fate) \in SUBSET axes /\ UNCHANGED socket_open
      BY <1>1 DEF Accepted, StopCommand
  <2>3. QED  BY <2>1, <2>2, EndMotionStep
<1>2. ASSUME AbsoluteZoomCommand PROVE GimbalInv'
  <2>1. {"zoom"} \in SUBSET Axes
      BY DEF Axes
  <2>2. QED  BY <1>2, <2>1, EndMotionStep DEF AbsoluteZoomCommand
<1>3. ASSUME AimCommand PROVE GimbalInv'
    BY <1>3 DEF AimCommand, GimbalInv, GimbalShape, Armed, Longest
<1>4. ASSUME Shutdown PROVE GimbalInv'
    BY <1>4 DEF Shutdown, GimbalInv, GimbalShape, Armed, Longest
<1>5. CASE UNCHANGED gimbalVars
    BY <1>5 DEF gimbalVars, GimbalInv, GimbalShape, Armed, Longest
<1>6. QED
    BY <1>1, <1>2, <1>3, <1>4, <1>5, MoveStep, WatchdogStep DEF GimbalNext, ControlCallback

(* A rate command the camera carries out was refreshed within its watchdog's timeout, for     *)
(* any timeouts and any fate of the packets (_arm, _send, the watchdog timer, shutdown).  *)
THEOREM MotionAlwaysWatched == GimbalSpec => []MotionIsWatched
<1>1. GimbalInv => MotionIsWatched
    BY DEF GimbalInv, GimbalShape, Armed, MotionIsWatched
<1>2. QED  BY <1>1, GimbalInvInit, GimbalInvStep, PTL DEF GimbalSpec

(* With the timeouts that were chosen, which nothing changes.                              *)
GimbalTypeInv == GimbalInv /\ timeout \in [Axes -> Timeouts]

LEMMA GimbalTypeStep == GimbalTypeInv /\ [GimbalNext]_gimbalVars => GimbalTypeInv'
<1>1. [GimbalNext]_gimbalVars => UNCHANGED timeout
    BY DEF GimbalNext, ControlCallback, MoveCommand, StopCommand, AbsoluteZoomCommand, AimCommand,
       EndMotion, WatchdogTimer, Shutdown, gimbalVars
<1>2. QED  BY <1>1, GimbalInvStep DEF GimbalTypeInv

LEMMA GimbalTyped == GimbalTypeInv => GimbalTypeOK
<1> SUFFICES ASSUME GimbalTypeInv PROVE GimbalTypeOK
    OBVIOUS
<1>1. ASSUME NEW a \in Axes PROVE deadline[a] \in 0..timeout[a] /\ age[a] \in 0..Longest(a)
  <2>1. /\ timeout[a] \in Nat /\ deadline[a] \in Nat /\ age[a] \in Nat
        /\ deadline[a] <= timeout[a] /\ age[a] <= Longest(a)
      BY DEF GimbalTypeInv, GimbalInv, GimbalShape
  <2>2. QED  BY <2>1 DEF Longest
<1>2. QED  BY <1>1 DEF GimbalTypeOK, GimbalTypeInv, GimbalInv, GimbalShape

(* The types of the gimbal's state: no deadline or age runs past its watchdog's timeout.        *)
THEOREM GimbalTypeCorrect == GimbalSpec => []GimbalTypeOK
<1>1. GimbalInit => GimbalTypeInv
    BY GimbalInvInit DEF GimbalInit, GimbalTypeInv
<1>2. QED  BY <1>1, GimbalTypeStep, GimbalTyped, PTL DEF GimbalSpec
-----------------------------------------------------------------------------
(* The logger.  Whoever stops the Wi-Fi monitor waits for a child that it terminated; after    *)
(* the stop the monitor's thread is past its start, unless the stop overlooked it.     *)
WifiInv ==
    /\ overlooked \in BOOLEAN
    /\ child = "terminated" => stopping = "waiting"
    /\ stopping = "waiting" \/ (stopping = "stopped" /\ ~overlooked)
          => wifi_thread \notin {"starting", "started"}
    /\ stopping = "stopped" /\ ~overlooked => child \in {"none", "dead"}
    /\ wifi_thread = "starting" => child = "none"
    /\ child \in {"none", "running", "terminated", "dead"}

LEMMA Truth ==
    ASSUME NEW S, NEW x, NEW b, b = (x \in S)
    PROVE  b \in BOOLEAN /\ (b <=> x \in S)
<1>1. (x \in S) \in BOOLEAN
    OBVIOUS
<1>2. b \in BOOLEAN
    BY <1>1, Zenon
<1>3. x \notin S => ~b
    BY Zenon
<1>4. x \in S => b
    BY Zenon
<1>5. QED  BY <1>2, <1>3, <1>4

LEMMA WifiInvStep == WifiInv /\ [LoggerNext]_loggerVars => WifiInv'
<1> SUFFICES ASSUME WifiInv, [LoggerNext]_loggerVars PROVE WifiInv'
    OBVIOUS
<1>1. CASE UNCHANGED wifiVars
    BY <1>1 DEF wifiVars, WifiInv
<1>2. CASE WifiMonitor
  <2>1. CASE WifiLine
      BY <2>1 DEF WifiLine, WifiInv
  <2>2. CASE WifiStart \/ WifiProcessKnown
      BY <2>2 DEF WifiStart, WifiProcessKnown, WifiInv
  <2>3. CASE WifiChildExits \/ WifiEndOfFile \/ WifiTerminates
      BY <2>3 DEF WifiChildExits, WifiEndOfFile, WifiTerminates, WifiInv
  <2>4. CASE Close \/ StopWait
      BY <2>4 DEF Close, StopWait, WifiInv
  <2>5. CASE StopTerminate
    <3>1. overlooked' = (wifi_thread \in {"starting", "started"}) /\ UNCHANGED wifi_thread
        BY <2>5 DEF StopTerminate
    <3>2. overlooked' \in BOOLEAN /\ (overlooked' <=> wifi_thread \in {"starting", "started"})
        BY <3>1, Truth
    <3>3. CASE Known /\ child = "running"
        BY <2>5, <3>1, <3>2, <3>3 DEF StopTerminate, Known, WifiInv
    <3>4. CASE ~(Known /\ child = "running")
      <4>1. stopping = "asked" /\ stopping' = "stopped" /\ UNCHANGED child
          BY <2>5, <3>4 DEF StopTerminate
      <4>2. child # "terminated"
          BY <4>1 DEF WifiInv
      <4>3. ~overlooked' => child \in {"none"} \/ child # "running"
          BY <3>2, <3>4 DEF Known
      <4>4. QED  BY <3>1, <3>2, <4>1, <4>2, <4>3 DEF WifiInv
    <3>5. QED  BY <3>3, <3>4
  <2>6. QED  BY <1>2, <2>1, <2>2, <2>3, <2>4, <2>5 DEF WifiMonitor
<1>3. QED
    BY <1>1, <1>2 DEF LoggerNext, loggerVars, TopicCallback, HandleTf, ReportTimer, ReportCaptured,
       HealthCollected, FlushPendingReport

(* A stop leaves no child behind, for any number of writers and messages, but one that the    *)
(* thread was starting (WifiEventMonitor.stop, _run).                             *)
THEOREM WifiChildAlwaysEnds == LoggerSpec => []WifiChildEnds
<1>1. LoggerInit => WifiInv
    BY DEF LoggerInit, WifiInv
<1>2. WifiInv => WifiChildEnds
    BY DEF WifiInv, WifiChildEnds
<1>3. QED  BY <1>1, <1>2, WifiInvStep, PTL DEF LoggerSpec
-----------------------------------------------------------------------------
(* Detection.  A camera publishes after a STOP only what its thread had decided before.       *)
LateInv ==
    /\ late \in [Cameras -> Nat]
    /\ thread \in [Cameras -> Threads] /\ enabled \in [Cameras -> BOOLEAN]
    /\ \A v \in Cameras : /\ late[v] <= 1
                          /\ enabled[v] => late[v] = 0
                          /\ late[v] = 1 => thread[v] # "found"

LEMMA LateInvStep == LateInv /\ [DetectionNext]_detectionVars => LateInv'
<1> SUFFICES ASSUME LateInv, [DetectionNext]_detectionVars PROVE LateInv'
    OBVIOUS
<1> USE DEF LateInv
<1>1. CASE UNCHANGED cameras
    BY <1>1 DEF cameras
<1>2. ASSUME NEW v \in Cameras, NEW d \in Drones, TriggerCallback(v, d) PROVE LateInv'
  <2>1. enabled' = [enabled EXCEPT ![v] = (Head(triggers[d][v]) = "START")]
        /\ late' = [late EXCEPT ![v] = 0] /\ UNCHANGED thread
      BY <1>2 DEF TriggerCallback
  <2>2. enabled' \in [Cameras -> BOOLEAN]
      BY <2>1, Zenon
  <2>3. QED  BY <2>1, <2>2
<1>3. ASSUME NEW v \in Cameras, Look(v) \/ NothingSeen(v) \/ TargetSeen(v) \/ RateLimited(v)
      PROVE  LateInv'
    BY <1>3 DEF Look, NothingSeen, TargetSeen, RateLimited, Threads
<1>4. ASSUME NEW v \in Cameras, InferenceFails(v) PROVE LateInv'
  <2>1. enabled' = [enabled EXCEPT ![v] = (v \in web /\ enabled[v])]
        /\ thread' = [thread EXCEPT ![v] = "idle"] /\ UNCHANGED late
      BY <1>4 DEF InferenceFails
  <2>2. enabled' \in [Cameras -> BOOLEAN]
      BY <2>1, Zenon
  <2>3. QED  BY <2>1, <2>2 DEF Threads
<1>5. ASSUME NEW v \in Cameras, SkipFrame(v) PROVE LateInv'
    BY <1>5 DEF SkipFrame, Threads
<1>6. ASSUME NEW v \in Cameras, Publish(v) PROVE LateInv'
    BY <1>6 DEF Publish, Threads
<1>7. QED
    BY <1>1, <1>2, <1>3, <1>4, <1>5, <1>6 DEF DetectionNext, Controller, Camera, detectionVars,
       Send, ExecuteCommand, EndReturn, VisionDetectionCallback

(* After a STOP a camera publishes one detection at most, whatever its thread, the triggers    *)
(* of all the controllers and its failures do in between (trigger_callback, vision_loop).   *)
THEOREM AlwaysAtMostOneLate == DetectionSpec => []AtMostOneLate
<1>1. DetectionInit => LateInv
    BY DEF DetectionInit, LateInv, Threads
<1>2. LateInv => AtMostOneLate
    BY DEF LateInv, AtMostOneLate
<1>3. QED  BY <1>1, <1>2, LateInvStep, PTL DEF DetectionSpec
-----------------------------------------------------------------------------
(* Once a stop was the last command and reached every controller: a controller that still     *)
(* has commands will execute the stop; one that has none has published a STOP as its last  *)
(* trigger; and a camera that is enabled has one of them before it.                 *)
LastOf(s) == s[Len(s)]

DetectionShape ==
    /\ commands \in [Drones -> Seq(Requests)]
    /\ triggers \in [Drones -> [Cameras -> Seq(Triggers)]]
    /\ enabled \in [Cameras -> BOOLEAN]
    /\ \A v \in Cameras : enabled[v] => Drones # {}

StopComing ==
    /\ \A d \in Drones : commands[d] # <<>> => LastOf(commands[d]) = "stop"
    /\ \A d \in Drones, v \in Cameras :
          commands[d] = <<>> /\ triggers[d][v] # <<>> => LastOf(triggers[d][v]) = "STOP"
    /\ \A v \in Cameras :
          enabled[v] => \E d \in Drones : commands[d] # <<>> \/ triggers[d][v] # <<>>

StopInv == DetectionShape /\ (last = "stop" /\ ~missed => StopComing)

LEMMA LastAppend ==
    ASSUME NEW S, NEW s \in Seq(S), NEW x \in S
    PROVE  Append(s, x) \in Seq(S) /\ Append(s, x) # <<>> /\ LastOf(Append(s, x)) = x
<1> DEFINE longer == Append(s, x)
<1>1. longer \in Seq(S) /\ Len(longer) = Len(s) + 1 /\ longer[Len(s) + 1] = x /\ Len(s) \in Nat
    BY AppendProperties, LenProperties
<1> HIDE DEF longer
<1>2. longer # <<>> /\ LastOf(longer) = x
    BY <1>1, EmptySeq DEF LastOf
<1>3. QED  BY <1>1, <1>2 DEF longer

LEMMA LastTail ==
    ASSUME NEW S, NEW s \in Seq(S), s # <<>>
    PROVE  /\ Head(s) \in S /\ Tail(s) \in Seq(S)
           /\ Tail(s) # <<>> => LastOf(Tail(s)) = LastOf(s)
           /\ Tail(s) = <<>> => Head(s) = LastOf(s)
<1> DEFINE rest == Tail(s)
<1>1. /\ Head(s) \in S /\ rest \in Seq(S) /\ Len(rest) = Len(s) - 1
      /\ \A i \in 1..Len(rest) : rest[i] = s[i + 1]
      /\ Head(s) = s[1] /\ Len(s) \in Nat \ {0}
    BY HeadTailProperties, EmptySeq
<1> HIDE DEF rest
<1>2. rest # <<>> => LastOf(rest) = LastOf(s)
    BY <1>1, EmptySeq DEF LastOf
<1>3. rest = <<>> => Head(s) = LastOf(s)
    BY <1>1, EmptySeq DEF LastOf
<1>4. QED  BY <1>1, <1>2, <1>3 DEF rest

LEMMA TriggerSent ==
    ASSUME DetectionShape, NEW d \in Drones, NEW payload \in Triggers, Trigger(d, payload)
    PROVE  /\ triggers' \in [Drones -> [Cameras -> Seq(Triggers)]]
           /\ \A v \in Cameras : /\ triggers'[d][v] # <<>>
                                 /\ LastOf(triggers'[d][v]) = payload
           /\ \A e \in Drones \ {d} : triggers'[e] = triggers[e]
<1>1. \A v \in Cameras : /\ Append(triggers[d][v], payload) \in Seq(Triggers)
                         /\ Append(triggers[d][v], payload) # <<>>
                         /\ LastOf(Append(triggers[d][v], payload)) = payload
    BY LastAppend DEF DetectionShape
<1>2. triggers' = [triggers EXCEPT ![d] = [v \in Cameras |-> Append(triggers[d][v], payload)]]
    BY DEF Trigger
<1>3. QED  BY <1>1, <1>2 DEF DetectionShape

LEMMA SendStops ==
    ASSUME StopInv, NEW request \in Requests, NEW reached \in SUBSET Drones,
           Send(request, reached)
    PROVE  StopInv'
<1> USE DEF StopInv, DetectionShape
<1>1. /\ commands' = [d \in Drones |-> IF d \in reached THEN Append(commands[d], request)
                                                        ELSE commands[d]]
      /\ UNCHANGED <<triggers, enabled>> /\ last' = request /\ missed' = (reached # Drones)
    BY DEF Send, cameras
<1>2. \A d \in Drones : /\ Append(commands[d], request) \in Seq(Requests)
                        /\ Append(commands[d], request) # <<>>
                        /\ LastOf(Append(commands[d], request)) = request
    BY LastAppend
<1>3. DetectionShape'
    BY <1>1, <1>2
<1>4. ASSUME last' = "stop", ~missed' PROVE StopComing'
  <2>1. reached = Drones
      BY <1>1, <1>4, Zenon
  <2>2. \A d \in Drones : commands'[d] # <<>> /\ LastOf(commands'[d]) = "stop"
      BY <1>1, <1>2, <1>4, <2>1
  <2>3. QED  BY <1>1, <1>3, <2>2 DEF StopComing
<1>5. QED  BY <1>3, <1>4

(* A step that leaves the commands alone, and whose triggers are STOPs.                *)
LEMMA ReturnStops ==
    ASSUME StopInv, NEW d \in Drones, Trigger(d, "STOP"),
           UNCHANGED <<commands, enabled, last, missed>>
    PROVE  StopInv'
<1> USE DEF StopInv, DetectionShape
<1>1. /\ triggers' \in [Drones -> [Cameras -> Seq(Triggers)]]
      /\ \A v \in Cameras : triggers'[d][v] # <<>> /\ LastOf(triggers'[d][v]) = "STOP"
      /\ \A e \in Drones \ {d} : triggers'[e] = triggers[e]
    BY TriggerSent DEF Triggers
<1>2. ASSUME StopComing PROVE StopComing'
  <2>1. \A e \in Drones : commands'[e] # <<>> => LastOf(commands'[e]) = "stop"
      BY <1>2 DEF StopComing
  <2>2. \A e \in Drones, v \in Cameras :
           commands'[e] = <<>> /\ triggers'[e][v] # <<>> => LastOf(triggers'[e][v]) = "STOP"
    <3>1. SUFFICES ASSUME NEW e \in Drones, NEW v \in Cameras,
                          commands'[e] = <<>>, triggers'[e][v] # <<>>
                   PROVE  LastOf(triggers'[e][v]) = "STOP"
        OBVIOUS
    <3>2. CASE e = d
        BY <1>1, <3>2
    <3>3. CASE e # d
        <4>1. triggers'[e] = triggers[e] /\ commands[e] = <<>>
            BY <1>1, <3>1, <3>3
        <4>2. QED  BY <1>2, <3>1, <4>1 DEF StopComing
    <3>4. QED  BY <3>2, <3>3
  <2>3. \A v \in Cameras :
           enabled'[v] => \E e \in Drones : commands'[e] # <<>> \/ triggers'[e][v] # <<>>
    <3>1. SUFFICES ASSUME NEW v \in Cameras, enabled'[v]
                   PROVE  \E e \in Drones : commands'[e] # <<>> \/ triggers'[e][v] # <<>>
        OBVIOUS
    <3>2. triggers'[d][v] # <<>>
        BY <1>1
    <3>3. QED  BY <3>2
  <2>4. QED  BY <2>1, <2>2, <2>3 DEF StopComing
<1>3. QED  BY <1>1, <1>2

LEMMA ExecuteStops ==
    ASSUME StopInv, NEW d \in Drones, ExecuteCommand(d)
    PROVE  StopInv'
<1> USE DEF StopInv, DetectionShape
<1>1. /\ commands[d] # <<>> /\ commands' = [commands EXCEPT ![d] = Tail(commands[d])]
      /\ UNCHANGED <<enabled, last, missed>>
    BY DEF ExecuteCommand, cameras, station
<1>2. /\ Tail(commands[d]) \in Seq(Requests)
      /\ Tail(commands[d]) # <<>> => LastOf(Tail(commands[d])) = LastOf(commands[d])
      /\ Tail(commands[d]) = <<>> => Head(commands[d]) = LastOf(commands[d])
    BY <1>1, LastTail
<1>3. /\ commands' \in [Drones -> Seq(Requests)]
      /\ commands'[d] # <<>> => LastOf(commands'[d]) = LastOf(commands[d])
      /\ commands'[d] = <<>> => Head(commands[d]) = LastOf(commands[d])
      /\ \A e \in Drones \ {d} : commands'[e] = commands[e]
    BY <1>1, <1>2
<1>4. CASE \E payload \in Triggers :
              Trigger(d, payload) /\ (Head(commands[d]) = "stop" => payload = "STOP")
  <2>1. PICK payload \in Triggers :
            Trigger(d, payload) /\ (Head(commands[d]) = "stop" => payload = "STOP")
      BY <1>4
  <2>2. /\ triggers' \in [Drones -> [Cameras -> Seq(Triggers)]]
        /\ \A v \in Cameras : triggers'[d][v] # <<>> /\ LastOf(triggers'[d][v]) = payload
        /\ \A e \in Drones \ {d} : triggers'[e] = triggers[e]
      BY <2>1, TriggerSent
  <2>3. ASSUME last = "stop", ~missed PROVE StopComing'
    <3>1. StopComing /\ LastOf(commands[d]) = "stop"
        BY <1>1, <2>3 DEF StopComing
    <3>2. commands'[d] = <<>> => payload = "STOP"
        BY <1>3, <2>1, <3>1
    <3>3. \A e \in Drones : commands'[e] # <<>> => LastOf(commands'[e]) = "stop"
        BY <1>3, <3>1 DEF StopComing
    <3>4. \A e \in Drones, v \in Cameras :
             commands'[e] = <<>> /\ triggers'[e][v] # <<>> => LastOf(triggers'[e][v]) = "STOP"
        BY <1>3, <2>2, <3>1, <3>2 DEF StopComing
    <3>5. QED  BY <1>1, <2>2, <3>3, <3>4 DEF StopComing
  <2>4. QED  BY <1>1, <1>3, <2>2, <2>3
<1>5. CASE Head(commands[d]) # "stop" /\ UNCHANGED triggers
  <2>1. ASSUME last = "stop", ~missed PROVE StopComing'
    <3>1. StopComing /\ LastOf(commands[d]) = "stop"
        BY <1>1, <2>1 DEF StopComing
    <3>2. commands'[d] # <<>>
        BY <1>3, <1>5, <3>1
    <3>3. QED  BY <1>1, <1>3, <1>5, <3>1, <3>2 DEF StopComing
  <2>2. QED  BY <1>1, <1>3, <1>5, <2>1
<1>6. QED
    BY <1>4, <1>5 DEF ExecuteCommand, StartDetection, StopDetection, Triggers

LEMMA TriggerCallbackStops ==
    ASSUME StopInv, NEW v \in Cameras, NEW d \in Drones, TriggerCallback(v, d)
    PROVE  StopInv'
<1> USE DEF StopInv, DetectionShape
<1>1. /\ triggers[d][v] # <<>> /\ triggers' = [triggers EXCEPT ![d][v] = Tail(@)]
      /\ enabled' = [enabled EXCEPT ![v] = (Head(triggers[d][v]) = "START")]
      /\ UNCHANGED <<commands, last, missed>>
    BY DEF TriggerCallback, station
<1>2. /\ Tail(triggers[d][v]) \in Seq(Triggers)
      /\ Tail(triggers[d][v]) # <<>> => LastOf(Tail(triggers[d][v])) = LastOf(triggers[d][v])
      /\ Tail(triggers[d][v]) = <<>> => Head(triggers[d][v]) = LastOf(triggers[d][v])
  <2>1. triggers[d][v] \in Seq(Triggers) /\ triggers[d][v] # <<>>
      BY <1>1
  <2>2. QED  BY <2>1, LastTail
<1>3. /\ triggers' \in [Drones -> [Cameras -> Seq(Triggers)]]
      /\ triggers'[d][v] = Tail(triggers[d][v])
      /\ \A e \in Drones, u \in Cameras :
            e # d \/ u # v => triggers'[e][u] = triggers[e][u]
    BY <1>1, <1>2
<1>4. /\ enabled' \in [Cameras -> BOOLEAN]
      /\ enabled'[v] => Head(triggers[d][v]) = "START"
      /\ \A u \in Cameras \ {v} : enabled'[u] = enabled[u]
    BY <1>1, Zenon
<1>5. ASSUME StopComing PROVE StopComing'
  <2>1. \A e \in Drones, u \in Cameras :
           commands'[e] = <<>> /\ triggers'[e][u] # <<>> => LastOf(triggers'[e][u]) = "STOP"
      BY <1>1, <1>2, <1>3, <1>5 DEF StopComing
  <2>2. enabled'[v] => commands'[d] # <<>> \/ triggers'[d][v] # <<>>
      BY <1>1, <1>2, <1>3, <1>4, <1>5 DEF StopComing
  <2>3. \A u \in Cameras \ {v} :
           enabled'[u] => \E e \in Drones : commands'[e] # <<>> \/ triggers'[e][u] # <<>>
      BY <1>1, <1>3, <1>4, <1>5 DEF StopComing
  <2>4. QED  BY <1>1, <1>5, <2>1, <2>2, <2>3 DEF StopComing
<1>6. QED  BY <1>1, <1>3, <1>4, <1>5

LEMMA StopInvStep == StopInv /\ [DetectionNext]_detectionVars => StopInv'
<1> SUFFICES ASSUME StopInv, [DetectionNext]_detectionVars PROVE StopInv'
    OBVIOUS
<1>1. CASE UNCHANGED <<commands, triggers, enabled, last, missed>>
    BY <1>1 DEF StopInv, DetectionShape, StopComing
<1>2. ASSUME NEW v \in Cameras, InferenceFails(v) PROVE StopInv'
  <2>1. enabled' = [enabled EXCEPT ![v] = (v \in web /\ enabled[v])]
        /\ UNCHANGED <<commands, triggers, last, missed>>
      BY <1>2 DEF InferenceFails, station
  <2>2. enabled' \in [Cameras -> BOOLEAN] /\ \A u \in Cameras : enabled'[u] => enabled[u]
      BY <2>1, Zenon DEF StopInv, DetectionShape
  <2>3. QED  BY <2>1, <2>2 DEF StopInv, DetectionShape, StopComing
<1>3. ASSUME NEW d \in Drones, NEW v \in Cameras, VisionDetectionCallback(d, v) PROVE StopInv'
  <2>1. CASE UNCHANGED triggers
      BY <1>1, <1>3, <2>1 DEF VisionDetectionCallback, cameras, station
  <2>2. CASE StartVisionReturnLand(d)
      BY <1>3, <2>2, ReturnStops DEF VisionDetectionCallback, StartVisionReturnLand, cameras,
         station
  <2>3. QED  BY <1>3, <2>1, <2>2 DEF VisionDetectionCallback
<1>4. ASSUME NEW d \in Drones, EndReturn(d) PROVE StopInv'
    BY <1>1, <1>4 DEF EndReturn, cameras, station
<1>5. ASSUME NEW v \in Cameras,
             Look(v) \/ NothingSeen(v) \/ TargetSeen(v) \/ SkipFrame(v) \/ Publish(v)
             \/ RateLimited(v)
      PROVE  StopInv'
    BY <1>1, <1>5 DEF Look, NothingSeen, TargetSeen, SkipFrame, Publish, RateLimited, station
<1>6. CASE UNCHANGED detectionVars
    BY <1>1, <1>6 DEF detectionVars, cameras, station
<1>7. QED
    BY <1>2, <1>3, <1>4, <1>5, <1>6, SendStops, ExecuteStops, TriggerCallbackStops
       DEF DetectionNext, Controller, Camera

(* A stop that every controller heard disables every camera once everything is handled, for   *)
(* any number of drones and cameras, any order in which the triggers of the controllers    *)
(* are merged, and failures of the inference (execute_stop_detection, trigger_callback).  *)
THEOREM StopAlwaysStops == DetectionSpec => []StopHeardByAllStops
<1>1. DetectionInit => StopInv
    BY EmptySeq DEF DetectionInit, StopInv, DetectionShape
<1>2. StopInv => StopHeardByAllStops
    BY DEF StopInv, StopComing, StopHeardByAllStops, Quiet
<1>3. QED  BY <1>1, <1>2, StopInvStep, PTL DEF DetectionSpec

(* The types of the detection's state, whatever waits in its queues.                         *)
LEMMA TriggerTyped ==
    ASSUME DetectionTypeOK, NEW d \in Drones, NEW payload \in Triggers, Trigger(d, payload)
    PROVE  triggers' \in [Drones -> [Cameras -> Seq(Triggers)]]
<1>1. \A v \in Cameras : Append(triggers[d][v], payload) \in Seq(Triggers)
    BY AppendProperties DEF DetectionTypeOK
<1>2. [v \in Cameras |-> Append(triggers[d][v], payload)] \in [Cameras -> Seq(Triggers)]
    BY <1>1
<1>3. QED  BY <1>2 DEF Trigger, DetectionTypeOK

LEMMA ControllerTyped ==
    ASSUME DetectionTypeOK, NEW d \in Drones, Controller(d)
    PROVE  DetectionTypeOK'
<1> DEFINE modes == {"report", "return_land"}
<1>1. ASSUME ExecuteCommand(d) PROVE DetectionTypeOK'
  <2>1. Tail(commands[d]) \in Seq(Requests)
      BY <1>1, HeadTailProperties DEF ExecuteCommand, DetectionTypeOK
  <2>2. commands' \in [Drones -> Seq(Requests)]
      BY <1>1, <2>1 DEF ExecuteCommand, DetectionTypeOK
  <2>3. \/ UNCHANGED <<triggers, on_detection>>
        \/ \E payload \in Triggers, mode \in modes :
              Trigger(d, payload) /\ on_detection' = [on_detection EXCEPT ![d] = mode]
    <3>1. on_detection[d] \in modes
        BY DEF DetectionTypeOK
    <3>2. \A action \in modes : StartDetection(d, action) =>
             \/ UNCHANGED <<triggers, on_detection>>
             \/ Trigger(d, "START") /\ on_detection' = [on_detection EXCEPT ![d] = action]
        BY DEF StartDetection
    <3>3. StopDetection(d) =>
             Trigger(d, "STOP") /\ \/ on_detection' = [on_detection EXCEPT ![d] = on_detection[d]]
                                   \/ on_detection' = [on_detection EXCEPT ![d] = "report"]
        BY DEF StopDetection
    <3>4. QED  BY <1>1, <3>1, <3>2, <3>3 DEF ExecuteCommand, Triggers
  <2>4. /\ triggers' \in [Drones -> [Cameras -> Seq(Triggers)]]
        /\ on_detection' \in [Drones -> modes]
      BY <2>3, TriggerTyped DEF DetectionTypeOK
  <2>5. UNCHANGED <<web, events, returning, cameras, station>>
      BY <1>1 DEF ExecuteCommand
  <2>6. QED  BY <2>2, <2>4, <2>5 DEF DetectionTypeOK, cameras, station
<1>2. ASSUME EndReturn(d) PROVE DetectionTypeOK'
    BY <1>2 DEF EndReturn, DetectionTypeOK, cameras, station
<1>3. ASSUME NEW v \in Cameras, VisionDetectionCallback(d, v) PROVE DetectionTypeOK'
  <2>1. events' \in [Cameras -> [Drones -> 0..Depth]]
    <3>1. events[v] \in [Drones -> 0..Depth] /\ events[v][d] \in 0..Depth /\ events[v][d] > 0
          /\ events' = [events EXCEPT ![v] = [events[v] EXCEPT ![d] = events[v][d] - 1]]
        BY <1>3 DEF VisionDetectionCallback, DetectionTypeOK
    <3>2. events[v][d] - 1 \in 0..Depth
        BY <3>1, DepthAssumption
    <3>3. QED  BY <3>1, <3>2 DEF DetectionTypeOK
  <2>2. /\ triggers' \in [Drones -> [Cameras -> Seq(Triggers)]]
        /\ on_detection' \in [Drones -> modes] /\ returning' \in [Drones -> BOOLEAN]
    <3>1. CASE UNCHANGED <<triggers, answers>>
        BY <3>1 DEF answers, DetectionTypeOK
    <3>2. CASE StartVisionReturnLand(d)
        BY <3>2, TriggerTyped DEF StartVisionReturnLand, DetectionTypeOK, Triggers
    <3>3. QED  BY <1>3, <3>1, <3>2 DEF VisionDetectionCallback
  <2>3. UNCHANGED <<web, commands, cameras, station>>
      BY <1>3 DEF VisionDetectionCallback
  <2>4. QED  BY <2>1, <2>2, <2>3 DEF DetectionTypeOK, cameras, station
<1>4. QED  BY <1>1, <1>2, <1>3 DEF Controller

LEMMA CameraTyped ==
    ASSUME DetectionTypeOK, NEW v \in Cameras, Camera(v)
    PROVE  DetectionTypeOK'
<1>1. ASSUME NEW d \in Drones, TriggerCallback(v, d) PROVE DetectionTypeOK'
  <2>1. Tail(triggers[d][v]) \in Seq(Triggers)
      BY <1>1, HeadTailProperties DEF TriggerCallback, DetectionTypeOK
  <2>2. triggers' \in [Drones -> [Cameras -> Seq(Triggers)]]
      BY <1>1, <2>1 DEF TriggerCallback, DetectionTypeOK
  <2>3. enabled' \in [Cameras -> BOOLEAN]
      BY <1>1, Zenon DEF TriggerCallback, DetectionTypeOK
  <2>4. late' \in [Cameras -> 0..2]
      BY <1>1 DEF TriggerCallback, DetectionTypeOK
  <2>5. UNCHANGED <<web, commands, events, answers, thread, cached, station>>
      BY <1>1 DEF TriggerCallback
  <2>6. QED  BY <2>2, <2>3, <2>4, <2>5 DEF DetectionTypeOK, answers, station
<1>2. ASSUME Look(v) \/ InferenceFails(v) \/ NothingSeen(v) \/ TargetSeen(v) \/ SkipFrame(v)
             \/ RateLimited(v)
      PROVE  DetectionTypeOK'
  <2>1. thread' \in [Cameras -> Threads]
      BY <1>2 DEF Look, InferenceFails, NothingSeen, TargetSeen, SkipFrame, RateLimited,
                  DetectionTypeOK, Threads
  <2>2. enabled' \in [Cameras -> BOOLEAN]
    <3>1. UNCHANGED enabled \/ InferenceFails(v)
        BY <1>2 DEF Look, NothingSeen, TargetSeen, SkipFrame, RateLimited
    <3>2. InferenceFails(v) => enabled' \in [Cameras -> BOOLEAN]
        BY Zenon DEF InferenceFails, DetectionTypeOK
    <3>3. QED  BY <3>1, <3>2 DEF DetectionTypeOK
  <2>3. cached' \in [Cameras -> BOOLEAN]
    <3>1. UNCHANGED cached \/ NothingSeen(v) \/ TargetSeen(v) \/ SkipFrame(v)
        BY <1>2 DEF Look, InferenceFails, RateLimited
    <3>2. NothingSeen(v) => cached' \in [Cameras -> BOOLEAN]
        BY DEF NothingSeen, DetectionTypeOK
    <3>3. TargetSeen(v) => cached' \in [Cameras -> BOOLEAN]
      <4>1. (v \in web) \in BOOLEAN
          OBVIOUS
      <4>2. QED  BY <4>1 DEF TargetSeen, DetectionTypeOK
    <3>4. SkipFrame(v) => cached' \in [Cameras -> BOOLEAN]
        BY Zenon DEF SkipFrame, DetectionTypeOK
    <3>5. QED  BY <3>1, <3>2, <3>3, <3>4 DEF DetectionTypeOK
  <2>4. UNCHANGED <<web, commands, triggers, events, answers, late, station>>
      BY <1>2 DEF Look, InferenceFails, NothingSeen, TargetSeen, SkipFrame, RateLimited
  <2>5. QED  BY <2>1, <2>2, <2>3, <2>4 DEF DetectionTypeOK, answers, station
<1>3. ASSUME Publish(v) PROVE DetectionTypeOK'
  <2>1. events' \in [Cameras -> [Drones -> 0..Depth]]
    <3> DEFINE counted == [d \in Drones |-> IF events[v][d] < Depth THEN events[v][d] + 1
                                                                   ELSE Depth]
    <3>1. \A d \in Drones : events[v][d] \in 0..Depth
        BY DEF DetectionTypeOK
    <3>2. counted \in [Drones -> 0..Depth]
        BY <3>1, DepthAssumption
    <3>3. events' = [events EXCEPT ![v] = counted]
        BY <1>3 DEF Publish
    <3>4. QED  BY <3>2, <3>3 DEF DetectionTypeOK
  <2>2. late' \in [Cameras -> 0..2] /\ thread' \in [Cameras -> Threads]
      BY <1>3 DEF Publish, DetectionTypeOK, Threads
  <2>3. UNCHANGED <<web, commands, triggers, answers, enabled, cached, station>>
      BY <1>3 DEF Publish
  <2>4. QED  BY <2>1, <2>2, <2>3 DEF DetectionTypeOK, answers, station
<1>4. QED  BY <1>1, <1>2, <1>3 DEF Camera

LEMMA DetectionTypeStep ==
    DetectionTypeOK /\ [DetectionNext]_detectionVars => DetectionTypeOK'
<1> SUFFICES ASSUME DetectionTypeOK, [DetectionNext]_detectionVars PROVE DetectionTypeOK'
    OBVIOUS
<1>1. ASSUME NEW request \in Requests, NEW reached \in SUBSET Drones, Send(request, reached)
      PROVE  DetectionTypeOK'
  <2>1. \A d \in Drones : Append(commands[d], request) \in Seq(Requests)
      BY AppendProperties DEF DetectionTypeOK
  <2>2. commands' \in [Drones -> Seq(Requests)]
      BY <1>1, <2>1 DEF Send, DetectionTypeOK
  <2>3. sent' \in 0..MaxCommands /\ last' \in Requests
      BY <1>1, DepthAssumption DEF Send, DetectionTypeOK
  <2>4. missed' \in BOOLEAN
      BY <1>1, Zenon DEF Send
  <2>5. UNCHANGED <<web, triggers, events, answers, cameras>>
      BY <1>1 DEF Send
  <2>6. QED  BY <2>2, <2>3, <2>4, <2>5 DEF DetectionTypeOK, answers, cameras
<1>2. CASE UNCHANGED detectionVars
    BY <1>2 DEF detectionVars, DetectionTypeOK, answers, cameras, station
<1>3. QED  BY <1>1, <1>2, ControllerTyped, CameraTyped DEF DetectionNext

LEMMA DetectionTypeInit == DetectionInit => DetectionTypeOK
<1> SUFFICES ASSUME DetectionInit PROVE DetectionTypeOK
    OBVIOUS
<1>1. <<>> \in Seq(Requests) /\ <<>> \in Seq(Triggers)
    BY EmptySeq
<1>2. /\ commands \in [Drones -> Seq(Requests)]
      /\ triggers \in [Drones -> [Cameras -> Seq(Triggers)]]
    BY <1>1 DEF DetectionInit
<1>3. sent \in 0..MaxCommands /\ events \in [Cameras -> [Drones -> 0..Depth]]
    BY DepthAssumption DEF DetectionInit
<1>4. /\ on_detection \in [Drones -> {"report", "return_land"}]
      /\ returning \in [Drones -> BOOLEAN]
      /\ enabled \in [Cameras -> BOOLEAN] /\ cached \in [Cameras -> BOOLEAN]
      /\ thread \in [Cameras -> Threads] /\ late \in [Cameras -> 0..2]
    BY DEF DetectionInit, Threads
<1>5. web \subseteq Cameras /\ last \in Requests \cup {"none"} /\ missed \in BOOLEAN
    BY DEF DetectionInit
<1>6. QED  BY <1>2, <1>3, <1>4, <1>5 DEF DetectionTypeOK

(* A camera's detections wait in queues of Depth, and what is in a queue has its type.          *)
THEOREM DetectionTypeCorrect == DetectionSpec => []DetectionTypeOK
    BY DetectionTypeInit, DetectionTypeStep, PTL DEF DetectionSpec
-----------------------------------------------------------------------------
(* The full status.  The station remembers StationLimit reports, and forgets the oldest   *)
(* for the next: what is proved is about as many reports as it remembers.            *)
StationRemembersAll == IsFiniteSet(Keys) /\ Cardinality(Keys) <= StationLimit

DistinctKeys(s) == \A i, j \in 1..Len(s) : s[i] = s[j] => i = j

ReportShape ==
    /\ results \in [Members -> Seq(StatusRequests)]
    /\ responses \in [Members -> Seq(Keys)]
    /\ reports \in Seq(Keys)

(* The reports printed are the ones remembered.                                     *)
PrintedRemembered ==
    /\ received_keys \in Seq(Keys) /\ DistinctKeys(received_keys)
    /\ printed \in [StatusRequests -> [Members -> Nat]]
    /\ \A r \in StatusRequests, m \in Members :
          printed[r][m] = IF Knows(received_keys, <<r, m>>) THEN 1 ELSE 0

ReportInv == ReportShape /\ PrintedRemembered

LEMMA DistinctAreFew ==
    ASSUME StationRemembersAll, NEW s \in Seq(Keys), DistinctKeys(s)
    PROVE  Len(s) <= StationLimit
<1>1. Len(s) \in Nat /\ s \in [1..Len(s) -> Keys]
    BY LenProperties
<1>2. s \in Injection(1..Len(s), Keys)
    BY <1>1 DEF Injection, IsInjective, DistinctKeys
<1>3. Cardinality(1..Len(s)) <= Cardinality(Keys)
    BY <1>2, FS_Injection DEF StationRemembersAll
<1>4. Cardinality(1..Len(s)) = Len(s)
    BY <1>1, FS_Interval
<1>5. Cardinality(Keys) \in Nat
    BY FS_CardinalityType DEF StationRemembersAll
<1>6. QED  BY <1>1, <1>3, <1>4, <1>5, StatusAssumption DEF StationRemembersAll

LEMMA KnowsIndex ==
    ASSUME NEW S, NEW s \in Seq(S), NEW x
    PROVE  Knows(s, x) <=> \E i \in 1..Len(s) : s[i] = x
<1>1. DOMAIN s = 1..Len(s)
    BY LenProperties
<1>2. QED  BY <1>1 DEF Knows, ToSet

(* A report that is not known is remembered, and none is forgotten for it.             *)
LEMMA KeyRemembered ==
    ASSUME StationRemembersAll, NEW s \in Seq(Keys), DistinctKeys(s), NEW key \in Keys,
           ~Knows(s, key)
    PROVE  LET all == Remembered(s, key, StationLimit) IN
           /\ all \in Seq(Keys) /\ DistinctKeys(all)
           /\ \A other : Knows(all, other) <=> other = key \/ Knows(s, other)
<1> DEFINE all == Append(s, key)
<1>1. /\ all \in Seq(Keys) /\ Len(all) = Len(s) + 1 /\ Len(s) \in Nat
      /\ \A i \in 1..Len(s) : all[i] = s[i]
      /\ all[Len(s) + 1] = key
    BY AppendProperties, LenProperties
<1> HIDE DEF all
<1>2. \A i \in 1..Len(s) : s[i] # key
    BY KnowsIndex
<1>3. \A i \in 1..Len(all) : i \in 1..Len(s) \/ i = Len(s) + 1
    BY <1>1
<1>4. DistinctKeys(all)
    BY <1>1, <1>2, <1>3 DEF DistinctKeys
<1>5. Len(all) <= StationLimit
    BY <1>1, <1>4, DistinctAreFew
<1>6. Remembered(s, key, StationLimit) = all
    BY <1>5 DEF Remembered, all
<1>7. ASSUME NEW other
      PROVE  Knows(all, other) <=> other = key \/ Knows(s, other)
  <2>1. Knows(all, other) <=> \E i \in 1..Len(all) : all[i] = other
      BY <1>1, KnowsIndex
  <2>2. Knows(s, other) <=> \E i \in 1..Len(s) : s[i] = other
      BY KnowsIndex
  <2>3. Len(s) + 1 \in 1..Len(all) /\ \A i \in 1..Len(s) : i \in 1..Len(all)
      BY <1>1
  <2>4. QED  BY <1>1, <1>3, <2>1, <2>2, <2>3
<1>8. QED  BY <1>1, <1>4, <1>6, <1>7

LEMMA ReportInvInit == StatusInit => ReportInv
<1> SUFFICES ASSUME StatusInit PROVE ReportInv
    OBVIOUS
<1>1. /\ results = [m \in Members |-> <<>>] /\ responses = [m \in Members |-> <<>>]
      /\ reports = <<>> /\ received_keys = <<>>
      /\ printed = [r \in StatusRequests |-> [m \in Members |-> 0]]
    BY DEF StatusInit
<1>2. \A x : ~Knows(<<>>, x)
    BY DEF Knows, ToSet
<1>3. DistinctKeys(<<>>) /\ \A S : <<>> \in Seq(S)
    BY DEF DistinctKeys
<1>4. ReportShape
    BY <1>1, <1>3 DEF ReportShape
<1>5. PrintedRemembered
    BY <1>1, <1>2, <1>3 DEF PrintedRemembered
<1>6. QED  BY <1>4, <1>5 DEF ReportInv

LEMMA ReportsArrive ==
    ASSUME ReportInv,
           \/ \E m \in Members, r \in StatusRequests : Collected(m, r)
           \/ \E m \in Members : DrainResults(m) \/ ForwardResponse(m)
    PROVE  ReportShape'
<1> USE DEF ReportInv, ReportShape
<1>1. ASSUME NEW m \in Members, NEW r \in StatusRequests, Collected(m, r)
      PROVE  ReportShape'
  <2>1. Append(results[m], r) \in Seq(StatusRequests)
      BY AppendProperties
  <2>2. results' \in [Members -> Seq(StatusRequests)]
      BY <1>1, <2>1 DEF Collected
  <2>3. QED  BY <1>1, <2>2 DEF Collected
<1>2. ASSUME NEW m \in Members, DrainResults(m) PROVE ReportShape'
  <2> DEFINE done == [i \in DOMAIN results[m] |-> <<results[m][i], m>>]
  <2>1. Len(results[m]) \in Nat /\ DOMAIN results[m] = 1..Len(results[m])
        /\ \A i \in 1..Len(results[m]) : results[m][i] \in StatusRequests
      BY LenProperties, ElementOfSeq
  <2>2. \A i \in 1..Len(results[m]) : <<results[m][i], m>> \in Keys
      BY <2>1 DEF Keys
  <2>3. done \in [1..Len(results[m]) -> Keys]
      BY <2>1, <2>2
  <2>4. done \in Seq(Keys)
      BY <2>1, <2>3, SeqDef
  <2>5. /\ results' = [results EXCEPT ![m] = <<>>]
        /\ \/ reports' = reports \o done /\ UNCHANGED responses
           \/ /\ responses' = [other \in Members |-> responses[other] \o done]
              /\ UNCHANGED reports
      BY <1>2 DEF DrainResults
  <2> HIDE DEF done
  <2>6. results' \in [Members -> Seq(StatusRequests)]
      BY <2>5
  <2>7. reports \o done \in Seq(Keys)
      BY <2>4, ConcatProperties
  <2>8. \A other \in Members : responses[other] \o done \in Seq(Keys)
      BY <2>4, ConcatProperties
  <2>9. QED  BY <2>5, <2>6, <2>7, <2>8
<1>3. ASSUME NEW m \in Members, ForwardResponse(m) PROVE ReportShape'
  <2>1. Head(responses[m]) \in Keys /\ Tail(responses[m]) \in Seq(Keys)
      BY <1>3, HeadTailProperties DEF ForwardResponse
  <2>2. Append(reports, Head(responses[m])) \in Seq(Keys)
      BY <2>1, AppendProperties
  <2>3. responses' \in [Members -> Seq(Keys)] /\ reports' \in Seq(Keys) /\ UNCHANGED results
      BY <1>3, <2>1, <2>2 DEF ForwardResponse
  <2>4. QED  BY <2>3
<1>4. QED  BY <1>1, <1>2, <1>3

LEMMA TakeReportPrints ==
    ASSUME StationRemembersAll, ReportInv, TakeReport
    PROVE  ReportInv'
<1> DEFINE key == Head(reports)
<1>1. key \in Keys /\ Tail(reports) \in Seq(Keys)
    BY HeadTailProperties DEF TakeReport, ReportInv, ReportShape
<1>2. ReportShape'
    BY <1>1 DEF TakeReport, ReportInv, ReportShape, droneVars
<1>3. PrintedRemembered'
  <2>1. CASE Knows(received_keys, key)
      BY <2>1 DEF TakeReport, AlreadyPrinted, ReportInv, PrintedRemembered, stationVars
  <2>2. CASE ~Knows(received_keys, key)
    <3>1. /\ received_keys' = Remembered(received_keys, key, StationLimit)
          /\ printed' = [printed EXCEPT ![key[1]][key[2]] = @ + 1]
        BY <2>2 DEF TakeReport, AlreadyPrinted, CountPrinted
    <3> HIDE DEF key
    <3>2. PICK q \in StatusRequests, d \in Members : key = <<q, d>>
        BY <1>1 DEF Keys
    <3>3. /\ received_keys' \in Seq(Keys) /\ DistinctKeys(received_keys')
          /\ \A other : Knows(received_keys', other) <=>
                            other = key \/ Knows(received_keys, other)
        BY <1>1, <2>2, <3>1, KeyRemembered DEF ReportInv, PrintedRemembered
    <3>4. printed' = [printed EXCEPT ![q] = [printed[q] EXCEPT ![d] = printed[q][d] + 1]]
        BY <3>1, <3>2
    <3>5. printed[q] \in [Members -> Nat] /\ printed[q][d] = 0
        BY <2>2, <3>2 DEF ReportInv, PrintedRemembered
    <3>6. printed' \in [StatusRequests -> [Members -> Nat]]
        BY <3>4, <3>5 DEF ReportInv, PrintedRemembered
    <3>7. ASSUME NEW r \in StatusRequests, NEW m \in Members
          PROVE  printed'[r][m] = IF Knows(received_keys', <<r, m>>) THEN 1 ELSE 0
      <4>1. CASE r = q /\ m = d
        <5>1. printed'[r][m] = 1
            BY <3>4, <3>5, <4>1 DEF ReportInv, PrintedRemembered
        <5>2. QED  BY <3>2, <3>3, <4>1, <5>1
      <4>2. CASE ~(r = q /\ m = d)
        <5>1. printed'[r][m] = printed[r][m]
            BY <3>4, <3>5, <4>2 DEF ReportInv, PrintedRemembered
        <5>2. Knows(received_keys', <<r, m>>) <=> Knows(received_keys, <<r, m>>)
            BY <3>2, <3>3, <4>2
        <5>3. QED  BY <5>1, <5>2 DEF ReportInv, PrintedRemembered
      <4>3. QED  BY <4>1, <4>2
    <3>8. QED  BY <3>3, <3>6, <3>7 DEF PrintedRemembered, Knows
  <2>3. QED  BY <2>1, <2>2
<1>4. QED  BY <1>2, <1>3 DEF ReportInv

LEMMA ReportInvStep ==
    StationRemembersAll /\ ReportInv /\ [StatusNext]_statusVars => ReportInv'
<1> SUFFICES ASSUME StationRemembersAll, ReportInv, [StatusNext]_statusVars PROVE ReportInv'
    OBVIOUS
<1>1. ASSUME UNCHANGED <<results, responses, reports, received_keys, printed>> PROVE ReportInv'
    BY <1>1 DEF ReportInv, ReportShape, PrintedRemembered
<1>2. CASE UNCHANGED statusVars
    BY <1>1, <1>2 DEF statusVars, droneVars, stationVars
<1>3. CASE \/ \E r \in StatusRequests, wanted \in {{}, Members} : RequestFullStatus(r, wanted)
           \/ \E m \in Members : TakeRequest(m) \/ ChangeRole(m)
           \/ \E r \in StatusRequests : RequestTimesOut(r)
    BY <1>1, <1>3 DEF RequestFullStatus, TakeRequest, ChangeRole, RequestTimesOut, droneVars,
                      stationVars
<1>4. CASE \/ \E m \in Members, r \in StatusRequests : Collected(m, r)
           \/ \E m \in Members : DrainResults(m) \/ ForwardResponse(m)
  <2>1. ReportShape'
      BY <1>4, ReportsArrive
  <2>2. UNCHANGED <<received_keys, printed>>
      BY <1>4 DEF Collected, DrainResults, ForwardResponse, stationVars
  <2>3. PrintedRemembered'
      BY <2>2 DEF ReportInv, PrintedRemembered
  <2>4. QED  BY <2>1, <2>3 DEF ReportInv
<1>5. CASE TakeReport
    BY <1>5, TakeReportPrints
<1>6. QED  BY <1>2, <1>3, <1>4, <1>5 DEF StatusNext

(* _full_status_report_callback prints a drone's report once per request, for any number of *)
(* drones, any role changes and any leaders that forward it, while the reports are not     *)
(* more than the station remembers.                                                  *)
THEOREM ReportsPrintedOnce == StationRemembersAll /\ StatusSpec => []ReportedOnce
<1>1. StatusInit => ReportInv
    BY ReportInvInit
<1>2. StationRemembersAll /\ ReportInv /\ [StatusNext]_statusVars => ReportInv'
    BY ReportInvStep
<1>3. ReportInv => ReportedOnce
  <2> SUFFICES ASSUME ReportInv, NEW r \in StatusRequests, NEW m \in Members
               PROVE  printed[r][m] <= 1
      BY DEF ReportedOnce
  <2>1. printed[r][m] \in {0, 1}
      BY DEF ReportInv, PrintedRemembered
  <2>2. QED  BY <2>1
<1> SUFFICES ASSUME StationRemembersAll PROVE StatusSpec => []ReportedOnce
    OBVIOUS
<1>4. ReportInv /\ [StatusNext]_statusVars => ReportInv'
    BY <1>2
<1>5. QED  BY <1>1, <1>3, <1>4, PTL DEF StatusSpec

(* What _remember_once keeps is bounded.                                             *)
LEMMA RememberedTyped ==
    ASSUME NEW S, NEW s \in Seq(S), NEW x \in S, NEW limit \in Nat \ {0}
    PROVE  /\ Remembered(s, x, limit) \in Seq(S)
           /\ Len(Remembered(s, x, limit)) <= limit
<1> DEFINE all == Append(s, x)
<1>1. all \in Seq(S) /\ Len(all) \in Nat
    BY AppendProperties, LenProperties
<1>2. Remembered(s, x, limit) = IF Len(all) <= limit THEN all
                                ELSE SubSeq(all, Len(all) - limit + 1, Len(all))
    BY DEF Remembered
<1> HIDE DEF all
<1>3. CASE Len(all) <= limit
    BY <1>1, <1>2, <1>3
<1>4. CASE Len(all) > limit
  <2> DEFINE from == Len(all) - limit + 1
  <2>1. from \in 1..Len(all) /\ Len(all) \in 1..Len(all) /\ Len(all) - from + 1 = limit
      BY <1>1, <1>4
  <2>2. \A i \in from..Len(all) : i \in 1..Len(all) /\ all[i] \in S
      BY <1>1, <2>1, ElementOfSeq
  <2>3. SubSeq(all, from, Len(all)) \in Seq(S) /\ Len(SubSeq(all, from, Len(all))) = limit
      BY <1>1, <2>1, <2>2, SubSeqProperties
  <2>4. QED  BY <1>1, <1>2, <1>4, <2>3
<1>5. QED  BY <1>1, <1>3, <1>4

LEMMA TakeRequestTyped ==
    ASSUME StatusTypeOK, NEW m \in Members, TakeRequest(m)
    PROVE  StatusTypeOK'
<1> DEFINE r == Head(asked[m])
<1> DEFINE new == ~Knows(seen[m], r)
<1>1. /\ asked' = [other \in Members |->
                       CASE other = m -> Tail(asked[m])
                         [] new /\ leads[m] /\ ~leads[other] -> Append(asked[other], r)
                         [] OTHER -> asked[other]]
      /\ seen' = IF new THEN [seen EXCEPT ![m] = Remembered(seen[m], r, SeenLimit)] ELSE seen
      /\ collecting' = IF new THEN [collecting EXCEPT ![m] = collecting[m] \cup {r}]
                       ELSE collecting
      /\ asked[m] # <<>>
      /\ UNCHANGED <<leads, results, responses, forwarded, reports, stationVars, calm,
                     role_changes>>
    BY DEF TakeRequest
<1>2. r \in StatusRequests /\ Tail(asked[m]) \in Seq(StatusRequests)
    BY <1>1, HeadTailProperties DEF StatusTypeOK
<1> HIDE DEF r, new
<1>3. \A other \in Members : Append(asked[other], r) \in Seq(StatusRequests)
    BY <1>2, AppendProperties DEF StatusTypeOK
<1>4. asked' \in [Members -> Seq(StatusRequests)]
  <2>1. \A other \in Members : asked'[other] \in Seq(StatusRequests)
    <3> SUFFICES ASSUME NEW other \in Members PROVE asked'[other] \in Seq(StatusRequests)
        OBVIOUS
    <3>1. asked'[other] = CASE other = m -> Tail(asked[m])
                            [] new /\ leads[m] /\ ~leads[other] -> Append(asked[other], r)
                            [] OTHER -> asked[other]
        BY <1>1
    <3>2. CASE other = m
        BY <1>2, <3>1, <3>2
    <3>3. CASE other # m /\ new /\ leads[m] /\ ~leads[other]
        BY <1>3, <3>1, <3>3
    <3>4. CASE other # m /\ ~(new /\ leads[m] /\ ~leads[other])
        BY <3>1, <3>4 DEF StatusTypeOK
    <3>5. QED  BY <3>2, <3>3, <3>4
  <2>2. QED  BY <1>1, <2>1
<1>5. /\ Remembered(seen[m], r, SeenLimit) \in Seq(StatusRequests)
      /\ Len(Remembered(seen[m], r, SeenLimit)) <= SeenLimit
    BY <1>2, RememberedTyped, StatusAssumption DEF StatusTypeOK
<1>6. /\ seen' \in [Members -> Seq(StatusRequests)]
      /\ \A other \in Members : Len(seen'[other]) <= SeenLimit
    BY <1>1, <1>5 DEF StatusTypeOK
<1>7. collecting' \in [Members -> SUBSET StatusRequests]
    BY <1>1, <1>2 DEF StatusTypeOK
<1>8. QED  BY <1>1, <1>4, <1>6, <1>7 DEF StatusTypeOK, stationVars

LEMMA ReportsTyped ==
    ASSUME StatusTypeOK, NEW m \in Members,
           DrainResults(m) \/ \E r \in StatusRequests : Collected(m, r)
    PROVE  StatusTypeOK'
<1>1. ASSUME NEW r \in StatusRequests, Collected(m, r) PROVE StatusTypeOK'
  <2>1. Append(results[m], r) \in Seq(StatusRequests)
      BY AppendProperties DEF StatusTypeOK
  <2>2. results' \in [Members -> Seq(StatusRequests)]
      BY <1>1, <2>1 DEF Collected, StatusTypeOK
  <2>3. collecting' \in [Members -> SUBSET StatusRequests]
      BY <1>1 DEF Collected, StatusTypeOK
  <2>4. QED  BY <1>1, <2>2, <2>3 DEF Collected, StatusTypeOK, stationVars
<1>2. CASE DrainResults(m)
  <2> DEFINE done == [i \in DOMAIN results[m] |-> <<results[m][i], m>>]
  <2>1. Len(results[m]) \in Nat /\ DOMAIN results[m] = 1..Len(results[m])
        /\ \A i \in 1..Len(results[m]) : results[m][i] \in StatusRequests
      BY LenProperties, ElementOfSeq DEF StatusTypeOK
  <2>2. done \in Seq(Keys)
    <3>1. \A i \in 1..Len(results[m]) : <<results[m][i], m>> \in Keys
        BY <2>1 DEF Keys
    <3>2. done \in [1..Len(results[m]) -> Keys]
        BY <2>1, <3>1
    <3>3. QED  BY <2>1, <3>2, SeqDef
  <2>3. /\ results' = [results EXCEPT ![m] = <<>>]
        /\ \/ reports' = reports \o done /\ UNCHANGED responses
           \/ /\ responses' = [other \in Members |-> responses[other] \o done]
              /\ UNCHANGED reports
        /\ UNCHANGED <<leads, asked, seen, collecting, forwarded, stationVars, calm,
                       role_changes>>
      BY <1>2 DEF DrainResults
  <2> HIDE DEF done
  <2>4. results' \in [Members -> Seq(StatusRequests)]
      BY <2>3 DEF StatusTypeOK
  <2>5. /\ reports \o done \in Seq(Keys)
        /\ \A other \in Members : responses[other] \o done \in Seq(Keys)
      BY <2>2, ConcatProperties DEF StatusTypeOK
  <2>6. reports' \in Seq(Keys) /\ responses' \in [Members -> Seq(Keys)]
    <3>1. reports \in Seq(Keys) /\ responses \in [Members -> Seq(Keys)]
        BY DEF StatusTypeOK
    <3>2. CASE reports' = reports \o done /\ UNCHANGED responses
        BY <2>5, <3>1, <3>2
    <3>3. CASE /\ responses' = [other \in Members |-> responses[other] \o done]
               /\ UNCHANGED reports
        BY <2>5, <3>1, <3>3
    <3>4. QED  BY <2>3, <3>2, <3>3
  <2>7. QED  BY <2>3, <2>4, <2>6 DEF StatusTypeOK, stationVars
<1>3. QED  BY <1>1, <1>2

LEMMA ForwardTyped ==
    ASSUME StatusTypeOK, NEW m \in Members, ForwardResponse(m)
    PROVE  StatusTypeOK'
<1> DEFINE key == Head(responses[m])
<1>1. key \in Keys /\ Tail(responses[m]) \in Seq(Keys)
    BY HeadTailProperties DEF ForwardResponse, StatusTypeOK
<1>2. /\ \/ /\ forwarded' = [forwarded EXCEPT ![m] = Remembered(forwarded[m], key, SeenLimit)]
            /\ reports' = Append(reports, key)
         \/ UNCHANGED <<forwarded, reports>>
      /\ responses' = [responses EXCEPT ![m] = Tail(responses[m])]
      /\ UNCHANGED <<leads, asked, seen, collecting, results, stationVars, calm, role_changes>>
    BY DEF ForwardResponse, ForwardKey
<1> HIDE DEF key
<1>3. /\ Remembered(forwarded[m], key, SeenLimit) \in Seq(Keys)
      /\ Len(Remembered(forwarded[m], key, SeenLimit)) <= SeenLimit
      /\ Append(reports, key) \in Seq(Keys)
    BY <1>1, RememberedTyped, AppendProperties, StatusAssumption DEF StatusTypeOK
<1>4. /\ forwarded' \in [Members -> Seq(Keys)] /\ reports' \in Seq(Keys)
      /\ \A other \in Members : Len(forwarded'[other]) <= SeenLimit
    BY <1>2, <1>3 DEF StatusTypeOK
<1>5. responses' \in [Members -> Seq(Keys)]
    BY <1>1, <1>2 DEF StatusTypeOK
<1>6. QED  BY <1>2, <1>4, <1>5 DEF StatusTypeOK, stationVars

LEMMA TakeReportTyped ==
    ASSUME StatusTypeOK, TakeReport
    PROVE  StatusTypeOK'
<1> DEFINE Open == [open : BOOLEAN, expected : SUBSET Members, received : SUBSET Members]
<1> DEFINE key == Head(reports)
<1>1. key \in Keys /\ Tail(reports) \in Seq(Keys)
    BY HeadTailProperties DEF TakeReport, StatusTypeOK
<1>2. reports' = Tail(reports) /\ UNCHANGED <<droneVars, calm, role_changes, requested>>
    BY DEF TakeReport, stationVars
<1>3. CASE UNCHANGED stationVars
    BY <1>1, <1>2, <1>3 DEF StatusTypeOK, stationVars, droneVars
<1>4. CASE ~AlreadyPrinted(key)
  <2> DEFINE received == pending[key[1]].received \cup {key[2]}
  <2>1. /\ received_keys' = Remembered(received_keys, key, StationLimit)
        /\ printed' = [printed EXCEPT ![key[1]][key[2]] = @ + 1]
        /\ \/ pending' = pending
           \/ pending' = [pending EXCEPT ![key[1]] = Closed]
           \/ pending' = [pending EXCEPT ![key[1]].received = received]
    <3> DEFINE complete == /\ pending[key[1]].expected # {}
                           /\ pending[key[1]].expected \subseteq received
    <3>1. /\ received_keys' = Remembered(received_keys, key, StationLimit)
          /\ CountPrinted(key)
          /\ pending' = CASE ~pending[key[1]].open -> pending
                          [] pending[key[1]].open /\ complete
                               -> [pending EXCEPT ![key[1]] = Closed]
                          [] OTHER -> [pending EXCEPT ![key[1]].received = received]
        BY <1>4 DEF TakeReport
    <3>2. QED  BY <3>1 DEF CountPrinted
  <2> HIDE DEF key
  <2>2. PICK q \in StatusRequests, d \in Members : key = <<q, d>>
      BY <1>1 DEF Keys
  <2>3. received_keys' \in Seq(Keys) /\ Len(received_keys') <= StationLimit
      BY <1>1, <2>1, RememberedTyped, StatusAssumption DEF StatusTypeOK
  <2>4. printed' \in [StatusRequests -> [Members -> Nat]]
    <3>1. printed' = [printed EXCEPT ![q] = [printed[q] EXCEPT ![d] = printed[q][d] + 1]]
        BY <2>1, <2>2
    <3>2. printed[q] \in [Members -> Nat] /\ printed[q][d] + 1 \in Nat
        BY DEF StatusTypeOK
    <3>3. QED  BY <3>1, <3>2 DEF StatusTypeOK
  <2>5. pending' \in [StatusRequests -> Open]
    <3>1. pending \in [StatusRequests -> Open] /\ pending[q] \in Open
        BY DEF StatusTypeOK
    <3>2. Closed \in Open
        BY DEF Closed
    <3>3. received \in SUBSET Members
        BY <2>2, <3>1
    <3>4. [pending[q] EXCEPT !.received = received] \in Open
        BY <3>1, <3>3
    <3>5. CASE pending' = [pending EXCEPT ![key[1]].received = received]
        <4>1. pending' = [pending EXCEPT ![q] = [pending[q] EXCEPT !.received = received]]
            BY <2>2, <3>5
        <4>2. QED  BY <3>1, <3>4, <4>1
    <3>6. QED  BY <2>1, <2>2, <3>1, <3>2, <3>5
  <2>6. QED  BY <1>1, <1>2, <2>3, <2>4, <2>5 DEF StatusTypeOK, droneVars
<1>5. QED  BY <1>3, <1>4 DEF TakeReport

LEMMA StatusTypeStep == StatusTypeOK /\ [StatusNext]_statusVars => StatusTypeOK'
<1> DEFINE Open == [open : BOOLEAN, expected : SUBSET Members, received : SUBSET Members]
<1> SUFFICES ASSUME StatusTypeOK, [StatusNext]_statusVars PROVE StatusTypeOK'
    OBVIOUS
<1>1. ASSUME NEW r \in StatusRequests, NEW wanted \in {{}, Members},
             RequestFullStatus(r, wanted)
      PROVE  StatusTypeOK'
  <2>1. \A m \in Members : Append(asked[m], r) \in Seq(StatusRequests)
      BY AppendProperties DEF StatusTypeOK
  <2>2. asked' \in [Members -> Seq(StatusRequests)]
      BY <1>1, <2>1 DEF RequestFullStatus, StatusTypeOK
  <2>3. pending' \in [StatusRequests -> Open]
    <3>1. [open |-> TRUE, expected |-> wanted, received |-> {}] \in Open
        OBVIOUS
    <3>2. QED  BY <1>1, <3>1 DEF RequestFullStatus, StatusTypeOK
  <2>4. requested' \subseteq StatusRequests /\ calm' \subseteq requested'
      BY <1>1 DEF RequestFullStatus, StatusTypeOK
  <2>5. UNCHANGED <<leads, seen, collecting, results, responses, forwarded, reports,
                    received_keys, printed, role_changes>>
      BY <1>1 DEF RequestFullStatus
  <2>6. QED  BY <2>2, <2>3, <2>4, <2>5 DEF StatusTypeOK
<1>2. ASSUME NEW m \in Members, ChangeRole(m) PROVE StatusTypeOK'
  <2>1. leads' \in [Members -> BOOLEAN]
      BY <1>2, Zenon DEF ChangeRole, StatusTypeOK
  <2>2. asked' \in [Members -> Seq(StatusRequests)]
      BY <1>2, EmptySeq DEF ChangeRole, StatusTypeOK
  <2>3. role_changes' \in 0..MaxRoleChanges /\ calm' = {}
      BY <1>2, StatusAssumption DEF ChangeRole, StatusTypeOK
  <2>4. UNCHANGED <<seen, collecting, results, responses, forwarded, reports, stationVars>>
      BY <1>2 DEF ChangeRole
  <2>5. QED  BY <2>1, <2>2, <2>3, <2>4 DEF StatusTypeOK, stationVars
<1>3. ASSUME NEW r \in StatusRequests, RequestTimesOut(r) PROVE StatusTypeOK'
  <2>1. Closed \in Open
      BY DEF Closed
  <2>2. pending' \in [StatusRequests -> Open]
      BY <1>3, <2>1 DEF RequestTimesOut, StatusTypeOK
  <2>3. QED  BY <1>3, <2>2 DEF RequestTimesOut, StatusTypeOK, droneVars
<1>4. CASE UNCHANGED statusVars
    BY <1>4 DEF statusVars, droneVars, stationVars, StatusTypeOK
<1>5. QED
    BY <1>1, <1>2, <1>3, <1>4, TakeRequestTyped, ReportsTyped, ForwardTyped, TakeReportTyped
       DEF StatusNext

LEMMA StatusTypeInit == StatusInit => StatusTypeOK
<1> SUFFICES ASSUME StatusInit PROVE StatusTypeOK
    OBVIOUS
<1>1. \A S : <<>> \in Seq(S) /\ Len(<<>>) = 0
    BY EmptySeq
<1>2. Closed \in [open : BOOLEAN, expected : SUBSET Members, received : SUBSET Members]
    BY DEF Closed
<1>3. leads \in [Members -> BOOLEAN]
    BY Zenon DEF StatusInit
<1>4. role_changes \in 0..MaxRoleChanges
    BY StatusAssumption DEF StatusInit
<1>5. QED  BY <1>1, <1>2, <1>3, <1>4, StatusAssumption DEF StatusInit, StatusTypeOK

(* The types of the report's state: what a drone and the station remember never exceeds its     *)
(* limit, whatever is asked, answered and forwarded.                                 *)
THEOREM StatusTypeCorrect == StatusSpec => []StatusTypeOK
    BY StatusTypeInit, StatusTypeStep, PTL DEF StatusSpec
-----------------------------------------------------------------------------
(* The trackers.  Numbers that wrap.                                               *)
LEMMA SizesTyped ==
    /\ Modulo \in Nat /\ Modulo > 0 /\ HistorySize \in Nat /\ HistorySize > 0
    /\ Reach \in Nat /\ MaxMessages \in Nat
    BY TrackersAssumption

(* A number is its remainder and a multiple of the modulus,                      *)
LEMMA Divided ==
    ASSUME NEW a \in Int
    PROVE  /\ a \div Modulo \in Int /\ a % Modulo \in 0..(Modulo - 1)
           /\ a = (a \div Modulo) * Modulo + (a % Modulo)
<1>1. a \div Modulo \in Int
    BY SizesTyped
<1>2. a % Modulo \in 0..(Modulo - 1)
    BY SizesTyped
<1>3. a = (a \div Modulo) * Modulo + (a % Modulo)
    BY SizesTyped
<1>4. QED  BY <1>1, <1>2, <1>3

(* and of no other number below the modulus.                                     *)
LEMMA Remainder ==
    ASSUME NEW q \in Int, NEW r \in 0..(Modulo - 1)
    PROVE  (q * Modulo + r) % Modulo = r
    BY SizesTyped

(* Numbers less than once around apart have different remainders.                          *)
LEMMA SameRemainder ==
    ASSUME NEW a \in Int, NEW b \in Int, a % Modulo = b % Modulo,
           a - b < Modulo, b - a < Modulo
    PROVE  a = b
<1> DEFINE q == a \div Modulo
<1> DEFINE p == b \div Modulo
<1>1. /\ q \in Int /\ p \in Int /\ a % Modulo \in Int
      /\ a = q * Modulo + (a % Modulo) /\ b = p * Modulo + (a % Modulo)
    BY Divided
<1> HIDE DEF q, p
<1>2. CASE q >= p + 1
  <2>1. q * Modulo >= (p + 1) * Modulo
      BY <1>1, <1>2, SizesTyped
  <2>2. (p + 1) * Modulo = p * Modulo + Modulo /\ q * Modulo \in Int /\ p * Modulo \in Int
      BY <1>1, SizesTyped
  <2>3. QED  BY <1>1, <2>1, <2>2, SizesTyped
<1>3. CASE p >= q + 1
  <2>1. p * Modulo >= (q + 1) * Modulo
      BY <1>1, <1>3, SizesTyped
  <2>2. (q + 1) * Modulo = q * Modulo + Modulo /\ q * Modulo \in Int /\ p * Modulo \in Int
      BY <1>1, SizesTyped
  <2>3. QED  BY <1>1, <2>1, <2>2, SizesTyped
<1>4. CASE p = q
    BY <1>1, <1>4
<1>5. QED  BY <1>1, <1>2, <1>3, <1>4

(* Sums and differences of numbers survive the wrap.                                  *)
LEMMA RemainderOfSum ==
    ASSUME NEW a \in Int, NEW c \in Int
    PROVE  ((a % Modulo) + c) % Modulo = (a + c) % Modulo
<1> DEFINE q == a \div Modulo
<1> DEFINE r == a % Modulo
<1> DEFINE p == (r + c) \div Modulo
<1> DEFINE s == (r + c) % Modulo
<1>1. q \in Int /\ r \in 0..(Modulo - 1) /\ a = q * Modulo + r
    BY Divided
<1>2. r + c \in Int
    BY <1>1, SizesTyped
<1>3. p \in Int /\ s \in 0..(Modulo - 1) /\ r + c = p * Modulo + s
    BY <1>2, Divided
<1>4. q + p \in Int
    BY <1>1, <1>3
<1> HIDE DEF q, r, p, s
<1>5. a + c = (q + p) * Modulo + s
    BY <1>1, <1>3, SizesTyped
<1>6. (a + c) % Modulo = s
    BY <1>3, <1>4, <1>5, Remainder
<1>7. QED  BY <1>6 DEF s, r

LEMMA RemainderOfDifference ==
    ASSUME NEW a \in Int, NEW b \in Int
    PROVE  ((a % Modulo) - (b % Modulo)) % Modulo = (a - b) % Modulo
<1> DEFINE q == b \div Modulo
<1> DEFINE r == b % Modulo
<1> DEFINE p == (a - r) \div Modulo
<1> DEFINE s == (a - r) % Modulo
<1>1. q \in Int /\ r \in 0..(Modulo - 1) /\ b = q * Modulo + r
    BY Divided
<1>2. a - r \in Int /\ -r \in Int
    BY <1>1, SizesTyped
<1>3. p \in Int /\ s \in 0..(Modulo - 1) /\ a - r = p * Modulo + s
    BY <1>2, Divided
<1>4. p - q \in Int
    BY <1>1, <1>3
<1> HIDE DEF p, q, r, s
<1>5. a - b = (p - q) * Modulo + s
    BY <1>1, <1>3, SizesTyped
<1>6. (a - b) % Modulo = s
    BY <1>3, <1>4, <1>5, Remainder
<1>7. ((a % Modulo) + (-r)) % Modulo = (a + (-r)) % Modulo
    BY <1>2, RemainderOfSum
<1>8. a % Modulo \in Int /\ (a % Modulo) + (-r) = (a % Modulo) - r /\ a + (-r) = a - r
    BY <1>1, Divided, SizesTyped
<1>9. ((a % Modulo) - r) % Modulo = s
    BY <1>7, <1>8 DEF s
<1>10. QED  BY <1>6, <1>9 DEF r

(* The remainder of a number less than once around away from zero.                         *)
LEMMA Wrapped ==
    ASSUME NEW c \in (-Modulo)..(Modulo - 1)
    PROVE  c % Modulo = IF c >= 0 THEN c ELSE c + Modulo
    BY SizesTyped
-----------------------------------------------------------------------------
(* The sequence tracker.  The highest number delivered is the one before the expected,     *)
(* and a number remembered is of a message from which the stream has not gone further    *)
(* than the history and the reach allow: less than once around.                       *)
TrackersShape ==
    /\ delivered \subseteq 1..MaxMessages
    /\ recent \in Seq(0..(Modulo - 1)) /\ Len(recent) <= HistorySize

HighestDelivered ==
    IF delivered = {} THEN Highest = 0
    ELSE Highest \in delivered /\ \A j \in delivered : j <= Highest

NextExpected ==
    IF delivered = {} THEN expected = NoNumber /\ recent = <<>>
    ELSE expected = (Highest + 1) % Modulo

Ago(k) == Len(recent) - k

LatelyDelivered ==
    \A k \in 1..Len(recent) : \E j \in delivered :
        recent[k] = j % Modulo /\ Highest <= j + Reach + Ago(k) * (Reach + 1)

NumbersInv == TrackersShape /\ HighestDelivered /\ NextExpected /\ LatelyDelivered

(* The logger's tracker: what is missing so far is what lies between the messages.         *)
CountsInv ==
    /\ missing \in Nat /\ reported \in Nat /\ disorder \in Nat /\ last_publication \in Nat
    /\ delivered = {} => last_publication = 0 /\ reported + missing = 0
    /\ disorder = 0 /\ delivered # {} => last_publication = Highest /\ MissingAreLost

(* Highest is the maximum of what was delivered,                                    *)
LEMMA HighestTyped ==
    ASSUME HighestDelivered, TrackersShape
    PROVE  /\ Highest \in Nat
           /\ \A j \in delivered : j \in Nat /\ 1 <= j /\ j <= Highest
           /\ delivered = {} => Highest = 0
           /\ delivered # {} => Highest \in delivered
<1>1. \A j \in delivered : j \in Nat /\ 1 <= j
    BY SizesTyped DEF TrackersShape
<1>2. CASE delivered = {}
    BY <1>2 DEF HighestDelivered
<1>3. CASE delivered # {}
  <2>1. Highest \in delivered /\ \A j \in delivered : j <= Highest
      BY <1>3 DEF HighestDelivered
  <2>2. QED  BY <1>1, <1>3, <2>1
<1>4. QED  BY <1>2, <1>3

(* and moves on with a delivery that is higher.                                    *)
LEMMA HighestKept ==
    ASSUME HighestDelivered, TrackersShape, NEW i \in 1..MaxMessages,
           delivered' = delivered \cup {i}
    PROVE  /\ HighestDelivered' /\ delivered' # {}
           /\ Highest' = IF i > Highest THEN i ELSE Highest
           /\ Highest \in Nat
<1> DEFINE h == IF i > Highest THEN i ELSE Highest
<1>0. /\ i \in Nat /\ i >= 1 /\ Highest \in Nat
      /\ \A j \in delivered : j \in Nat /\ 1 <= j /\ j <= Highest
      /\ delivered = {} => Highest = 0
      /\ delivered # {} => Highest \in delivered
    BY SizesTyped, HighestTyped
<1>1. Highest \in Nat
    BY <1>0
<1>2. h \in delivered' /\ \A j \in delivered' : h >= j
  <2>1. CASE delivered = {}
      BY <1>0, <2>1
  <2>2. CASE delivered # {}
      BY <1>0, <1>1, <2>2
  <2>3. QED  BY <2>1, <2>2
<1>3. \A g \in delivered' : (\A j \in delivered' : g >= j) => g = h
    BY <1>0, <1>1, <1>2
<1> HIDE DEF h
<1>4. Max(delivered') = h
    BY <1>2, <1>3 DEF Max
<1>5. Highest' = h
    BY <1>2, <1>4 DEF Highest
<1>6. QED  BY <1>1, <1>2, <1>5 DEF h, HighestDelivered

(* The number of a message is remembered only if that very message was delivered.          *)
LEMMA RememberedWasDelivered ==
    ASSUME NumbersInv, NEW i \in 1..MaxMessages,
           i \in (Highest - Reach)..(Highest + 1 + Reach),
           i % Modulo \in ToSet(recent)
    PROVE  i \in delivered
<1>1. PICK k \in 1..Len(recent) : recent[k] = i % Modulo
    BY DEF NumbersInv, TrackersShape, ToSet
<1>2. PICK j \in delivered : recent[k] = j % Modulo /\ Highest <= j + Reach + Ago(k) * (Reach + 1)
    BY DEF NumbersInv, LatelyDelivered
<1>3. Highest \in Nat /\ j \in Nat /\ j <= Highest /\ i \in Nat /\ Reach \in Nat
    BY SizesTyped, HighestTyped DEF NumbersInv
<1>4. Ago(k) \in Nat /\ Ago(k) <= HistorySize - 1 /\ HistorySize \in Nat
    BY TrackersAssumption DEF Ago, NumbersInv, TrackersShape
<1>5. Ago(k) * (Reach + 1) <= (HistorySize - 1) * (Reach + 1)
    BY <1>3, <1>4
<1>6. /\ (HistorySize - 1) * (Reach + 1) = (Reach + 1) * (HistorySize + 1) - 2 * (Reach + 1)
      /\ (HistorySize - 1) * (Reach + 1) \in Int /\ Ago(k) * (Reach + 1) \in Int
    BY <1>3, <1>4
<1>7. i - j < Modulo
    BY <1>2, <1>3, <1>5, <1>6, TrackersAssumption
<1>8. j - i < Modulo
    BY <1>3, TrackersAssumption
<1>9. QED  BY <1>1, <1>2, <1>3, <1>7, <1>8, SameRemainder

(* The distance of the number of a delivered message to the expected one: small if it      *)
(* is new, and in the upper half if it is late.                                   *)
LEMMA DistanceTold ==
    ASSUME NumbersInv, delivered # {}, NEW i \in 1..MaxMessages,
           i \in (Highest - Reach)..(Highest + 1 + Reach)
    PROVE  /\ expected # NoNumber
           /\ i % Modulo = expected <=> i = Highest + 1
           /\ i > Highest => /\ ForwardDistance(i % Modulo) = i - Highest - 1
                            /\ i - Highest - 1 \in 0..(Modulo \div 2 - 1)
           /\ i <= Highest => ForwardDistance(i % Modulo) \notin 0..(Modulo \div 2 - 1)
<1> DEFINE c == i - (Highest + 1)
<1>1. Highest \in Nat /\ i \in Int /\ Highest + 1 \in Int /\ Reach \in Nat
    BY SizesTyped, HighestTyped DEF NumbersInv
<1>2. Modulo \in Nat /\ Modulo = 2 * (Modulo \div 2) /\ Modulo \div 2 \in Nat
    BY TrackersAssumption
<1>3. Reach + 1 <= Modulo \div 2 - 1
    BY <1>1, <1>2, TrackersAssumption
<1>4. expected = (Highest + 1) % Modulo /\ expected \in 0..(Modulo - 1)
    BY <1>1, Divided DEF NumbersInv, NextExpected
<1>5. c \in -(Reach + 1)..Reach
    BY <1>1
<1>6. c \in (-Modulo)..(Modulo - 1)
    BY <1>1, <1>2, <1>3, <1>5
<1>7. ForwardDistance(i % Modulo) = c % Modulo
    BY <1>1, <1>4, RemainderOfDifference DEF ForwardDistance
<1>8. c % Modulo = IF c >= 0 THEN c ELSE c + Modulo
    BY <1>6, Wrapped
<1>9. i % Modulo = expected <=> i = Highest + 1
  <2>1. ASSUME i % Modulo = expected PROVE i = Highest + 1
    <3>1. i - (Highest + 1) < Modulo /\ (Highest + 1) - i < Modulo
        BY <1>1, <1>2, <1>3, <1>5
    <3>2. QED  BY <1>1, <1>4, <2>1, <3>1, SameRemainder
  <2>2. QED  BY <1>4, <2>1
<1> HIDE DEF c
<1>10. /\ i > Highest <=> c >= 0
       /\ c = i - Highest - 1
    BY <1>1 DEF c
<1>11. /\ c >= 0 => c \in 0..(Modulo \div 2 - 1)
       /\ c < 0 => c + Modulo \notin 0..(Modulo \div 2 - 1)
    BY <1>1, <1>2, <1>3, <1>5
<1>12. expected # NoNumber
    BY <1>2, <1>4 DEF NoNumber
<1>13. QED  BY <1>1, <1>5, <1>7, <1>8, <1>9, <1>10, <1>11, <1>12

(* What observe of the sequence tracker answers, and remembers, for one delivered message.    *)
LEMMA NumberAnswered ==
    ASSUME NumbersInv, NEW i \in 1..MaxMessages, Deliver(i)
    PROVE  \/ /\ i \in delivered /\ observation'.status = "duplicate"
              /\ i <= Highest /\ UNCHANGED <<expected, recent>>
           \/ /\ delivered = {} /\ observation'.status = "first"
              /\ expected' = ((i % Modulo) + 1) % Modulo /\ recent' = Remember(recent, i % Modulo)
           \/ /\ delivered # {} /\ i = Highest + 1 /\ observation'.status = "in_order"
              /\ expected' = ((i % Modulo) + 1) % Modulo /\ recent' = Remember(recent, i % Modulo)
           \/ /\ delivered # {} /\ i > Highest + 1
              /\ observation' = [status |-> "gap", missing |-> i - Highest - 1]
              /\ expected' = ((i % Modulo) + 1) % Modulo /\ recent' = Remember(recent, i % Modulo)
           \/ /\ delivered # {} /\ i <= Highest /\ observation'.status = "out_of_order"
              /\ UNCHANGED expected /\ recent' = Remember(recent, i % Modulo)
<1> DEFINE n == i % Modulo
<1>0. i \in (Highest - Reach)..(Highest + 1 + Reach) /\ Observe(n)
    BY DEF Deliver
<1>1. /\ HighestDelivered /\ TrackersShape /\ i \in Nat /\ Highest \in Nat
      /\ \A j \in delivered : j <= Highest
    BY SizesTyped, HighestTyped DEF NumbersInv
<1>2. CASE n \in ToSet(recent)
  <2>1. i \in delivered
      BY <1>0, <1>2, RememberedWasDelivered
  <2>2. Answer("duplicate", 0) /\ UNCHANGED <<expected, recent>>
      BY <1>0, <1>2 DEF Observe
  <2>3. QED  BY <1>1, <2>1, <2>2 DEF Answer
<1>3. CASE n \notin ToSet(recent) /\ delivered = {}
  <2>1. expected = NoNumber
      BY <1>3 DEF NumbersInv, NextExpected
  <2>2. Advance(n) /\ Answer("first", 0) /\ recent' = Remember(recent, n)
      BY <1>0, <1>3, <2>1 DEF Observe
  <2>3. QED  BY <1>3, <2>2 DEF Advance, Answer
<1>4. CASE n \notin ToSet(recent) /\ delivered # {}
  <2>1. /\ expected # NoNumber
        /\ n = expected <=> i = Highest + 1
        /\ i > Highest => /\ ForwardDistance(n) = i - Highest - 1
                         /\ i - Highest - 1 \in 0..(Modulo \div 2 - 1)
        /\ i <= Highest => ForwardDistance(n) \notin 0..(Modulo \div 2 - 1)
      BY <1>0, <1>4, DistanceTold
  <2>2. recent' = Remember(recent, n)
      BY <1>0, <1>4 DEF Observe
  <2>3. CASE i = Highest + 1
    <3>1. Advance(n) /\ Answer("in_order", 0)
        BY <1>0, <1>4, <2>1, <2>3 DEF Observe
    <3>2. QED  BY <1>4, <2>2, <2>3, <3>1 DEF Advance, Answer
  <2>4. CASE i > Highest + 1
    <3>1. n # expected /\ i > Highest
        BY <1>1, <2>1, <2>4
    <3>2. Advance(n) /\ Answer("gap", i - Highest - 1)
        BY <1>0, <1>4, <2>1, <3>1 DEF Observe
    <3>3. QED  BY <1>4, <2>2, <2>4, <3>2 DEF Advance, Answer
  <2>5. CASE i <= Highest
    <3>1. n # expected
        BY <1>1, <2>1, <2>5
    <3>2. Answer("out_of_order", 0) /\ UNCHANGED expected
        BY <1>0, <1>4, <2>1, <2>5, <3>1 DEF Observe
    <3>3. QED  BY <1>4, <2>2, <2>5, <3>2 DEF Answer
  <2>6. QED  BY <1>1, <2>3, <2>4, <2>5
<1> HIDE DEF n
<1>5. QED  BY <1>2, <1>3, <1>4 DEF n

(* The history moves on by one with the message delivered.                             *)
LEMMA LatelyKept ==
    ASSUME NumbersInv, NEW i \in 1..MaxMessages, Deliver(i),
           recent' = Remember(recent, i % Modulo)
    PROVE  LatelyDelivered' /\ recent' \in Seq(0..(Modulo - 1)) /\ Len(recent') <= HistorySize
<1> DEFINE n == i % Modulo
<1> DEFINE all == Append(recent, n)
<1> DEFINE h == IF i > Highest THEN i ELSE Highest
<1> DEFINE L == Len(recent)
<1>1. /\ i \in Nat /\ Highest \in Nat /\ Reach \in Nat /\ HistorySize \in Nat /\ HistorySize > 0
      /\ i >= Highest - Reach /\ i <= Highest + 1 + Reach /\ delivered' = delivered \cup {i}
      /\ n \in 0..(Modulo - 1) /\ delivered \subseteq Nat
    BY SizesTyped, HighestTyped, Divided DEF NumbersInv, Deliver
<1>2. Highest' = h
    BY <1>1, HighestKept DEF NumbersInv
<1>3. /\ recent \in Seq(0..(Modulo - 1)) /\ L \in Nat /\ L <= HistorySize
    BY DEF NumbersInv, TrackersShape
<1>4. /\ all \in Seq(0..(Modulo - 1)) /\ Len(all) = L + 1
      /\ \A k \in 1..L : all[k] = recent[k]
      /\ all[L + 1] = n
    BY <1>1, <1>3
<1>5. ASSUME NEW k \in 1..(L + 1)
      PROVE  \E j \in delivered' :
                all[k] = j % Modulo /\ h <= j + Reach + ((L + 1) - k) * (Reach + 1)
  <2>1. CASE k = L + 1
    <3>1. h <= i + Reach + ((L + 1) - k) * (Reach + 1)
        BY <1>1, <1>3, <2>1
    <3>2. QED  BY <1>1, <1>4, <2>1, <3>1
  <2>2. CASE k \in 1..L
    <3>1. PICK j \in delivered : /\ recent[k] = j % Modulo
                                 /\ Highest <= j + Reach + (L - k) * (Reach + 1)
        BY <2>2 DEF NumbersInv, LatelyDelivered, Ago
    <3>2. h <= Highest + (Reach + 1) /\ h \in Nat
        BY <1>1
    <3>3. /\ (L - k) * (Reach + 1) \in Int
          /\ ((L + 1) - k) * (Reach + 1) = (L - k) * (Reach + 1) + (Reach + 1)
        BY <1>1, <1>3, <2>2
    <3>4. j \in Nat
        BY <1>1
    <3> HIDE DEF h, L
    <3>5. h <= j + Reach + ((L + 1) - k) * (Reach + 1)
        BY <1>1, <3>1, <3>2, <3>3, <3>4
    <3>6. QED  BY <1>1, <1>4, <2>2, <3>1, <3>5
  <2>3. QED  BY <1>3, <2>1, <2>2
<1> HIDE DEF all, h, n
<1>6. CASE L + 1 <= HistorySize
  <2>1. recent' = all
      BY <1>3, <1>4, <1>6 DEF Remember, all, n
  <2>2. QED  BY <1>2, <1>3, <1>4, <1>5, <1>6, <2>1 DEF LatelyDelivered, Ago
<1>7. CASE L = HistorySize
  <2>1. recent' = Tail(all)
      BY <1>1, <1>3, <1>4, <1>7 DEF Remember, all, n
  <2>2. /\ Tail(all) \in Seq(0..(Modulo - 1)) /\ Len(Tail(all)) = L
        /\ \A k \in 1..L : Tail(all)[k] = all[k + 1]
    <3>1. all # <<>>
        BY <1>3, <1>4
    <3>2. QED  BY <1>3, <1>4, <3>1, HeadTailProperties
  <2>3. ASSUME NEW k \in 1..L
        PROVE  \E j \in delivered' :
                  Tail(all)[k] = j % Modulo /\ h <= j + Reach + (L - k) * (Reach + 1)
    <3>1. k + 1 \in 1..(L + 1) /\ (L + 1) - (k + 1) = L - k
        BY <1>3
    <3>2. PICK j \in delivered' : all[k + 1] = j % Modulo
                                  /\ h <= j + Reach + ((L + 1) - (k + 1)) * (Reach + 1)
        BY <1>5, <3>1
    <3>3. QED  BY <2>2, <3>1, <3>2
  <2>4. Len(recent') = L /\ recent' \in Seq(0..(Modulo - 1)) /\ L <= HistorySize
      BY <1>3, <2>1, <2>2
  <2>5. \A k \in 1..Len(recent') : \E j \in delivered' :
            recent'[k] = j % Modulo /\ Highest' <= j + Reach + (Len(recent') - k) * (Reach + 1)
      BY <1>2, <2>1, <2>3, <2>4
  <2>6. LatelyDelivered'
      BY <2>5 DEF LatelyDelivered, Ago
  <2>7. QED  BY <2>4, <2>6
<1>8. QED  BY <1>3, <1>1, <1>6, <1>7

(* A delivery is classified rightly and keeps the invariant.                             *)
LEMMA DeliverNumbers ==
    ASSUME NumbersInv, NEW i \in 1..MaxMessages, Deliver(i)
    PROVE  NumbersInv' /\ NumbersClassified'
<1> DEFINE n == i % Modulo
<1>1. /\ i \in Nat /\ i >= 1 /\ Highest \in Nat
      /\ delivered' = delivered \cup {i} /\ i % Modulo \in 0..(Modulo - 1)
      /\ truth' = [skipped |-> i - Highest - 1, again |-> i \in delivered]
      /\ \A j \in delivered : j <= Highest
      /\ HighestDelivered /\ TrackersShape
    BY SizesTyped, HighestTyped, Divided DEF NumbersInv, Deliver
<1>2. /\ HighestDelivered' /\ delivered' # {} /\ Highest' = IF i > Highest THEN i ELSE Highest
    BY <1>1, HighestKept
<1>3. delivered' \subseteq 1..MaxMessages
    BY <1>1 DEF TrackersShape
<1>4. /\ truth'.skipped = i - Highest - 1 /\ (i \in delivered => truth'.again)
    BY <1>1
<1>5. ((i % Modulo) + 1) % Modulo = (i + 1) % Modulo
    BY <1>1, RemainderOfSum
<1>6. CASE /\ i \in delivered /\ observation'.status = "duplicate"
           /\ i <= Highest /\ UNCHANGED <<expected, recent>>
  <2>1. Highest' = Highest /\ delivered # {} /\ delivered' = delivered
      BY <1>1, <1>2, <1>6
  <2>2. NextExpected' /\ LatelyDelivered' /\ TrackersShape'
      BY <1>6, <2>1 DEF NumbersInv, NextExpected, LatelyDelivered, TrackersShape, Ago
  <2>3. NumbersClassified'
      BY <1>1, <1>4, <1>6 DEF NumbersClassified
  <2>4. QED  BY <1>2, <2>2, <2>3 DEF NumbersInv
<1>7. CASE /\ recent' = Remember(recent, i % Modulo)
           /\ i > Highest /\ expected' = ((i % Modulo) + 1) % Modulo
           /\ \/ delivered = {} /\ observation'.status = "first"
              \/ i = Highest + 1 /\ observation'.status = "in_order"
              \/ i > Highest + 1
                 /\ observation' = [status |-> "gap", missing |-> i - Highest - 1]
  <2>1. NextExpected'
      BY <1>1, <1>2, <1>5, <1>7 DEF NextExpected
  <2>2. LatelyDelivered' /\ TrackersShape'
      BY <1>3, <1>7, LatelyKept DEF TrackersShape
  <2>3. NumbersClassified'
      BY <1>1, <1>4, <1>7 DEF NumbersClassified
  <2>4. QED  BY <1>2, <2>1, <2>2, <2>3 DEF NumbersInv
<1>8. CASE /\ delivered # {} /\ i <= Highest /\ observation'.status = "out_of_order"
           /\ UNCHANGED expected /\ recent' = Remember(recent, i % Modulo)
  <2>1. NextExpected'
      BY <1>1, <1>2, <1>8 DEF NumbersInv, NextExpected
  <2>2. LatelyDelivered' /\ TrackersShape'
      BY <1>3, <1>8, LatelyKept DEF TrackersShape
  <2>3. NumbersClassified'
      BY <1>1, <1>4, <1>8 DEF NumbersClassified
  <2>4. QED  BY <1>2, <2>1, <2>2, <2>3 DEF NumbersInv
<1>9. delivered = {} => i > Highest
    BY <1>1 DEF HighestDelivered
<1>10. QED  BY <1>1, <1>6, <1>7, <1>8, <1>9, NumberAnswered

(* So does every step; NumbersClassified is part of the induction for what a step        *)
(* leaves unchanged.                                                             *)
LEMMA NumbersStep ==
    NumbersInv /\ NumbersClassified /\ [TrackersNext]_trackersVars
        => NumbersInv' /\ NumbersClassified'
<1> SUFFICES ASSUME NumbersInv, NumbersClassified, [TrackersNext]_trackersVars
             PROVE  NumbersInv' /\ NumbersClassified'
    OBVIOUS
<1>1. ASSUME UNCHANGED <<expected, recent, observation, delivered, truth>>
      PROVE  NumbersInv' /\ NumbersClassified'
    BY <1>1 DEF NumbersInv, NumbersClassified, TrackersShape, HighestDelivered, NextExpected,
                LatelyDelivered, Ago, Highest
<1>2. CASE Snapshot \/ UNCHANGED trackersVars
    BY <1>1, <1>2 DEF Snapshot, trackersVars
<1>3. QED  BY <1>2, DeliverNumbers DEF TrackersNext

(* Nothing is expected at first.                                                     *)
LEMMA NumbersStart == TrackersInit => NumbersInv /\ NumbersClassified
    BY SizesTyped, EmptySeq DEF TrackersInit, NumbersInv, NumbersClassified, TrackersShape,
       HighestDelivered, NextExpected, LatelyDelivered, Highest

(* The bridge's sequence tracker tells new, late and repeated messages apart and counts what   *)
(* was skipped, however often the numbers have wrapped, for any modulus, history and reach    *)
(* of the reordering that satisfy TrackersAssumption (SequenceTracker.observe).        *)
THEOREM NumbersAlwaysClassified == TrackersSpec => []NumbersClassified
<1>1. TrackersSpec => [](NumbersInv /\ NumbersClassified)
    BY NumbersStart, NumbersStep, PTL DEF TrackersSpec
<1>2. QED  BY <1>1, PTL

(* The numbers' invariant alone, for the counts of the logger.                            *)
LEMMA NumbersInductive == TrackersSpec => []NumbersInv
<1>1. TrackersSpec => [](NumbersInv /\ NumbersClassified)
    BY NumbersStart, NumbersStep, PTL DEF TrackersSpec
<1>2. QED  BY <1>1, PTL
-----------------------------------------------------------------------------
(* The library's minimum and maximum.                                              *)
LEMMA MinimumIs ==
    ASSUME NEW S \in SUBSET Int, NEW a \in S, \A j \in S : a <= j
    PROVE  Min(S) = a
<1>1. \A g \in S : (\A j \in S : g <= j) => g = a
    OBVIOUS
<1>2. QED  BY <1>1 DEF Min

LEMMA MaximumIs ==
    ASSUME NEW S \in SUBSET Int, NEW a \in S, \A j \in S : j <= a
    PROVE  Max(S) = a
<1>1. \A g \in S : (\A j \in S : g >= j) => g = a
    OBVIOUS
<1>2. QED  BY <1>1 DEF Max

(* Of the messages delivered there is a lowest.                                      *)
LowestDelivered == delivered # {} => \E a \in delivered : \A j \in delivered : a <= j

(* A delivery that is higher than all before adds what lies between to the missing.         *)
LEMMA DeliverCounts ==
    ASSUME NumbersInv, CountsInv, LowestDelivered, NEW i \in 1..MaxMessages, Deliver(i)
    PROVE  CountsInv' /\ LowestDelivered'
<1>1. /\ i \in Nat /\ i >= 1 /\ Highest \in Nat
      /\ \A j \in delivered : j \in Nat /\ 1 <= j /\ j <= Highest
      /\ delivered = {} => Highest = 0
      /\ delivered # {} => Highest \in delivered
      /\ delivered' = delivered \cup {i} /\ last_publication' = i /\ UNCHANGED reported
      /\ missing' = IF last_publication # 0 /\ i > last_publication + 1
                    THEN missing + (i - last_publication - 1) ELSE missing
      /\ i > Highest \/ disorder < MaxLate
      /\ disorder' = IF i > Highest THEN disorder ELSE disorder + 1
    BY SizesTyped, HighestTyped DEF NumbersInv, Deliver, ObservePublication
<1>2. delivered' # {} /\ Highest' = IF i > Highest THEN i ELSE Highest
    BY <1>1, HighestKept DEF NumbersInv
<1>3. LowestDelivered'
  <2>1. CASE delivered = {}
      BY <1>1, <2>1 DEF LowestDelivered
  <2>2. CASE delivered # {}
    <3>1. PICK a \in delivered : \A j \in delivered : a <= j
        BY <2>2 DEF LowestDelivered
    <3>2. CASE i < a
      <4>1. \A j \in delivered' : i <= j
          BY <1>1, <3>1, <3>2
      <4>2. QED  BY <1>1, <4>1 DEF LowestDelivered
    <3>3. CASE a <= i
      <4>1. \A j \in delivered' : a <= j
          BY <1>1, <3>1, <3>3
      <4>2. QED  BY <1>1, <4>1 DEF LowestDelivered
    <3>4. QED  BY <1>1, <3>2, <3>3
  <2>3. QED  BY <2>1, <2>2
<1>4. missing' \in Nat /\ reported' \in Nat /\ disorder' \in Nat /\ last_publication' \in Nat
  <2>1. /\ missing \in Nat /\ reported \in Nat /\ disorder \in Nat
        /\ last_publication \in Nat
      BY <1>1 DEF CountsInv
  <2>2. QED  BY <1>1, <2>1
<1>5. ASSUME disorder' = 0 PROVE last_publication' = Highest' /\ MissingAreLost'
  <2>1. i > Highest /\ disorder = 0
      BY <1>1, <1>5 DEF CountsInv
  <2>2. Max(delivered') = i
    <3>1. delivered' \subseteq Int /\ i \in delivered' /\ \A j \in delivered' : j <= i
        BY <1>1, <2>1
    <3>2. QED  BY <3>1, MaximumIs
  <2>3. CASE delivered = {}
    <3>1. Min(delivered') = i
      <4>1. delivered' = {i} /\ i \in Int
          BY <1>1, <2>3
      <4>2. QED  BY <4>1, MinimumIs
    <3>2. (i..i) \ delivered' = {}
        BY <1>1, <2>3
    <3>3. missing' = missing /\ reported' + missing' = 0
        BY <1>1, <2>3 DEF CountsInv
    <3>4. Cardinality((Min(delivered')..Max(delivered')) \ delivered') = 0
        BY <2>2, <3>1, <3>2, FS_EmptySet
    <3>5. QED  BY <1>1, <1>2, <2>1, <3>3, <3>4 DEF MissingAreLost
  <2>4. CASE delivered # {}
    <3>1. PICK a \in delivered : \A j \in delivered : a <= j
        BY <2>4 DEF LowestDelivered
    <3>2. Min(delivered) = a /\ Max(delivered) = Highest /\ Min(delivered') = a
      <4>1. /\ delivered \subseteq Int /\ delivered' \subseteq Int /\ a \in delivered'
            /\ \A j \in delivered' : a <= j
          BY <1>1, <2>1, <3>1
      <4>2. QED  BY <1>1, <2>4, <3>1, <4>1, MinimumIs, MaximumIs
    <3> DEFINE before == (a..Highest) \ delivered
    <3> DEFINE skipped == (Highest + 1)..(i - 1)
    <3>3. (a..i) \ delivered' = before \cup skipped /\ before \cap skipped = {}
        BY <1>1, <2>1, <2>4, <3>1
    <3>4. IsFiniteSet(before) /\ IsFiniteSet(skipped)
          /\ Cardinality(skipped) = i - Highest - 1
      <4>1. IsFiniteSet(a..Highest)
          BY <1>1, FS_Interval
      <4>2. IsFiniteSet(before)
          BY <4>1, FS_Subset
      <4>3. Highest + 1 \in Int /\ i - 1 \in Int
          BY <1>1
      <4>4. IsFiniteSet(skipped) /\ Cardinality(skipped) =
                IF Highest + 1 > i - 1 THEN 0 ELSE (i - 1) - (Highest + 1) + 1
          BY <4>3, FS_Interval
      <4>5. QED  BY <1>1, <2>1, <4>2, <4>4
    <3>5. Cardinality(before \cup skipped) = Cardinality(before) + (i - Highest - 1)
          /\ Cardinality(before) \in Nat
      <4>1. Cardinality(before \cup skipped) =
                Cardinality(before) + Cardinality(skipped) - Cardinality(before \cap skipped)
          BY <3>4, FS_Union
      <4>2. Cardinality(before \cap skipped) = 0
          BY <3>3, FS_EmptySet
      <4>3. Cardinality(before) \in Nat
          BY <3>4, FS_CardinalityType
      <4>4. QED  BY <1>1, <3>4, <4>1, <4>2, <4>3
    <3>6. reported + missing = Cardinality(before) /\ last_publication = Highest
        BY <2>1, <2>4, <3>2 DEF CountsInv, MissingAreLost
    <3>7. missing' = missing + (i - Highest - 1)
      <4>1. missing \in Nat /\ Highest # 0
          BY <1>1, <2>4 DEF CountsInv
      <4>2. QED  BY <1>1, <2>1, <3>6, <4>1
    <3>8. reported' + missing' = Cardinality((a..i) \ delivered')
      <4>1. missing \in Nat /\ reported \in Nat
          BY DEF CountsInv
      <4>2. QED  BY <1>1, <3>3, <3>5, <3>6, <3>7, <4>1
    <3>9. QED  BY <1>1, <1>2, <2>1, <2>2, <3>2, <3>8 DEF MissingAreLost
  <2>5. QED  BY <2>3, <2>4
<1>6. QED  BY <1>2, <1>3, <1>4, <1>5 DEF CountsInv

(* A snapshot moves the missing of its window to those reported.                         *)
LEMMA CountsStep ==
    NumbersInv /\ CountsInv /\ LowestDelivered /\ [TrackersNext]_trackersVars
        => CountsInv' /\ LowestDelivered'
<1> SUFFICES ASSUME NumbersInv, CountsInv, LowestDelivered, [TrackersNext]_trackersVars
             PROVE  CountsInv' /\ LowestDelivered'
    OBVIOUS
<1>1. CASE Snapshot
  <2>1. /\ missing' = 0 /\ reported' = reported + missing /\ missing \in Nat /\ reported \in Nat
        /\ UNCHANGED <<last_publication, delivered, disorder>>
      BY <1>1 DEF Snapshot, ResetWindow, CountsInv
  <2>2. reported' + missing' = reported + missing /\ reported' \in Nat
      BY <2>1
  <2>3. Highest' = Highest
      BY <2>1 DEF Highest
  <2>4. QED  BY <2>1, <2>2, <2>3 DEF CountsInv, LowestDelivered, MissingAreLost
<1>2. CASE UNCHANGED trackersVars
    BY <1>2 DEF trackersVars, CountsInv, LowestDelivered, MissingAreLost, Highest
<1>3. QED  BY <1>1, <1>2, DeliverCounts DEF TrackersNext

(* As long as no message comes late or twice, the logger's tracker counts exactly the messages  *)
(* that were lost between the first and the last, over all its windows, for any number of    *)
(* messages (DDSWriterTracker.observe, snapshot).                                *)
THEOREM MissingAlwaysLost == TrackersSpec => []MissingAreLost
<1>1. TrackersInit => CountsInv /\ LowestDelivered
    BY SizesTyped DEF TrackersInit, CountsInv, LowestDelivered
<1>2. CountsInv => MissingAreLost
    BY DEF CountsInv, MissingAreLost
<1>3. QED  BY <1>1, <1>2, CountsStep, NumbersInductive, PTL DEF TrackersSpec

(* The types of the trackers' state need the classification: a gap is as wide as it was answered. *)
TrackersTypeInv ==
    /\ NumbersInv /\ NumbersClassified
    /\ TrackersTypeOK

LEMMA DeliverTyped ==
    ASSUME NumbersInv, TrackersTypeOK, NEW i \in 1..MaxMessages, Deliver(i),
           TrackersShape'
    PROVE  TrackersTypeOK'
<1>1. /\ i \in Nat /\ i >= 1 /\ i <= MaxMessages /\ Highest \in Nat /\ MaxMessages \in Nat
      /\ Highest <= MaxMessages
  <2>1. MaxMessages \in Nat
      BY TrackersAssumption
  <2>2. Highest \in Nat /\ (delivered = {} => Highest = 0)
        /\ (delivered # {} => Highest \in delivered)
      BY HighestTyped DEF NumbersInv
  <2>3. delivered \subseteq 1..MaxMessages
      BY DEF TrackersTypeOK
  <2>4. QED  BY <2>1, <2>2, <2>3
<1>2. expected' \in 0..(Modulo - 1) \cup {NoNumber}
  <2>1. \A k \in Nat : k % Modulo \in 0..(Modulo - 1)
      BY TrackersAssumption
  <2>2. (i % Modulo) + 1 \in Nat
      BY <1>1, <2>1
  <2>3. ((i % Modulo) + 1) % Modulo \in 0..(Modulo - 1)
      BY <2>1, <2>2
  <2>4. UNCHANGED expected \/ expected' = ((i % Modulo) + 1) % Modulo
      BY NumberAnswered
  <2>5. QED  BY <2>3, <2>4 DEF TrackersTypeOK
<1>3. observation' \in Observed
  <2>1. \/ \E status \in Statuses : observation' = [status |-> status, missing |-> 0]
        \/ observation'.status = "gap"
      BY DEF Deliver, Observe, Answer, Statuses
  <2>2. observation'.status = "gap" =>
            observation' = [status |-> "gap", missing |-> i - Highest - 1] /\ i > Highest + 1
      BY NumberAnswered
  <2>3. i > Highest + 1 => i - Highest - 1 \in 0..MaxMessages
      BY <1>1
  <2>4. 0 \in 0..MaxMessages
      BY <1>1
  <2>5. QED  BY <2>1, <2>2, <2>3, <2>4 DEF Observed, Statuses
<1>4. last_publication' \in 0..MaxMessages /\ missing' \in Nat /\ UNCHANGED reported
  <2>1. last_publication' = i /\ UNCHANGED reported
        /\ missing' = IF last_publication # 0 /\ i > last_publication + 1
                      THEN missing + (i - last_publication - 1) ELSE missing
      BY DEF Deliver, ObservePublication
  <2>2. missing \in Nat /\ last_publication \in Nat
      BY <1>1 DEF TrackersTypeOK
  <2>3. QED  BY <1>1, <2>1, <2>2
<1>5. disorder' \in 0..MaxLate
  <2>1. MaxLate \in Nat /\ disorder \in 0..MaxLate
      BY TrackersAssumption DEF TrackersTypeOK
  <2>2. (i > Highest \/ disorder < MaxLate)
        /\ disorder' = IF i > Highest THEN disorder ELSE disorder + 1
      BY DEF Deliver
  <2>3. QED  BY <2>1, <2>2
<1>6. truth' \in [skipped : -MaxMessages..MaxMessages, again : BOOLEAN]
  <2>1. truth' = [skipped |-> i - Highest - 1, again |-> i \in delivered]
      BY DEF Deliver
  <2>2. i - Highest - 1 \in -MaxMessages..MaxMessages
      BY <1>1
  <2>3. (i \in delivered) \in BOOLEAN
      OBVIOUS
  <2>4. QED  BY <2>1, <2>2, <2>3
<1>7. QED
    BY <1>2, <1>3, <1>4, <1>5, <1>6 DEF TrackersTypeOK, TrackersShape

LEMMA TrackersTypeStep == TrackersTypeInv /\ [TrackersNext]_trackersVars => TrackersTypeInv'
<1> SUFFICES ASSUME TrackersTypeInv, [TrackersNext]_trackersVars PROVE TrackersTypeInv'
    OBVIOUS
<1>1. NumbersInv' /\ NumbersClassified'
    BY NumbersStep DEF TrackersTypeInv
<1>2. TrackersTypeOK'
  <2>1. ASSUME NEW i \in 1..MaxMessages, Deliver(i) PROVE TrackersTypeOK'
      BY <1>1, <2>1, DeliverTyped DEF TrackersTypeInv, NumbersInv
  <2>2. CASE Snapshot
    <3>1. /\ reported' = reported + missing /\ missing' = 0
          /\ UNCHANGED <<expected, recent, observation, last_publication, delivered, truth,
                         disorder>>
        BY <2>2 DEF Snapshot, ResetWindow
    <3>2. reported' \in Nat
        BY <3>1 DEF TrackersTypeInv, TrackersTypeOK
    <3>3. QED  BY <3>1, <3>2 DEF TrackersTypeInv, TrackersTypeOK
  <2>3. CASE UNCHANGED trackersVars
      BY <2>3 DEF trackersVars, TrackersTypeInv, TrackersTypeOK
  <2>4. QED  BY <2>1, <2>2, <2>3 DEF TrackersNext
<1>3. QED  BY <1>1, <1>2 DEF TrackersTypeInv

LEMMA TrackersTypeInit == TrackersInit => TrackersTypeInv
<1> SUFFICES ASSUME TrackersInit PROVE TrackersTypeInv
    OBVIOUS
<1>1. <<>> \in Seq(0..(Modulo - 1)) /\ Len(<<>>) = 0
    BY EmptySeq
<1>2. 0 \in 0..MaxMessages /\ 0 \in 0..MaxLate /\ 0 \in -MaxMessages..MaxMessages
      /\ HistorySize >= 0
    BY TrackersAssumption
<1>3. TrackersTypeOK
    BY <1>1, <1>2 DEF TrackersInit, TrackersTypeOK, Observed, Statuses
<1>4. QED  BY <1>3, NumbersStart DEF TrackersTypeInv

(* The types of the trackers' state: the deque never exceeds its length, nor a gap the stream.  *)
THEOREM TrackersTypeCorrect == TrackersSpec => []TrackersTypeOK
<1>1. TrackersTypeInv => TrackersTypeOK
    BY DEF TrackersTypeInv
<1>2. QED  BY <1>1, TrackersTypeInit, TrackersTypeStep, PTL DEF TrackersSpec
-----------------------------------------------------------------------------
(* A sum over a finite set, as the community modules define it: a function of the subsets that  *)
(* takes away one element after the other.                                       *)
Pick(s) == CHOOSE x \in s : TRUE

IsSum(sum, f, S) ==
    sum = [s \in SUBSET S |-> IF s = {} THEN 0 ELSE f[Pick(s)] + sum[s \ {Pick(s)}]]

(* An element taken away leaves one less.                                             *)
LEMMA PickOne ==
    ASSUME NEW s, IsFiniteSet(s), s # {}
    PROVE  /\ Pick(s) \in s /\ IsFiniteSet(s \ {Pick(s)})
           /\ Cardinality(s) \in Nat /\ Cardinality(s) # 0
           /\ Cardinality(s \ {Pick(s)}) = Cardinality(s) - 1
<1>1. Pick(s) \in s
    BY DEF Pick
<1>2. QED  BY <1>1, FS_RemoveElement, FS_EmptySet, FS_CardinalityType

(* There is such a function, built up by the cardinality of the subsets.                *)
LEMMA SumExists ==
    ASSUME NEW f, NEW S, IsFiniteSet(S)
    PROVE  \E sum : IsSum(sum, f, S)
<1> DEFINE Next(sum, s) == IF s = {} THEN 0 ELSE f[Pick(s)] + sum[s \ {Pick(s)}]
<1> DEFINE Upto(sum, n) == \A s \in SUBSET S : Cardinality(s) <= n => sum[s] = Next(sum, s)
<1> DEFINE Possible(n) == \E any : Upto(any, n)
<1> DEFINE Good == {n \in Nat : Possible(n)}
<1>1. \A s \in SUBSET S : IsFiniteSet(s) /\ Cardinality(s) \in Nat
    BY FS_Subset, FS_CardinalityType
<1>2. 0 \in Good
    <2> DEFINE sum == [s \in SUBSET S |-> 0]
    <2>1. \A s \in SUBSET S : Cardinality(s) <= 0 => s = {}
        BY <1>1, FS_EmptySet
    <2>2. Upto(sum, 0)
        BY <2>1
    <2>3. QED  BY <2>2
<1>3. ASSUME NEW n \in Nat, n \in Good PROVE n + 1 \in Good
    <2>0. Possible(n)
        <3> HIDE DEF Possible
        <3> QED  BY <1>3
    <2>1. PICK sum : Upto(sum, n)
        BY <2>0
    <2> DEFINE more == [s \in SUBSET S |-> IF Cardinality(s) <= n THEN sum[s] ELSE Next(sum, s)]
    <2>2. \A s \in SUBSET S : more[s] = Next(sum, s)
        BY <2>1
    <2>3. ASSUME NEW s \in SUBSET S, Cardinality(s) <= n + 1
          PROVE  more[s] = Next(more, s)
        <3>1. CASE s = {}
            BY <2>2, <3>1
        <3>2. CASE s # {}
            <4>1. s \ {Pick(s)} \in SUBSET S /\ Cardinality(s \ {Pick(s)}) <= n
                BY <1>1, <2>3, <3>2, PickOne
            <4>2. more[s \ {Pick(s)}] = sum[s \ {Pick(s)}]
                BY <4>1
            <4>3. QED  BY <2>2, <3>2, <4>2
        <3>3. QED  BY <3>1, <3>2
    <2> HIDE DEF more
    <2>4. Upto(more, n + 1)
        BY <2>3
    <2>5. Possible(n + 1)
        <3> HIDE DEF Upto
        <3> QED  BY <2>4
    <2> HIDE DEF Possible
    <2>6. QED  BY <2>5
<1>4. Cardinality(S) \in Good
    <2> HIDE DEF Good
    <2>1. Nat \subseteq Good
        BY <1>2, <1>3, SetInduction
    <2>2. QED  BY <1>1, <2>1
<1>5. PICK sum : Upto(sum, Cardinality(S))
    BY <1>4
<1> DEFINE all == [s \in SUBSET S |-> sum[s]]
<1>6. \A s \in SUBSET S : Cardinality(s) <= Cardinality(S)
    BY FS_Subset
<1>7. \A s \in SUBSET S : all[s] = Next(all, s)
    <2>1. \A s \in SUBSET S : s \ {Pick(s)} \in SUBSET S
        OBVIOUS
    <2>2. QED  BY <1>5, <1>6, <2>1
<1>8. IsSum(all, f, S)
    <2>1. all = [s \in SUBSET S |-> Next(all, s)]
        BY <1>7
    <2>2. QED  BY <2>1 DEF IsSum
<1>9. QED  BY <1>8

(* And the library's sum is its value at the whole set.                                 *)
LEMMA SumUnfold ==
    ASSUME NEW f, NEW S, IsFiniteSet(S)
    PROVE  \E sum : IsSum(sum, f, S) /\ SumFunctionOnSet(f, S) = sum[S]
<1> DEFINE iter == CHOOSE sum : IsSum(sum, f, S)
<1>1. IsSum(iter, f, S)
    BY SumExists
<1>2. SumFunctionOnSet(f, S) = iter[S]
    BY DEF SumFunctionOnSet, FoldFunctionOnSet, MapThenFoldSet, IsSum, Pick
<1>3. QED  BY <1>1, <1>2

(* Two sums that differ in one of their terms at most.                                *)
LEMMA SumsDiffer ==
    ASSUME NEW S, IsFiniteSet(S), NEW c, NEW f, NEW g,
           \A x \in S : f[x] \in Nat /\ g[x] \in Nat /\ (x # c => g[x] = f[x])
    PROVE  /\ SumFunctionOnSet(f, S) \in Nat /\ SumFunctionOnSet(g, S) \in Nat
           /\ c \in S => SumFunctionOnSet(g, S) + f[c] = SumFunctionOnSet(f, S) + g[c]
           /\ c \notin S => SumFunctionOnSet(g, S) = SumFunctionOnSet(f, S)
<1>1. PICK sum : IsSum(sum, f, S) /\ SumFunctionOnSet(f, S) = sum[S]
    BY SumUnfold
<1>2. PICK sum2 : IsSum(sum2, g, S) /\ SumFunctionOnSet(g, S) = sum2[S]
    BY SumUnfold
<1> DEFINE Differ(s) ==
        /\ sum[s] \in Nat /\ sum2[s] \in Nat
        /\ c \in s => sum2[s] + f[c] = sum[s] + g[c]
        /\ c \notin s => sum2[s] = sum[s]
<1> DEFINE Good == {n \in Nat : \A s \in SUBSET S : Cardinality(s) = n => Differ(s)}
<1>3. \A s \in SUBSET S : IsFiniteSet(s) /\ Cardinality(s) \in Nat
    BY FS_Subset, FS_CardinalityType
<1>4. 0 \in Good
    <2>1. \A s \in SUBSET S : Cardinality(s) = 0 => s = {}
        BY <1>3, FS_EmptySet
    <2>2. Differ({})
        BY <1>1, <1>2 DEF IsSum
    <2>3. QED  BY <2>1, <2>2
<1>5. ASSUME NEW n \in Nat, n \in Good PROVE n + 1 \in Good
    <2>1. ASSUME NEW s \in SUBSET S, Cardinality(s) = n + 1 PROVE Differ(s)
        <3> DEFINE x == Pick(s)
        <3> DEFINE rest == s \ {Pick(s)}
        <3>1. IsFiniteSet(s) /\ s # {}
            BY <1>3, <2>1, FS_EmptySet
        <3>2. x \in s /\ x \in S /\ rest \in SUBSET S /\ Cardinality(rest) = n
            BY <2>1, <3>1, PickOne
        <3>3. Differ(rest)
            BY <1>5, <3>2
        <3>4. sum[s] = f[x] + sum[rest] /\ sum2[s] = g[x] + sum2[rest]
            BY <1>1, <1>2, <3>1 DEF IsSum
        <3>5. f[x] \in Nat /\ g[x] \in Nat /\ (x # c => g[x] = f[x])
            BY <3>2
        <3>6. (c \in s <=> c = x \/ c \in rest) /\ ~(c = x /\ c \in rest)
            BY <3>2
        <3> HIDE DEF x, rest
        <3>7. CASE c = x
            BY <3>3, <3>4, <3>5, <3>6, <3>7
        <3>8. CASE c # x
            <4>1. c \in rest => f[c] \in Nat /\ g[c] \in Nat
                BY <3>2
            <4>2. QED  BY <3>3, <3>4, <3>5, <3>6, <3>8, <4>1
        <3>9. QED  BY <3>7, <3>8
    <2> HIDE DEF Differ
    <2>2. QED  BY <2>1
<1>6. Differ(S)
    <2> HIDE DEF Good, Differ
    <2>1. Cardinality(S) \in Good
        BY <1>3, <1>4, <1>5, SetInduction
    <2>2. QED  BY <2>1 DEF Good
<1>7. QED  BY <1>1, <1>2, <1>6

(* A sum of zeros.                                                            *)
LEMMA SumOfZeros ==
    ASSUME NEW S, IsFiniteSet(S), NEW f, \A x \in S : f[x] = 0
    PROVE  SumFunctionOnSet(f, S) = 0
<1>1. PICK sum : IsSum(sum, f, S) /\ SumFunctionOnSet(f, S) = sum[S]
    BY SumUnfold
<1> DEFINE Good == {n \in Nat : \A s \in SUBSET S : Cardinality(s) = n => sum[s] = 0}
<1>2. \A s \in SUBSET S : IsFiniteSet(s) /\ Cardinality(s) \in Nat
    BY FS_Subset, FS_CardinalityType
<1>3. 0 \in Good
    <2>1. \A s \in SUBSET S : Cardinality(s) = 0 => s = {}
        BY <1>2, FS_EmptySet
    <2>2. QED  BY <1>1, <2>1 DEF IsSum
<1>4. ASSUME NEW n \in Nat, n \in Good PROVE n + 1 \in Good
    <2>1. ASSUME NEW s \in SUBSET S, Cardinality(s) = n + 1 PROVE sum[s] = 0
        <3>1. IsFiniteSet(s) /\ s # {}
            BY <1>2, <2>1, FS_EmptySet
        <3>2. Pick(s) \in s /\ s \ {Pick(s)} \in SUBSET S
            BY <3>1, PickOne
        <3>3. Cardinality(s \ {Pick(s)}) = Cardinality(s) - 1
            BY <3>1, PickOne
        <3>4. Cardinality(s \ {Pick(s)}) = n /\ Pick(s) \in S
            BY <2>1, <3>2, <3>3
        <3>5. sum[s] = f[Pick(s)] + sum[s \ {Pick(s)}]
            BY <1>1, <3>1 DEF IsSum
        <3>6. QED  BY <1>4, <3>2, <3>4, <3>5
    <2>2. QED  BY <2>1
<1>5. Cardinality(S) \in Good
    <2> HIDE DEF Good
    <2>1. QED  BY <1>2, <1>3, <1>4, SetInduction
<1>6. QED  BY <1>1, <1>5

(* A term of a sum of naturals is no more than the sum.                               *)
LEMMA SumBounds ==
    ASSUME NEW S, IsFiniteSet(S), NEW f, \A x \in S : f[x] \in Nat, NEW c \in S
    PROVE  SumFunctionOnSet(f, S) \in Nat /\ f[c] <= SumFunctionOnSet(f, S)
<1> DEFINE less == [x \in S |-> IF x = c THEN 0 ELSE f[x]]
<1>1. \A x \in S : less[x] \in Nat /\ f[x] \in Nat /\ (x # c => f[x] = less[x])
    OBVIOUS
<1>2. less[c] = 0
    OBVIOUS
<1> HIDE DEF less
<1>3. /\ SumFunctionOnSet(less, S) \in Nat /\ SumFunctionOnSet(f, S) \in Nat
      /\ SumFunctionOnSet(f, S) + less[c] = SumFunctionOnSet(less, S) + f[c]
    BY <1>1, SumsDiffer
<1>4. QED  BY <1>1, <1>2, <1>3

(* The logger.  Of every kind as many messages are reported, or will be, as were heard;       *)
(* and a report that is emitted, or taken anew, overwrites no counter.                   *)
LoggerInv ==
    /\ heard \in [Kinds -> 0..MaxHeard] /\ tracked \subseteq Writers
    /\ window \in [Counters -> Nat] /\ captured \in [Counters -> Nat]
    /\ emitted \in [Counters -> Nat]
    /\ prime \in BOOLEAN /\ health \in {"none", "running", "done"}
    /\ capture \in {"idle", "taken", "pending"}
    /\ wifi_thread \in {"starting", "started", "reading", "ended"}
    /\ child \in {"none", "running", "terminated", "dead"}
    /\ stopping \in {"no", "asked", "waiting", "stopped"} /\ overlooked \in BOOLEAN
    /\ capture = "idle" => captured = NoCounts
    /\ capture = "taken" => captured["wifi"] = 0
    /\ \A kind \in Kinds : heard[kind] = SumFunctionOnSet(Reported, CountersOf(kind))

(* The counters of the kinds are apart.                                            *)
LEMMA CountersApart ==
    /\ \A kind \in Kinds : CountersOf(kind) \subseteq Counters /\ IsFiniteSet(CountersOf(kind))
    /\ \A kind, other \in Kinds :
          \A c \in CountersOf(kind) : c \in CountersOf(other) => kind = other
    /\ \A c \in Counters : \E kind \in Kinds : c \in CountersOf(kind)
    /\ "topic" \in CountersOf("topic") /\ "wifi" \in CountersOf("wifi")
    /\ \A c \in Writers \cup {"untracked"} : c \in CountersOf("tf")
<1>1. /\ CountersOf("topic") = {"topic"} /\ CountersOf("wifi") = {"wifi"}
      /\ CountersOf("tf") = Writers \cup {"untracked"}
    BY DEF CountersOf
<1>2. /\ IsFiniteSet({"topic"}) /\ IsFiniteSet({"wifi"}) /\ IsFiniteSet({"untracked"})
      /\ IsFiniteSet(Writers)
    BY LoggerAssumption, FS_Singleton
<1>3. IsFiniteSet(Writers \cup {"untracked"})
    BY <1>2, FS_Union
<1>4. \A kind \in Kinds : CountersOf(kind) \subseteq Counters /\ IsFiniteSet(CountersOf(kind))
    BY <1>1, <1>2, <1>3 DEF Kinds, Counters
<1>5. \A kind, other \in Kinds :
          \A c \in CountersOf(kind) : c \in CountersOf(other) => kind = other
    BY <1>1, LoggerAssumption DEF Kinds
<1>6. \A c \in Counters : \E kind \in Kinds : c \in CountersOf(kind)
    BY <1>1 DEF Kinds, Counters
<1>7. QED  BY <1>1, <1>4, <1>5, <1>6

(* The invariant holds at first, and what each action does to the counters keeps it.       *)
LEMMA LoggerInvInit == LoggerInit => LoggerInv
<1> SUFFICES ASSUME LoggerInit PROVE LoggerInv
    OBVIOUS
<1>1. NoCounts \in [Counters -> Nat] /\ [k \in Kinds |-> 0] \in [Kinds -> 0..MaxHeard]
    BY LoggerAssumption DEF NoCounts
<1>2. \A c \in Counters : Reported[c] = 0
    BY DEF LoggerInit, Reported, NoCounts
<1>3. ASSUME NEW kind \in Kinds PROVE SumFunctionOnSet(Reported, CountersOf(kind)) = 0
    <2>1. IsFiniteSet(CountersOf(kind)) /\ \A x \in CountersOf(kind) : Reported[x] = 0
        BY <1>2, CountersApart
    <2>2. QED  BY <2>1, SumOfZeros
<1>4. QED  BY <1>1, <1>3 DEF LoggerInit, LoggerInv

(* A message that is heard is counted once, under its kind.                             *)
LEMMA HearCounts ==
    ASSUME LoggerInv, NEW kind \in Kinds, NEW counter \in CountersOf(kind), Hear(kind, counter)
    PROVE  /\ heard' \in [Kinds -> 0..MaxHeard] /\ window' \in [Counters -> Nat]
           /\ \A other \in Kinds : heard'[other] = SumFunctionOnSet(Reported', CountersOf(other))
<1>1. counter \in Counters
    BY CountersApart
<1>2. heard[kind] < MaxHeard
    <2>1. IsFiniteSet(Kinds)
        <3>1. IsFiniteSet({"topic"})
            BY FS_Singleton
        <3>2. IsFiniteSet({"topic"} \cup {"tf"})
            BY <3>1, FS_AddElement
        <3>3. IsFiniteSet(({"topic"} \cup {"tf"}) \cup {"wifi"})
            BY <3>2, FS_AddElement
        <3>4. Kinds = ({"topic"} \cup {"tf"}) \cup {"wifi"}
            BY DEF Kinds
        <3>5. QED  BY <3>3, <3>4
    <2>2. DOMAIN heard = Kinds /\ \A k \in Kinds : heard[k] \in Nat
        BY LoggerAssumption DEF LoggerInv
    <2>3. SumFunctionOnSet(heard, Kinds) \in Nat /\ heard[kind] <= SumFunctionOnSet(heard, Kinds)
        BY <2>1, <2>2, SumBounds
    <2>4. SumFunctionOnSet(heard, Kinds) < MaxHeard
        BY <2>2 DEF Hear, SumFunction
    <2>5. QED  BY <2>2, <2>3, <2>4, LoggerAssumption
<1>3. heard' \in [Kinds -> 0..MaxHeard]
    BY <1>2, LoggerAssumption DEF LoggerInv, Hear
<1>4. window' \in [Counters -> Nat]
    BY <1>1 DEF LoggerInv, Hear
<1>5. \A x \in Counters : Reported[x] \in Nat /\ Reported'[x] \in Nat
                          /\ Reported'[x] = Reported[x] + (IF x = counter THEN 1 ELSE 0)
    <2> SUFFICES ASSUME NEW x \in Counters
                 PROVE  Reported[x] \in Nat /\ Reported'[x] \in Nat
                        /\ Reported'[x] = Reported[x] + (IF x = counter THEN 1 ELSE 0)
        OBVIOUS
    <2>1. emitted[x] \in Nat /\ captured[x] \in Nat /\ window[x] \in Nat
        BY DEF LoggerInv
    <2>2. /\ emitted' = emitted /\ captured' = captured
          /\ window'[x] = window[x] + (IF x = counter THEN 1 ELSE 0)
        BY <1>1 DEF Hear, LoggerInv
    <2>3. Reported[x] = emitted[x] + captured[x] + window[x]
          /\ Reported'[x] = emitted'[x] + captured'[x] + window'[x]
        BY DEF Reported
    <2>4. QED  BY <2>1, <2>2, <2>3
<1>6. ASSUME NEW other \in Kinds
      PROVE  heard'[other] = SumFunctionOnSet(Reported', CountersOf(other))
    <2>1. IsFiniteSet(CountersOf(other)) /\ CountersOf(other) \subseteq Counters
        BY CountersApart
    <2>2. \A x \in CountersOf(other) :
              Reported[x] \in Nat /\ Reported'[x] \in Nat
              /\ (x # counter => Reported'[x] = Reported[x])
        BY <1>5, <2>1
    <2> DEFINE before == SumFunctionOnSet(Reported, CountersOf(other))
    <2> DEFINE after == SumFunctionOnSet(Reported', CountersOf(other))
    <2>3. /\ before \in Nat /\ after \in Nat
          /\ counter \in CountersOf(other) =>
                after + Reported[counter] = before + Reported'[counter]
          /\ counter \notin CountersOf(other) => after = before
        BY <2>1, <2>2, SumsDiffer
    <2>4. counter \in CountersOf(other) <=> other = kind
        BY CountersApart
    <2>8. Reported[counter] \in Nat /\ Reported'[counter] = Reported[counter] + 1
        BY <1>1, <1>5
    <2>5. heard[other] = SumFunctionOnSet(Reported, CountersOf(other)) /\ heard[other] \in Nat
        BY LoggerAssumption DEF LoggerInv
    <2>6. heard'[other] = IF other = kind THEN heard[other] + 1 ELSE heard[other]
        BY DEF Hear, LoggerInv
    <2> HIDE DEF before, after
    <2>7. after = heard'[other]
        BY <2>3, <2>4, <2>5, <2>6, <2>8 DEF before
    <2>9. QED  BY <2>7 DEF after
<1>7. QED  BY <1>3, <1>4, <1>6

(* What moves counters between the windows and the reports moves all of them.             *)
LEMMA MovedCounts ==
    ASSUME LoggerInv, heard' = heard,
           \A c \in Counters : emitted'[c] + captured'[c] + window'[c]
                                  = emitted[c] + captured[c] + window[c]
    PROVE  \A kind \in Kinds : heard'[kind] = SumFunctionOnSet(Reported', CountersOf(kind))
<1>1. Reported' = Reported
    BY DEF Reported
<1>2. QED  BY <1>1 DEF LoggerInv

(* Reporting moves the counts of the window into the report taken.                       *)
LEMMA ReportStep ==
    ASSUME LoggerInv, ReportTimer \/ ReportCaptured \/ FlushPendingReport
    PROVE  LoggerInv'
<1>1. CASE ReportTimer
    <2>1. captured = NoCounts /\ "wifi" \in Counters /\ NoCounts \in [Counters -> Nat]
        BY <1>1 DEF LoggerInv, ReportTimer, Counters, NoCounts
    <2>2. /\ captured' = [window EXCEPT !["wifi"] = 0]
          /\ window' = [NoCounts EXCEPT !["wifi"] = window["wifi"]]
          /\ emitted' = emitted /\ heard' = heard
        BY <1>1 DEF ReportTimer
    <2>3. window' \in [Counters -> Nat] /\ captured' \in [Counters -> Nat] /\ captured'["wifi"] = 0
        BY <2>1, <2>2 DEF LoggerInv
    <2>4. ASSUME NEW c \in Counters
          PROVE  emitted'[c] + captured'[c] + window'[c] = emitted[c] + captured[c] + window[c]
        <3>1. emitted[c] \in Nat /\ window[c] \in Nat /\ captured[c] = 0
            BY <2>1 DEF LoggerInv, NoCounts
        <3>2. /\ captured'[c] = IF c = "wifi" THEN 0 ELSE window[c]
              /\ window'[c] = IF c = "wifi" THEN window[c] ELSE 0
            BY <2>2 DEF LoggerInv, NoCounts
        <3>3. QED  BY <2>2, <3>1, <3>2
    <2>5. \A kind \in Kinds : heard'[kind] = SumFunctionOnSet(Reported', CountersOf(kind))
        BY <2>2, <2>4, MovedCounts
    <2>6. QED  BY <1>1, <2>3, <2>5 DEF LoggerInv, ReportTimer, wifiVars
<1>2. CASE ReportCaptured
    <2>1. captured["wifi"] = 0 /\ "wifi" \in Counters
        BY <1>2 DEF LoggerInv, ReportCaptured, Counters
    <2>2. /\ captured' = [captured EXCEPT !["wifi"] = window["wifi"]]
          /\ window' = [window EXCEPT !["wifi"] = 0]
          /\ emitted' = emitted /\ heard' = heard
        BY <1>2 DEF ReportCaptured
    <2>3. window' \in [Counters -> Nat] /\ captured' \in [Counters -> Nat]
        BY <2>1, <2>2 DEF LoggerInv
    <2>4. ASSUME NEW c \in Counters
          PROVE  emitted'[c] + captured'[c] + window'[c] = emitted[c] + captured[c] + window[c]
        <3>1. emitted[c] \in Nat /\ window[c] \in Nat /\ captured[c] \in Nat
            BY DEF LoggerInv
        <3>2. /\ captured'[c] = IF c = "wifi" THEN window[c] ELSE captured[c]
              /\ window'[c] = IF c = "wifi" THEN 0 ELSE window[c]
            BY <2>2 DEF LoggerInv
        <3>3. QED  BY <2>1, <2>2, <3>1, <3>2
    <2>5. \A kind \in Kinds : heard'[kind] = SumFunctionOnSet(Reported', CountersOf(kind))
        BY <2>2, <2>4, MovedCounts
    <2>6. QED  BY <1>2, <2>3, <2>5 DEF LoggerInv, ReportCaptured, wifiVars
<1>3. CASE FlushPendingReport
    <2>1. /\ emitted' = [c \in Counters |-> emitted[c] + captured[c]]
          /\ captured' = NoCounts /\ window' = window /\ heard' = heard
        BY <1>3 DEF FlushPendingReport, Emit
    <2>2. emitted' \in [Counters -> Nat] /\ captured' \in [Counters -> Nat]
        BY <2>1 DEF LoggerInv, NoCounts
    <2>3. ASSUME NEW c \in Counters
          PROVE  emitted'[c] + captured'[c] + window'[c] = emitted[c] + captured[c] + window[c]
        <3>1. emitted[c] \in Nat /\ window[c] \in Nat /\ captured[c] \in Nat
            BY DEF LoggerInv
        <3>2. emitted'[c] = emitted[c] + captured[c] /\ captured'[c] = 0
            BY <2>1 DEF NoCounts
        <3>3. QED  BY <2>1, <3>1, <3>2
    <2>4. \A kind \in Kinds : heard'[kind] = SumFunctionOnSet(Reported', CountersOf(kind))
        BY <2>1, <2>3, MovedCounts
    <2>5. QED  BY <1>3, <2>1, <2>2, <2>4 DEF LoggerInv, FlushPendingReport, wifiVars
<1>4. QED  BY <1>1, <1>2, <1>3

(* A message is counted once, in the window it is heard in.                             *)
LEMMA HearStep ==
    ASSUME LoggerInv, NEW kind \in Kinds, NEW counter \in CountersOf(kind), Hear(kind, counter),
           tracked' \subseteq Writers, UNCHANGED wifiVars
    PROVE  LoggerInv'
<1>1. /\ heard' \in [Kinds -> 0..MaxHeard] /\ window' \in [Counters -> Nat]
      /\ \A other \in Kinds : heard'[other] = SumFunctionOnSet(Reported', CountersOf(other))
    BY HearCounts
<1>2. UNCHANGED <<prime, health, capture, captured, emitted>>
    BY DEF Hear
<1>3. QED  BY <1>1, <1>2 DEF LoggerInv, wifiVars

(* A step of the monitor or of the health collection leaves the counters alone.            *)
LEMMA QuietStep ==
    ASSUME LoggerInv,
           UNCHANGED <<heard, tracked, window, prime, capture, captured, emitted>>,
           health' \in {"none", "running", "done"},
           wifi_thread' \in {"starting", "started", "reading", "ended"},
           child' \in {"none", "running", "terminated", "dead"},
           stopping' \in {"no", "asked", "waiting", "stopped"}, overlooked' \in BOOLEAN
    PROVE  LoggerInv'
<1>1. \A kind \in Kinds : heard'[kind] = SumFunctionOnSet(Reported', CountersOf(kind))
    BY MovedCounts
<1>2. QED  BY <1>1 DEF LoggerInv

(* Every step keeps the invariant.                                                  *)
LEMMA LoggerInvStep == LoggerInv /\ [LoggerNext]_loggerVars => LoggerInv'
<1> SUFFICES ASSUME LoggerInv, [LoggerNext]_loggerVars PROVE LoggerInv'
    OBVIOUS
<1>1. CASE TopicCallback
    <2>1. Hear("topic", "topic") /\ tracked' \subseteq Writers /\ UNCHANGED wifiVars
          /\ "topic" \in Kinds
        BY <1>1 DEF TopicCallback, Kinds, LoggerInv
    <2>2. QED  BY <2>1, HearStep, CountersApart
<1>2. ASSUME NEW w \in Writers, HandleTf(w) PROVE LoggerInv'
    <2> DEFINE counter == IF w \in tracked' THEN w ELSE "untracked"
    <2>1. /\ Hear("tf", counter) /\ UNCHANGED wifiVars /\ tracked' \subseteq Writers
          /\ "tf" \in Kinds
        BY <1>2 DEF HandleTf, LoggerInv, Kinds
    <2>2. counter \in CountersOf("tf")
        BY CountersApart
    <2> HIDE DEF counter
    <2>3. QED  BY <2>1, <2>2, HearStep
<1>3. CASE ReportTimer \/ ReportCaptured \/ FlushPendingReport
    BY <1>3, ReportStep
<1>4. CASE WifiLine
    <2>1. CASE stopping = "no"
        <3>1. /\ Hear("wifi", "wifi") /\ "wifi" \in Kinds
              /\ tracked' \subseteq Writers /\ UNCHANGED wifiVars
            BY <1>4, <2>1 DEF WifiLine, Kinds, LoggerInv, wifiVars
        <3>2. QED  BY <3>1, HearStep, CountersApart
    <2>2. CASE stopping # "no"
        BY <1>4, <2>2, QuietStep DEF WifiLine, LoggerInv, reportVars
    <2>3. QED  BY <2>1, <2>2
<1>5. CASE HealthCollected
    BY <1>5, QuietStep DEF HealthCollected, LoggerInv, wifiVars
<1>6. CASE WifiStart \/ WifiProcessKnown \/ WifiChildExits \/ WifiEndOfFile \/ WifiTerminates
    BY <1>6, QuietStep DEF WifiStart, WifiProcessKnown, WifiChildExits, WifiEndOfFile,
                           WifiTerminates, LoggerInv, reportVars
<1>7. CASE Close \/ StopTerminate \/ StopWait
    <2>1. UNCHANGED <<heard, tracked, window, prime, health, capture, captured, emitted,
                      wifi_thread>>
        BY <1>7 DEF Close, StopTerminate, StopWait, reportVars
    <2>2. /\ child' \in {"none", "running", "terminated", "dead"}
          /\ stopping' \in {"no", "asked", "waiting", "stopped"} /\ overlooked' \in BOOLEAN
        <3>1. CASE Close
            BY <3>1 DEF Close, LoggerInv
        <3>2. CASE StopTerminate
            <4>1. (wifi_thread \in {"starting", "started"}) \in BOOLEAN
                OBVIOUS
            <4>2. overlooked' \in BOOLEAN
                BY <3>2, <4>1 DEF StopTerminate
            <4>3. QED  BY <3>2, <4>2 DEF StopTerminate, LoggerInv
        <3>3. CASE StopWait
            BY <3>3 DEF StopWait, LoggerInv
        <3>4. QED  BY <1>7, <3>1, <3>2, <3>3
    <2>3. QED  BY <2>1, <2>2, QuietStep DEF LoggerInv
<1>8. CASE UNCHANGED loggerVars
    BY <1>8, QuietStep DEF loggerVars, LoggerInv, reportVars, wifiVars
<1>9. QED
    BY <1>1, <1>2, <1>3, <1>4, <1>5, <1>6, <1>7, <1>8 DEF LoggerNext, WifiMonitor

(* Every message the logger hears is in one report, whatever thread hears it and however       *)
(* many writers there are: ros_logger's windows, for any number of writers and messages.     *)
THEOREM EveryMessageIsReported == LoggerSpec => []EveryMessageReported
<1>1. LoggerInv => EveryMessageReported
    BY DEF LoggerInv, EveryMessageReported
<1>2. QED  BY <1>1, LoggerInvInit, LoggerInvStep, PTL DEF LoggerSpec

(* The types of the logger's state; no counter exceeds what was heard of its kind.           *)
THEOREM LoggerTypeCorrect == LoggerSpec => []LoggerTypeOK
<1>1. LoggerInv => LoggerTypeOK
  <2> SUFFICES ASSUME LoggerInv PROVE LoggerTypeOK
      OBVIOUS
  <2>1. ASSUME NEW c \in Counters
        PROVE  emitted[c] <= MaxHeard /\ captured[c] <= MaxHeard /\ window[c] <= MaxHeard
      <3>1. PICK kind \in Kinds : c \in CountersOf(kind)
          BY CountersApart
      <3>2. \A x \in Counters : /\ emitted[x] \in Nat /\ captured[x] \in Nat /\ window[x] \in Nat
                                /\ Reported[x] = emitted[x] + captured[x] + window[x]
          BY DEF LoggerInv, Reported
      <3>3. IsFiniteSet(CountersOf(kind)) /\ \A x \in CountersOf(kind) : Reported[x] \in Nat
          BY <3>2, CountersApart
      <3>4. Reported[c] <= SumFunctionOnSet(Reported, CountersOf(kind))
          BY <3>1, <3>3, SumBounds
      <3>5. Reported[c] <= MaxHeard
          <4>1. heard[kind] \in 0..MaxHeard
                /\ heard[kind] = SumFunctionOnSet(Reported, CountersOf(kind))
              BY DEF LoggerInv
          <4>2. Reported[c] \in Nat
              BY <3>1, <3>3
          <4>3. QED  BY <3>4, <4>1, <4>2, LoggerAssumption
      <3>6. QED  BY <3>2, <3>5, LoggerAssumption
  <2>2. window \in Counts /\ captured \in Counts /\ emitted \in Counts
      BY <2>1, LoggerAssumption DEF LoggerInv, Counts
  <2>3. QED  BY <2>2 DEF LoggerInv, LoggerTypeOK
<1>2. QED  BY <1>1, LoggerInvInit, LoggerInvStep, PTL DEF LoggerSpec
-----------------------------------------------------------------------------
(* The sweep, for all parameters an operator may give.  The argument is arithmetic about one  *)
(* candidate: its rows and its offsets are evenly spaced, its turns are as wide as half of what *)
(* is between two rows, no drone is further from the middle of the formation than its          *)
(* outermost one, and a candidate turns no tighter than that.                             *)

(* The parameters of a command.                                                  *)
LEMMA ConfigSizes ==
    ASSUME NEW c \in Configs
    PROVE  /\ c.Lx \in Nat /\ c.Ly \in Nat /\ c.num_quads \in Nat /\ c.num_quads >= 1
           /\ c.d \in Nat /\ c.d >= 1 /\ c.min_turn_radius \in Nat /\ c.min_turn_radius >= 1
           /\ c.coverage_spacing \in Nat /\ c.coverage_spacing >= 1
           /\ Width(c) \in Nat /\ UsableSpan(c) \in Int
<1>1. /\ c.Lx \in Nat /\ c.Ly \in Nat /\ c.num_quads \in Nat /\ c.num_quads >= 1
      /\ c.d \in Nat /\ c.d >= 1 /\ c.min_turn_radius \in Nat /\ c.min_turn_radius >= 1
      /\ c.coverage_spacing \in Nat /\ c.coverage_spacing >= 1
    BY CoverageAssumption DEF Configs
<1>2. Width(c) \in Nat
    BY <1>1 DEF Width
<1>3. QED  BY <1>1, <1>2 DEF UsableSpan

(* The passes of a candidate are at most one more than the field is high.             *)
LEMMA CandidatePasses ==
    ASSUME NEW c \in Configs, NEW n \in Candidates(c), Feasible(c)
    PROVE  n \in Nat /\ n >= 2 /\ n <= c.Ly + 1
<1>1. UsableSpan(c) > 0 /\ UsableSpan(c) \in Int /\ UsableSpan(c) <= c.Ly /\ c.Ly \in Nat
    BY ConfigSizes DEF Feasible, UsableSpan
<1>2. MinPasses(c) \in Int /\ MinPasses(c) >= 2
    <2>1. CeilDiv(UsableSpan(c), Width(c) + c.coverage_spacing) \in Int
        BY <1>1, ConfigSizes DEF CeilDiv
    <2>2. QED  BY <2>1 DEF MinPasses, Larger
<1>3. MaxPasses(c) \in Int /\ MaxPasses(c) <= c.Ly + 1
    <2> DEFINE room == Larger(2 * c.min_turn_radius, Width(c))
    <2>1. room \in Nat /\ room >= 1
        BY ConfigSizes DEF Larger
    <2>2. MaxPasses(c) = (UsableSpan(c) \div room) + 1
        BY DEF MaxPasses
    <2> HIDE DEF room
    <2>3. UsableSpan(c) \div room \in Int /\ UsableSpan(c) \div room <= UsableSpan(c)
        <3>1. room * (UsableSpan(c) \div room) <= UsableSpan(c)
              /\ UsableSpan(c) \div room \in Nat
            BY <1>1, <2>1
        <3>2. (room - 1) * (UsableSpan(c) \div room) >= 0
            BY <2>1, <3>1
        <3>3. QED  BY <1>1, <2>1, <3>1, <3>2
    <2>4. QED  BY <1>1, <2>2, <2>3
<1>4. n \in MinPasses(c)..MaxPasses(c)
    BY DEF Candidates
<1>5. QED  BY <1>1, <1>2, <1>3, <1>4

(* The lengths of a candidate, in its scale: the rows fill the height the formation      *)
(* leaves; two drones and two passes are no further apart than coverage_spacing.        *)
LEMMA CandidateSizes ==
    ASSUME NEW c \in Configs, NEW n \in Candidates(c), Feasible(c)
    PROVE  /\ TurnRadius(c) \in Int /\ MaxOffset(c, n) \in Int
           /\ TurnRadius(c) > 0 /\ MaxOffset(c, n) >= 0 /\ TurnRadius(c) >= MaxOffset(c, n)
           /\ c.Lx * Scale(n) \in Int /\ c.Lx * Scale(n) > 2 * Margin(c, n)
           /\ c.Ly * Scale(n) \in Int
           /\ c.Ly * Scale(n) = 2 * ((n - 1) * TurnRadius(c)) + 2 * MaxOffset(c, n)
           /\ c.d * Scale(n) \in Int /\ c.d * Scale(n) > 0
           /\ c.coverage_spacing * Scale(n) \in Int
           /\ 2 * TurnRadius(c) - 2 * MaxOffset(c, n) <= c.coverage_spacing * Scale(n)
           /\ c.num_quads = 1 \/ c.d * Scale(n) <= c.coverage_spacing * Scale(n)
<1>1. n \in Nat /\ n >= 2
    BY CandidatePasses
<1>2. Scale(n) \in Nat /\ Scale(n) >= 2 /\ n - 1 \in Nat
    BY <1>1 DEF Scale
<1>3. TurnRadius(c) \in Int /\ TurnRadius(c) > 0
    BY ConfigSizes DEF TurnRadius, Feasible
<1>4. MaxOffset(c, n) \in Nat
    BY <1>2, ConfigSizes DEF MaxOffset
<1>5. /\ c.Lx * Scale(n) \in Nat /\ c.Ly * Scale(n) \in Nat /\ c.d * Scale(n) \in Nat
      /\ c.coverage_spacing * Scale(n) \in Nat /\ c.min_turn_radius * Scale(n) \in Nat
    BY <1>2, ConfigSizes
<1>6. c.d * Scale(n) > 0
    <2>1. (c.d - 1) * Scale(n) \in Nat
        BY <1>2, ConfigSizes
    <2>2. c.d * Scale(n) = (c.d - 1) * Scale(n) + Scale(n)
        BY <1>2, ConfigSizes
    <2>3. QED  BY <1>2, <2>1, <2>2
<1>7. c.Ly * Scale(n) = 2 * ((n - 1) * TurnRadius(c)) + 2 * MaxOffset(c, n)
    <2>1. c.Ly = UsableSpan(c) + Width(c)
        BY ConfigSizes DEF UsableSpan
    <2>2. \A u, w, m \in Int : (u + w) * (2 * m) = 2 * (m * u) + 2 * (w * m)
        OBVIOUS
    <2>3. QED  BY <1>2, <2>1, <2>2, ConfigSizes DEF Scale, TurnRadius, MaxOffset
<1>8. /\ TurnRadius(c) >= Larger(c.min_turn_radius * Scale(n), MaxOffset(c, n))
      /\ c.Lx * Scale(n) > 2 * Margin(c, n)
      /\ MaxCoverageGap(c, n) <= c.coverage_spacing * Scale(n)
    BY DEF Candidates
<1>9. TurnRadius(c) >= MaxOffset(c, n)
    BY <1>3, <1>4, <1>5, <1>8 DEF Larger
<1>10. /\ 2 * TurnRadius(c) - 2 * MaxOffset(c, n) <= c.coverage_spacing * Scale(n)
       /\ c.num_quads = 1 \/ c.d * Scale(n) <= c.coverage_spacing * Scale(n)
    <2> DEFINE beside == IF c.num_quads = 1 THEN 0 ELSE c.d * Scale(n)
    <2> DEFINE between == 2 * TurnRadius(c) - 2 * MaxOffset(c, n)
    <2>1. beside \in Int /\ between \in Int
        BY <1>3, <1>4, <1>5
    <2>2. MaxCoverageGap(c, n) = IF beside > between THEN beside ELSE between
        BY DEF MaxCoverageGap, Larger
    <2>3. beside <= c.coverage_spacing * Scale(n) /\ between <= c.coverage_spacing * Scale(n)
        <3> HIDE DEF beside, between
        <3> QED  BY <1>5, <1>8, <2>1, <2>2
    <2>4. QED  BY <2>3
<1>11. QED  BY <1>3, <1>4, <1>5, <1>6, <1>7, <1>8, <1>9, <1>10

(* The rows of the passes: the formation fits above the first and below the last, and     *)
(* two turns' radius are between two of them (build_spine).                          *)
LEMMA Rows ==
    ASSUME NEW c \in Configs, NEW n \in Candidates(c), Feasible(c)
    PROVE  /\ RowY(c, n, 0) = c.Ly * Scale(n) - MaxOffset(c, n)
           /\ RowY(c, n, n - 1) = MaxOffset(c, n)
           /\ \A pass \in 0..(n - 1) :
                 /\ RowY(c, n, pass) \in Int
                 /\ RowY(c, n, pass) >= MaxOffset(c, n)
                 /\ RowY(c, n, pass) <= c.Ly * Scale(n) - MaxOffset(c, n)
           /\ \A pass \in 0..(n - 2) :
                 RowY(c, n, pass + 1) = RowY(c, n, pass) - 2 * TurnRadius(c)
<1> DEFINE radius == TurnRadius(c)
<1> DEFINE height == c.Ly * Scale(n)
<1> DEFINE half == MaxOffset(c, n)
<1>1. n \in Nat /\ n >= 2
    BY CandidatePasses
<1>2. radius \in Int /\ radius > 0 /\ half \in Int /\ height \in Int
      /\ height = 2 * ((n - 1) * radius) + 2 * half
    BY CandidateSizes
<1>3. \A pass \in Int : RowY(c, n, pass) = height - half - 2 * pass * radius
    BY DEF RowY
<1> HIDE DEF radius, height, half
<1>4. \A pass \in Int : pass * radius \in Int /\ 2 * pass * radius = 2 * (pass * radius)
    BY <1>2
<1>5. \A pass \in Int : RowY(c, n, pass) = height - half - 2 * (pass * radius)
    BY <1>3, <1>4
<1>6. 0 * radius = 0 /\ (n - 1) * radius \in Int
    BY <1>1, <1>2
<1>7. RowY(c, n, 0) = height - half /\ RowY(c, n, n - 1) = half
    BY <1>1, <1>2, <1>5, <1>6
<1>8. ASSUME NEW pass \in 0..(n - 1)
      PROVE  /\ RowY(c, n, pass) \in Int /\ RowY(c, n, pass) >= half
             /\ RowY(c, n, pass) <= height - half
    <2> DEFINE above == pass * radius
    <2> DEFINE below == (n - 1 - pass) * radius
    <2> DEFINE all == (n - 1) * radius
    <2>1. above \in Nat /\ below \in Nat
        BY <1>1, <1>2
    <2>2. all = above + below
        BY <1>1, <1>2
    <2>3. RowY(c, n, pass) = height - half - 2 * above /\ height = 2 * all + 2 * half
        BY <1>1, <1>2, <1>5
    <2> HIDE DEF above, below, all
    <2>4. QED  BY <1>2, <2>1, <2>2, <2>3
<1>9. ASSUME NEW pass \in 0..(n - 2)
      PROVE  RowY(c, n, pass + 1) = RowY(c, n, pass) - 2 * radius
    <2>1. (pass + 1) * radius = pass * radius + radius
        BY <1>1, <1>2
    <2>2. pass + 1 \in Int /\ pass \in Int
        BY <1>1
    <2>3. QED  BY <1>2, <1>4, <1>5, <2>1, <2>2
<1>10. QED  BY <1>7, <1>8, <1>9 DEF radius, height, half

(* How far a pass of a drone's path is above its row, and a turn wider.                *)
ShiftOf(pass, offset) == IF GoesRight(pass) THEN offset ELSE -offset

LineFrom(c, n, pass) ==
    IF pass = 0 THEN FieldEnd(c, n, ~GoesRight(pass)) ELSE PassEnd(c, n, ~GoesRight(pass))
LineTo(c, n, pass) ==
    IF pass = n - 1 THEN FieldEnd(c, n, GoesRight(pass)) ELSE PassEnd(c, n, GoesRight(pass))

(* A path of a drone that has one: offset_path shifts each line and each turn.          *)
LEMMA PathSegments ==
    ASSUME NEW c \in Configs, NEW n \in Candidates(c), Feasible(c), NEW offset \in Int,
           NEW path, path = OffsetPath(BuildSpine(c, n), offset), path # <<>>
    PROVE  /\ DOMAIN path = 1..(2 * n - 1) /\ Len(path) = 2 * n - 1
           /\ \A pass \in 0..(n - 1) :
                 path[2 * pass + 1] =
                    Line(GoesRight(pass), LineFrom(c, n, pass), LineTo(c, n, pass),
                         RowY(c, n, pass) + ShiftOf(pass, offset))
           /\ \A pass \in 0..(n - 2) :
                 /\ path[2 * pass + 2] =
                       Arc(GoesRight(pass), PassEnd(c, n, GoesRight(pass)),
                           RowY(c, n, pass) - TurnRadius(c),
                           TurnRadius(c) + ShiftOf(pass, offset))
                 /\ TurnRadius(c) + ShiftOf(pass, offset) > 0
<1> DEFINE spine == BuildSpine(c, n)
<1> DEFINE shifted == [i \in DOMAIN spine |-> Shifted(spine[i], offset)]
<1>1. n \in Nat /\ n >= 2 /\ TurnRadius(c) \in Int
    BY CandidatePasses, CandidateSizes
<1>2. DOMAIN spine = 1..(2 * n - 1)
    BY DEF BuildSpine
<1>3. /\ path = shifted
      /\ ~ \E i \in DOMAIN shifted : shifted[i].kind = "arc" /\ shifted[i].radius <= 0
    BY DEF OffsetPath
<1>4. /\ DOMAIN path = 1..(2 * n - 1)
      /\ \A i \in 1..(2 * n - 1) : path[i] = Shifted(BuildSpine(c, n)[i], offset)
      /\ \A i \in 1..(2 * n - 1) : ~(path[i].kind = "arc" /\ path[i].radius <= 0)
    BY <1>2, <1>3
<1>5. Len(path) = 2 * n - 1
    <2>1. path = [i \in 1..(2 * n - 1) |-> Shifted(BuildSpine(c, n)[i], offset)]
        BY <1>2, <1>3
    <2>2. 2 * n - 1 \in Nat
        BY <1>1
    <2> HIDE DEF spine, shifted
    <2>3. QED  BY <2>1, <2>2
<1>6. ASSUME NEW pass \in 0..(n - 1)
      PROVE  path[2 * pass + 1] =
                Line(GoesRight(pass), LineFrom(c, n, pass), LineTo(c, n, pass),
                     RowY(c, n, pass) + ShiftOf(pass, offset))
    <2>1. /\ 2 * pass + 1 \in 1..(2 * n - 1) /\ (2 * pass + 1) % 2 = 1
          /\ (2 * pass + 1) \div 2 = pass
        BY <1>1
    <2>2. BuildSpine(c, n)[2 * pass + 1] = SpineLine(c, n, pass)
        BY <2>1 DEF BuildSpine
    <2>3. SpineLine(c, n, pass) =
              Line(GoesRight(pass), LineFrom(c, n, pass), LineTo(c, n, pass), RowY(c, n, pass))
        BY DEF SpineLine, LineFrom, LineTo
    <2>4. \A right, from, to, y :
              Shifted(Line(right, from, to, y), offset) =
                 Line(right, from, to, y + (IF right THEN offset ELSE -offset))
        BY DEF Shifted, Line
    <2>5. path[2 * pass + 1] = Shifted(SpineLine(c, n, pass), offset)
        BY <1>4, <2>1, <2>2
    <2>6. QED  BY <2>3, <2>4, <2>5 DEF ShiftOf
<1>7. ASSUME NEW pass \in 0..(n - 2)
      PROVE  /\ path[2 * pass + 2] =
                    Arc(GoesRight(pass), PassEnd(c, n, GoesRight(pass)),
                        RowY(c, n, pass) - TurnRadius(c),
                        TurnRadius(c) + ShiftOf(pass, offset))
             /\ TurnRadius(c) + ShiftOf(pass, offset) > 0
    <2>1. /\ 2 * pass + 2 \in 1..(2 * n - 1) /\ (2 * pass + 2) % 2 # 1
          /\ ((2 * pass + 2) \div 2) - 1 = pass
        BY <1>1
    <2>2. BuildSpine(c, n)[2 * pass + 2] = SpineArc(c, n, pass)
        BY <2>1 DEF BuildSpine
    <2>3. \A right, x, y, radius :
              Shifted(Arc(right, x, y, radius), offset) =
                 Arc(right, x, y, radius + (IF right THEN offset ELSE -offset))
        BY DEF Shifted, Arc
    <2>4. path[2 * pass + 2] = Shifted(SpineArc(c, n, pass), offset)
        BY <1>4, <2>1, <2>2
    <2>5. path[2 * pass + 2] =
              Arc(GoesRight(pass), PassEnd(c, n, GoesRight(pass)),
                  RowY(c, n, pass) - TurnRadius(c), TurnRadius(c) + ShiftOf(pass, offset))
        BY <2>3, <2>4 DEF SpineArc, ShiftOf
    <2>6. path[2 * pass + 2].kind = "arc"
          /\ path[2 * pass + 2].radius = TurnRadius(c) + ShiftOf(pass, offset)
        BY <2>5 DEF Arc
    <2>7. TurnRadius(c) + ShiftOf(pass, offset) \in Int
        BY <1>1 DEF ShiftOf
    <2>8. QED  BY <1>4, <2>1, <2>5, <2>6, <2>7
<1>8. QED  BY <1>4, <1>5, <1>6, <1>7

(* The segments of a path are its passes and, between them, its turns.                  *)
LEMMA SegmentIndex ==
    ASSUME NEW n \in Nat, n >= 2, NEW i \in 1..(2 * n - 1)
    PROVE  \/ i % 2 = 1 /\ \E pass \in 0..(n - 1) : i = 2 * pass + 1
           \/ i % 2 # 1 /\ \E pass \in 0..(n - 2) : i = 2 * pass + 2
<1>1. CASE i % 2 = 1
    <2>1. i \div 2 \in 0..(n - 1) /\ i = 2 * (i \div 2) + 1
        BY <1>1
    <2>2. QED  BY <1>1, <2>1
<1>2. CASE i % 2 # 1
    <2>1. (i \div 2) - 1 \in 0..(n - 2) /\ i = 2 * ((i \div 2) - 1) + 2
        BY <1>2
    <2>2. QED  BY <1>2, <2>1
<1>3. QED  BY <1>1, <1>2

(* Two passes that follow each other go in opposite directions.                       *)
LEMMA Directions ==
    ASSUME NEW pass \in Nat
    PROVE  /\ GoesRight(pass) \in BOOLEAN /\ GoesRight(pass + 1) = ~GoesRight(pass)
           /\ ~GoesRight(0)
           /\ \A offset \in Int : ShiftOf(pass, offset) \in Int
                    /\ ShiftOf(pass + 1, offset) = -ShiftOf(pass, offset)
<1>1. GoesRight(pass) \in BOOLEAN /\ GoesRight(pass + 1) = ~GoesRight(pass) /\ ~GoesRight(0)
    BY DEF GoesRight
<1>2. CASE GoesRight(pass)
    BY <1>1, <1>2 DEF ShiftOf
<1>3. CASE ~GoesRight(pass)
    <2>1. GoesRight(pass + 1)
        BY <1>1, <1>3
    <2>2. QED  BY <1>1, <1>3, <2>1 DEF ShiftOf
<1>4. QED  BY <1>2, <1>3

(* A path is of one piece: a turn starts where its pass ends and ends where the next one  *)
(* starts, on the other side of its row.                                         *)
LEMMA PathJoined ==
    ASSUME NEW c \in Configs, NEW n \in Candidates(c), Feasible(c), NEW offset \in Int,
           NEW path, path = OffsetPath(BuildSpine(c, n), offset), path # <<>>
    PROVE  Joined(path)
<1>1. n \in Nat /\ n >= 2 /\ TurnRadius(c) \in Int
    BY CandidatePasses, CandidateSizes
<1>2. /\ Len(path) = 2 * n - 1
      /\ \A pass \in 0..(n - 1) :
            path[2 * pass + 1] =
               Line(GoesRight(pass), LineFrom(c, n, pass), LineTo(c, n, pass),
                    RowY(c, n, pass) + ShiftOf(pass, offset))
      /\ \A pass \in 0..(n - 2) :
            path[2 * pass + 2] =
               Arc(GoesRight(pass), PassEnd(c, n, GoesRight(pass)),
                   RowY(c, n, pass) - TurnRadius(c), TurnRadius(c) + ShiftOf(pass, offset))
    BY PathSegments
<1>3. \A pass \in 0..(n - 2) :
          /\ RowY(c, n, pass) \in Int /\ ShiftOf(pass, offset) \in Int
          /\ RowY(c, n, pass + 1) = RowY(c, n, pass) - 2 * TurnRadius(c)
          /\ ShiftOf(pass + 1, offset) = -ShiftOf(pass, offset)
          /\ GoesRight(pass) \in BOOLEAN /\ GoesRight(pass + 1) = ~GoesRight(pass)
    <2> SUFFICES ASSUME NEW pass \in 0..(n - 2)
                 PROVE  /\ RowY(c, n, pass) \in Int /\ ShiftOf(pass, offset) \in Int
                        /\ RowY(c, n, pass + 1) = RowY(c, n, pass) - 2 * TurnRadius(c)
                        /\ ShiftOf(pass + 1, offset) = -ShiftOf(pass, offset)
                        /\ GoesRight(pass) \in BOOLEAN
                        /\ GoesRight(pass + 1) = ~GoesRight(pass)
        OBVIOUS
    <2>1. pass \in Nat /\ pass \in 0..(n - 1)
        BY <1>1
    <2>2. RowY(c, n, pass) \in Int /\ RowY(c, n, pass + 1) = RowY(c, n, pass) - 2 * TurnRadius(c)
        BY <2>1, Rows
    <2>3. QED  BY <2>1, <2>2, Directions
<1>4. ASSUME NEW pass \in 0..(n - 2)
      PROVE  EndOf(path[2 * pass + 1]) = StartOf(path[2 * pass + 2])
    <2>1. pass \in 0..(n - 1) /\ pass # n - 1
        BY <1>1
    <2>2. EndOf(path[2 * pass + 1]) =
              <<PassEnd(c, n, GoesRight(pass)), RowY(c, n, pass) + ShiftOf(pass, offset)>>
        <3>1. path[2 * pass + 1] =
                 Line(GoesRight(pass), LineFrom(c, n, pass), PassEnd(c, n, GoesRight(pass)),
                      RowY(c, n, pass) + ShiftOf(pass, offset))
            BY <1>2, <2>1 DEF LineTo
        <3>2. QED  BY <3>1 DEF EndOf, Line
    <2>3. StartOf(path[2 * pass + 2]) =
              <<PassEnd(c, n, GoesRight(pass)),
                (RowY(c, n, pass) - TurnRadius(c)) + (TurnRadius(c) + ShiftOf(pass, offset))>>
        <3>1. path[2 * pass + 2] =
                 Arc(GoesRight(pass), PassEnd(c, n, GoesRight(pass)),
                     RowY(c, n, pass) - TurnRadius(c), TurnRadius(c) + ShiftOf(pass, offset))
            BY <1>2
        <3>2. QED  BY <3>1 DEF StartOf, Arc
    <2>4. QED  BY <1>1, <1>3, <2>2, <2>3
<1>5. ASSUME NEW pass \in 0..(n - 2)
      PROVE  EndOf(path[2 * pass + 2]) = StartOf(path[2 * (pass + 1) + 1])
    <2>1. pass + 1 \in 0..(n - 1) /\ pass + 1 # 0
        BY <1>1
    <2>2. EndOf(path[2 * pass + 2]) =
              <<PassEnd(c, n, GoesRight(pass)),
                (RowY(c, n, pass) - TurnRadius(c)) - (TurnRadius(c) + ShiftOf(pass, offset))>>
        <3>1. path[2 * pass + 2] =
                 Arc(GoesRight(pass), PassEnd(c, n, GoesRight(pass)),
                     RowY(c, n, pass) - TurnRadius(c), TurnRadius(c) + ShiftOf(pass, offset))
            BY <1>2
        <3>2. QED  BY <3>1 DEF EndOf, Arc
    <2>3. StartOf(path[2 * (pass + 1) + 1]) =
              <<PassEnd(c, n, ~GoesRight(pass + 1)),
                RowY(c, n, pass + 1) + ShiftOf(pass + 1, offset)>>
        <3>1. path[2 * (pass + 1) + 1] =
                 Line(GoesRight(pass + 1), PassEnd(c, n, ~GoesRight(pass + 1)),
                      LineTo(c, n, pass + 1),
                      RowY(c, n, pass + 1) + ShiftOf(pass + 1, offset))
            BY <1>2, <2>1 DEF LineFrom
        <3>2. QED  BY <3>1 DEF StartOf, Line
    <2>4. ~GoesRight(pass + 1) <=> GoesRight(pass)
        BY <1>3
    <2>5. PassEnd(c, n, ~GoesRight(pass + 1)) = PassEnd(c, n, GoesRight(pass))
        BY <2>4 DEF PassEnd
    <2>6. QED  BY <1>1, <1>3, <2>2, <2>3, <2>5
<1>6. ASSUME NEW i \in 1..(2 * n - 2)
      PROVE  EndOf(path[i]) = StartOf(path[i + 1])
    <2>1. i \in 1..(2 * n - 1)
        BY <1>1
    <2>2. CASE \E pass \in 0..(n - 1) : i = 2 * pass + 1
        <3>1. PICK pass \in 0..(n - 1) : i = 2 * pass + 1
            BY <2>2
        <3>2. pass \in 0..(n - 2) /\ i + 1 = 2 * pass + 2
            BY <1>1, <3>1
        <3>3. QED  BY <1>4, <3>1, <3>2
    <2>3. CASE \E pass \in 0..(n - 2) : i = 2 * pass + 2
        <3>1. PICK pass \in 0..(n - 2) : i = 2 * pass + 2
            BY <2>3
        <3>2. i + 1 = 2 * (pass + 1) + 1
            BY <1>1, <3>1
        <3>3. QED  BY <1>5, <3>1, <3>2
    <2>4. QED  BY <1>1, <2>1, <2>2, <2>3, SegmentIndex
<1>7. Len(path) - 1 = 2 * n - 2
    BY <1>1, <1>2
<1>8. QED  BY <1>6, <1>7 DEF Joined

(* A path of a drone of the formation stays in the field: the rows leave it the room of     *)
(* half the formation, the margins that of a turn.                                 *)
LEMMA PathInField ==
    ASSUME NEW c \in Configs, NEW n \in Candidates(c), Feasible(c), NEW offset \in Int,
           offset <= MaxOffset(c, n), -offset <= MaxOffset(c, n),
           NEW path, path = OffsetPath(BuildSpine(c, n), offset), path # <<>>,
           NEW i \in DOMAIN path, NEW point \in Extremes(path[i])
    PROVE  /\ point[1] \in 0..(c.Lx * Scale(n))
           /\ point[2] \in 0..(c.Ly * Scale(n))
<1> DEFINE width == c.Lx * Scale(n)
<1> DEFINE height == c.Ly * Scale(n)
<1> DEFINE half == MaxOffset(c, n)
<1> DEFINE turn == TurnRadius(c)
<1>1. n \in Nat /\ n >= 2
    BY CandidatePasses
<1>2. /\ width \in Int /\ height \in Int /\ half \in Int /\ turn \in Int
      /\ half >= 0 /\ turn > 0 /\ turn >= half /\ Margin(c, n) = turn + half
      /\ width > 2 * Margin(c, n)
    BY CandidateSizes DEF Margin
<1>3. /\ DOMAIN path = 1..(2 * n - 1)
      /\ \A pass \in 0..(n - 1) :
            path[2 * pass + 1] =
               Line(GoesRight(pass), LineFrom(c, n, pass), LineTo(c, n, pass),
                    RowY(c, n, pass) + ShiftOf(pass, offset))
      /\ \A pass \in 0..(n - 2) :
            /\ path[2 * pass + 2] =
                  Arc(GoesRight(pass), PassEnd(c, n, GoesRight(pass)),
                      RowY(c, n, pass) - turn, turn + ShiftOf(pass, offset))
            /\ turn + ShiftOf(pass, offset) > 0
    BY PathSegments
<1>4. \A right \in BOOLEAN :
          /\ PassEnd(c, n, right) \in 0..width /\ FieldEnd(c, n, right) \in 0..width
          /\ PassEnd(c, n, right) = IF right THEN width - turn - half ELSE turn + half
    <2>1. \A right \in BOOLEAN :
              /\ PassEnd(c, n, right) = IF right THEN width - Margin(c, n) ELSE Margin(c, n)
              /\ FieldEnd(c, n, right) = IF right THEN width ELSE 0
        BY DEF PassEnd, FieldEnd
    <2> HIDE DEF width, height, half, turn
    <2>2. QED  BY <1>2, <2>1
<1>5. \A pass \in 0..(n - 1) :
          /\ RowY(c, n, pass) \in Int /\ RowY(c, n, pass) >= half
          /\ RowY(c, n, pass) <= height - half
    BY Rows
<1>6. \A pass \in 0..(n - 1) :
          /\ GoesRight(pass) \in BOOLEAN /\ ShiftOf(pass, offset) \in Int
          /\ ShiftOf(pass, offset) <= half /\ -ShiftOf(pass, offset) <= half
    <2> SUFFICES ASSUME NEW pass \in 0..(n - 1)
                 PROVE  /\ GoesRight(pass) \in BOOLEAN /\ ShiftOf(pass, offset) \in Int
                        /\ ShiftOf(pass, offset) <= half /\ -ShiftOf(pass, offset) <= half
        OBVIOUS
    <2>1. pass \in Nat
        BY <1>1
    <2>2. ShiftOf(pass, offset) = offset \/ ShiftOf(pass, offset) = -offset
        BY DEF ShiftOf
    <2>3. GoesRight(pass) \in BOOLEAN /\ ShiftOf(pass, offset) \in Int
        BY <2>1, Directions
    <2> HIDE DEF width, height, half, turn
    <2>4. offset <= half /\ -offset <= half
        BY DEF half
    <2>5. QED  BY <1>2, <2>2, <2>3, <2>4
<1> HIDE DEF width, height, half, turn
<1>7. ASSUME NEW pass \in 0..(n - 1), i = 2 * pass + 1
      PROVE  point[1] \in 0..width /\ point[2] \in 0..height
    <2> DEFINE y == RowY(c, n, pass) + ShiftOf(pass, offset)
    <2>1. path[i] = Line(GoesRight(pass), LineFrom(c, n, pass), LineTo(c, n, pass), y)
        BY <1>3, <1>7
    <2>2. y \in 0..height
        BY <1>2, <1>5, <1>6
    <2>3. LineFrom(c, n, pass) \in 0..width /\ LineTo(c, n, pass) \in 0..width
        <3>1. GoesRight(pass) \in BOOLEAN /\ (~GoesRight(pass)) \in BOOLEAN
            BY <1>6
        <3>2. QED  BY <1>4, <3>1 DEF LineFrom, LineTo
    <2> HIDE DEF y
    <2>4. point = <<LineFrom(c, n, pass), y>> \/ point = <<LineTo(c, n, pass), y>>
        BY <2>1 DEF Extremes, StartOf, EndOf, Line
    <2>5. QED  BY <2>2, <2>3, <2>4
<1>8. ASSUME NEW pass \in 0..(n - 2), i = 2 * pass + 2
      PROVE  point[1] \in 0..width /\ point[2] \in 0..height
    <2> DEFINE shift == ShiftOf(pass, offset)
    <2> DEFINE radius == turn + shift
    <2> DEFINE x == PassEnd(c, n, GoesRight(pass))
    <2> DEFINE y == RowY(c, n, pass) - turn
    <2>1. path[i] = Arc(GoesRight(pass), x, y, radius) /\ radius > 0
        BY <1>3, <1>8
    <2>2. pass \in 0..(n - 1) /\ pass + 1 \in 0..(n - 1)
        BY <1>1
    <2>3. RowY(c, n, pass + 1) = RowY(c, n, pass) - 2 * turn
        BY Rows DEF turn
    <2>4. shift \in Int /\ shift <= half /\ -shift <= half
        BY <1>6, <2>2
    <2>5. /\ RowY(c, n, pass) \in Int /\ RowY(c, n, pass) <= height - half
          /\ RowY(c, n, pass + 1) >= half
        BY <1>5, <2>2
    <2>6. x \in 0..width
          /\ x = IF GoesRight(pass) THEN width - turn - half ELSE turn + half
        BY <1>4, <1>6, <2>2
    <2>7. y \in 0..height /\ y + radius \in 0..height /\ y - radius \in 0..height
        <3> DEFINE row == RowY(c, n, pass)
        <3>1. /\ row \in Int /\ row <= height - half /\ row - 2 * turn >= half
              /\ y = row - turn /\ radius = turn + shift
            BY <2>3, <2>5
        <3> HIDE DEF row, y, radius, shift
        <3>2. QED  BY <1>2, <2>4, <3>1
    <2>8. (IF GoesRight(pass) THEN x + radius ELSE x - radius) \in 0..width
        <3>1. radius \in Int /\ radius > 0 /\ radius <= turn + half
            BY <1>2, <2>1, <2>4
        <3> HIDE DEF radius, x
        <3>2. CASE GoesRight(pass)
            BY <1>2, <2>6, <3>1, <3>2
        <3>3. CASE ~GoesRight(pass)
            BY <1>2, <2>6, <3>1, <3>3
        <3>4. QED  BY <3>2, <3>3
    <2>9. radius \in Int
        BY <1>2, <2>4
    <2> HIDE DEF x, y, radius, shift
    <2>10. \/ point = <<x, y + radius>> \/ point = <<x, y - radius>>
           \/ point = <<x + (IF GoesRight(pass) THEN radius ELSE -radius), y>>
        BY <2>1 DEF Extremes, StartOf, EndOf, Arc
    <2>11. x + (IF GoesRight(pass) THEN radius ELSE -radius) \in 0..width
        BY <2>6, <2>8, <2>9
    <2>12. QED  BY <2>6, <2>7, <2>10, <2>11
<1>9. QED  BY <1>1, <1>3, <1>7, <1>8, SegmentIndex DEF width, height

(* A drone is within max_offset of the middle of the formation (build_offsets).         *)
LEMMA OffsetBound ==
    ASSUME NEW c \in Configs, NEW n \in Nat, n >= 2, NEW quad \in 1..c.num_quads
    PROVE  /\ OffsetOf(c, n, quad) \in Int /\ MaxOffset(c, n) \in Int
           /\ OffsetOf(c, n, quad) <= MaxOffset(c, n)
           /\ -OffsetOf(c, n, quad) <= MaxOffset(c, n)
<1> DEFINE beside == (quad - 1) * c.d
<1> DEFINE width == (c.num_quads - 1) * c.d
<1>1. c.num_quads \in Nat /\ c.num_quads >= 1 /\ c.d \in Nat /\ quad \in Nat
      /\ quad >= 1 /\ quad <= c.num_quads
    BY CoverageAssumption DEF Configs
<1>2. beside \in Nat /\ width \in Nat
    BY <1>1
<1>3. (c.num_quads - quad) * c.d \in Nat
    BY <1>1
<1>4. width = beside + (c.num_quads - quad) * c.d
    BY <1>1
<1>5. beside <= width
    BY <1>2, <1>3, <1>4
<1> HIDE DEF beside, width
<1>6. beside * (n - 1) \in Nat /\ width * (n - 1) \in Nat /\ (width - beside) * (n - 1) \in Nat
    BY <1>2, <1>5
<1>7. width * (n - 1) = beside * (n - 1) + (width - beside) * (n - 1)
    BY <1>2
<1>8. OffsetOf(c, n, quad) = 2 * (beside * (n - 1)) - width * (n - 1)
  <2>1. beside * (2 * (n - 1)) = 2 * (beside * (n - 1))
      BY <1>2
  <2>2. QED  BY <2>1 DEF OffsetOf, Scale, Width, beside, width
<1>9. MaxOffset(c, n) = width * (n - 1)
    BY DEF MaxOffset, Width, width
<1>10. QED  BY <1>6, <1>7, <1>8, <1>9

(* The formation is symmetric and evenly spaced (build_offsets).                      *)
LEMMA Offsets ==
    ASSUME NEW c \in Configs, NEW n \in Candidates(c), Feasible(c)
    PROVE  /\ OffsetOf(c, n, 1) = -MaxOffset(c, n)
           /\ OffsetOf(c, n, c.num_quads) = MaxOffset(c, n)
           /\ \A quad \in 1..c.num_quads :
                 /\ OffsetOf(c, n, quad) \in Int
                 /\ OffsetOf(c, n, quad) <= MaxOffset(c, n)
                 /\ -OffsetOf(c, n, quad) <= MaxOffset(c, n)
                 /\ OffsetOf(c, n, quad) = (quad - 1) * c.d * Scale(n) - MaxOffset(c, n)
           /\ \A quad \in 1..(c.num_quads - 1) :
                 OffsetOf(c, n, quad + 1) = OffsetOf(c, n, quad) + c.d * Scale(n)
<1>1. n \in Nat /\ n >= 2 /\ Scale(n) \in Int /\ MaxOffset(c, n) \in Int
    BY CandidatePasses, CandidateSizes DEF Scale
<1>2. c.num_quads \in Nat /\ c.num_quads >= 1 /\ c.d \in Nat
    BY ConfigSizes
<1>3. \A quad \in Int : OffsetOf(c, n, quad) = (quad - 1) * c.d * Scale(n) - MaxOffset(c, n)
    BY DEF OffsetOf, MaxOffset
<1>4. (1 - 1) * c.d * Scale(n) = 0
    BY <1>1, <1>2
<1>5. (c.num_quads - 1) * c.d * Scale(n) = 2 * MaxOffset(c, n)
    <2>1. \A w, m \in Int : w * (2 * m) = 2 * (w * m)
        OBVIOUS
    <2>2. (c.num_quads - 1) * c.d \in Int
        BY <1>2
    <2>3. QED  BY <1>1, <2>1, <2>2 DEF Scale, MaxOffset, Width
<1>6. \A quad \in Int : (quad + 1 - 1) * c.d * Scale(n)
                            = (quad - 1) * c.d * Scale(n) + c.d * Scale(n)
    <2>1. ASSUME NEW q \in Int, NEW d \in Int, NEW s \in Int
          PROVE  (q + 1 - 1) * d * s = (q - 1) * d * s + d * s
        <3>1. q + 1 - 1 = (q - 1) + 1
            OBVIOUS
        <3>2. \A a \in Int : (a + 1) * d * s = a * d * s + d * s
            OBVIOUS
        <3>3. QED  BY <3>1, <3>2
    <2>2. c.d \in Int /\ Scale(n) \in Int
        BY <1>1, <1>2
    <2> DEFINE scale == Scale(n)
    <2> DEFINE distance == c.d
    <2>3. distance \in Int /\ scale \in Int
        BY <2>2
    <2> HIDE DEF scale, distance
    <2>4. \A quad \in Int : (quad + 1 - 1) * distance * scale
                                = (quad - 1) * distance * scale + distance * scale
        BY <2>1, <2>3
    <2>5. QED  BY <2>4 DEF scale, distance
<1>7. \A quad \in Int : (quad - 1) * c.d * Scale(n) \in Int
    BY <1>1, <1>2
<1>8. OffsetOf(c, n, 1) = -MaxOffset(c, n) /\ OffsetOf(c, n, c.num_quads) = MaxOffset(c, n)
    <2>1. OffsetOf(c, n, 1) = (1 - 1) * c.d * Scale(n) - MaxOffset(c, n)
        BY <1>3
    <2>2. OffsetOf(c, n, 1) = -MaxOffset(c, n)
        BY <1>1, <1>4, <2>1
    <2>3. OffsetOf(c, n, c.num_quads) = (c.num_quads - 1) * c.d * Scale(n) - MaxOffset(c, n)
        BY <1>2, <1>3
    <2>4. OffsetOf(c, n, c.num_quads) = MaxOffset(c, n)
        BY <1>1, <1>5, <2>3
    <2>5. QED  BY <2>2, <2>4
<1>9. ASSUME NEW quad \in 1..(c.num_quads - 1)
      PROVE  OffsetOf(c, n, quad + 1) = OffsetOf(c, n, quad) + c.d * Scale(n)
    <2>1. quad \in Int /\ quad + 1 \in Int
        BY <1>2
    <2> DEFINE here == (quad - 1) * c.d * Scale(n)
    <2> DEFINE apart == c.d * Scale(n)
    <2>2. here \in Int /\ apart \in Int
        BY <1>1, <1>2, <1>7, <2>1
    <2>3. OffsetOf(c, n, quad) = here - MaxOffset(c, n)
          /\ OffsetOf(c, n, quad + 1) = (here + apart) - MaxOffset(c, n)
        <3>1. OffsetOf(c, n, quad + 1) = (quad + 1 - 1) * c.d * Scale(n) - MaxOffset(c, n)
            BY <1>3, <2>1
        <3>2. (quad + 1 - 1) * c.d * Scale(n) = here + apart
            BY <1>6, <2>1
        <3>3. OffsetOf(c, n, quad) = here - MaxOffset(c, n)
            BY <1>3, <2>1
        <3>4. QED  BY <3>1, <3>2, <3>3
    <2> HIDE DEF here
    <2>4. QED  BY <1>1, <2>2, <2>3
<1>10. ASSUME NEW quad \in 1..c.num_quads
       PROVE  /\ OffsetOf(c, n, quad) \in Int
              /\ OffsetOf(c, n, quad) <= MaxOffset(c, n)
              /\ -OffsetOf(c, n, quad) <= MaxOffset(c, n)
              /\ OffsetOf(c, n, quad) = (quad - 1) * c.d * Scale(n) - MaxOffset(c, n)
    <2>1. quad \in Int
        BY <1>2
    <2>2. QED  BY <1>1, <1>3, <2>1, OffsetBound
<1>11. QED  BY <1>8, <1>9, <1>10

(* What plan hands over, for the command c: a candidate, and a path for every drone.     *)
Handed(c) ==
    /\ c \in Configs /\ Feasible(c) /\ n_passes \in Candidates(c)
    /\ quad_paths = [quad \in 1..c.num_quads |->
                        OffsetPath(BuildSpine(c, n_passes), OffsetOf(c, n_passes, quad))]
    /\ \A quad \in 1..c.num_quads : quad_paths[quad] # <<>>

TrackOf(c, quad, pass) ==
    RowY(c, n_passes, pass) + ShiftOf(pass, OffsetOf(c, n_passes, quad))

(* The path of one of its drones.                                                *)
LEMMA HandedPath ==
    ASSUME NEW c, Handed(c), NEW quad \in 1..c.num_quads
    PROVE  /\ DOMAIN quad_paths = 1..c.num_quads
           /\ quad_paths[quad] = OffsetPath(BuildSpine(c, n_passes), OffsetOf(c, n_passes, quad))
           /\ quad_paths[quad] # <<>>
           /\ DOMAIN quad_paths[quad] = 1..(2 * n_passes - 1)
           /\ Joined(quad_paths[quad]) /\ InField(c, quad_paths[quad])
           /\ \A pass \in 0..(n_passes - 1) :
                 /\ quad_paths[quad][2 * pass + 1].kind = "line"
                 /\ quad_paths[quad][2 * pass + 1].y = TrackOf(c, quad, pass)
           /\ \A pass \in 0..(n_passes - 2) :
                 /\ quad_paths[quad][2 * pass + 2].kind = "arc"
                 /\ TurnRadius(c) + ShiftOf(pass, OffsetOf(c, n_passes, quad)) > 0
<1> DEFINE path == quad_paths[quad]
<1> DEFINE offset == OffsetOf(c, n_passes, quad)
<1>1. c \in Configs /\ Feasible(c) /\ n_passes \in Candidates(c)
    BY DEF Handed
<1>2. /\ DOMAIN quad_paths = 1..c.num_quads
      /\ path = OffsetPath(BuildSpine(c, n_passes), offset)
      /\ path # <<>>
    BY DEF Handed
<1>3. offset \in Int /\ offset <= MaxOffset(c, n_passes) /\ -offset <= MaxOffset(c, n_passes)
    BY <1>1, Offsets
<1> HIDE DEF path, offset
<1>4. /\ DOMAIN path = 1..(2 * n_passes - 1)
      /\ \A pass \in 0..(n_passes - 1) :
            path[2 * pass + 1] =
               Line(GoesRight(pass), LineFrom(c, n_passes, pass), LineTo(c, n_passes, pass),
                    RowY(c, n_passes, pass) + ShiftOf(pass, offset))
      /\ \A pass \in 0..(n_passes - 2) :
            /\ path[2 * pass + 2] =
                  Arc(GoesRight(pass), PassEnd(c, n_passes, GoesRight(pass)),
                      RowY(c, n_passes, pass) - TurnRadius(c),
                      TurnRadius(c) + ShiftOf(pass, offset))
            /\ TurnRadius(c) + ShiftOf(pass, offset) > 0
    BY <1>1, <1>2, <1>3, PathSegments
<1>5. Joined(path)
    BY <1>1, <1>2, <1>3, PathJoined
<1>6. InField(c, path)
    BY <1>1, <1>2, <1>3, PathInField DEF InField
<1>7. \A pass \in 0..(n_passes - 1) :
          /\ path[2 * pass + 1].kind = "line"
          /\ path[2 * pass + 1].y = RowY(c, n_passes, pass) + ShiftOf(pass, offset)
    <2>1. \A right, from, to, y :
              Line(right, from, to, y).kind = "line" /\ Line(right, from, to, y).y = y
        BY DEF Line
    <2>2. QED  BY <1>4, <2>1
<1>8. \A pass \in 0..(n_passes - 2) : path[2 * pass + 2].kind = "arc"
    <2>1. \A right, x, y, radius : Arc(right, x, y, radius).kind = "arc"
        BY DEF Arc
    <2>2. QED  BY <1>4, <2>1
<1>9. QED  BY <1>2, <1>4, <1>5, <1>6, <1>7, <1>8 DEF path, offset, TrackOf

(* The tracks are the heights of the drones' passes.                                *)
LEMMA TracksOf ==
    ASSUME NEW c, Handed(c)
    PROVE  /\ \A quad \in 1..c.num_quads, pass \in 0..(n_passes - 1) :
                 TrackOf(c, quad, pass) \in Tracks
           /\ \A y \in Tracks :
                 \E quad \in 1..c.num_quads, pass \in 0..(n_passes - 1) :
                    y = TrackOf(c, quad, pass)
<1>0. c \in Configs /\ Feasible(c) /\ n_passes \in Candidates(c)
    BY DEF Handed
<1>1. n_passes \in Nat /\ n_passes >= 2 /\ c.num_quads \in Nat /\ c.num_quads >= 1
    BY <1>0, CandidatePasses, ConfigSizes
<1>2. DOMAIN quad_paths = 1..c.num_quads
    BY <1>1, HandedPath
<1>3. ASSUME NEW quad \in 1..c.num_quads, NEW pass \in 0..(n_passes - 1)
      PROVE  TrackOf(c, quad, pass) \in Tracks
    <2>1. /\ 2 * pass + 1 \in DOMAIN quad_paths[quad]
          /\ quad_paths[quad][2 * pass + 1].kind = "line"
          /\ quad_paths[quad][2 * pass + 1].y = TrackOf(c, quad, pass)
        <3>1. 2 * pass + 1 \in 1..(2 * n_passes - 1)
            BY <1>1
        <3>2. QED  BY <3>1, HandedPath
    <2>2. QED  BY <1>2, <2>1 DEF Tracks
<1>4. ASSUME NEW y \in Tracks
      PROVE  \E quad \in 1..c.num_quads, pass \in 0..(n_passes - 1) :
                y = TrackOf(c, quad, pass)
    <2>1. PICK quad \in 1..c.num_quads :
              \E i \in DOMAIN quad_paths[quad] :
                 quad_paths[quad][i].kind = "line" /\ y = quad_paths[quad][i].y
        BY <1>2 DEF Tracks
    <2>2. PICK i \in 1..(2 * n_passes - 1) :
              quad_paths[quad][i].kind = "line" /\ y = quad_paths[quad][i].y
        BY <2>1, HandedPath
    <2>3. ~ \E pass \in 0..(n_passes - 2) : i = 2 * pass + 2
        BY <2>2, HandedPath
    <2>4. PICK pass \in 0..(n_passes - 1) : i = 2 * pass + 1
        BY <1>1, <2>3, SegmentIndex
    <2>5. y = TrackOf(c, quad, pass)
        BY <2>2, <2>4, HandedPath
    <2>6. QED  BY <2>5
<1>5. QED  BY <1>3, <1>4

(* The drones of a plan are abreast.                                             *)
LEMMA HandedAbreast ==
    ASSUME NEW c, Handed(c)
    PROVE  Abreast(c)
<1>0. c \in Configs /\ Feasible(c) /\ n_passes \in Candidates(c)
    BY DEF Handed
<1>1. /\ n_passes \in Nat /\ n_passes >= 2 /\ c.num_quads \in Nat
      /\ c.d * Scale(n_passes) \in Int
    BY <1>0, CandidatePasses, ConfigSizes, CandidateSizes
<1> SUFFICES ASSUME NEW quad \in 1..(c.num_quads - 1), NEW i \in 1..(2 * n_passes - 1), i % 2 = 1
             PROVE  quad_paths[quad + 1][i].y - quad_paths[quad][i].y
                       \in {c.d * Scale(n_passes), -(c.d * Scale(n_passes))}
    <2>1. -c.d * Scale(n_passes) = -(c.d * Scale(n_passes))
        BY <1>0, <1>1, ConfigSizes DEF Scale
    <2>2. QED  BY <2>1 DEF Abreast
<1>2. PICK pass \in 0..(n_passes - 1) : i = 2 * pass + 1
    BY <1>1, SegmentIndex
<1>3. quad \in 1..c.num_quads /\ quad + 1 \in 1..c.num_quads
    BY <1>1
<1>4. quad_paths[quad + 1][i].y = TrackOf(c, quad + 1, pass)
      /\ quad_paths[quad][i].y = TrackOf(c, quad, pass)
    BY <1>2, <1>3, HandedPath
<1>5. /\ OffsetOf(c, n_passes, quad) \in Int
      /\ OffsetOf(c, n_passes, quad + 1) = OffsetOf(c, n_passes, quad) + c.d * Scale(n_passes)
      /\ RowY(c, n_passes, pass) \in Int
    BY <1>0, <1>3, Offsets, Rows
<1>6. QED  BY <1>1, <1>4, <1>5 DEF TrackOf, ShiftOf

(* No two passes of a plan meet: each drone has a path, so the first turn is wider than     *)
(* half the formation.                                                          *)
LEMMA HandedTurns ==
    ASSUME NEW c, Handed(c)
    PROVE  TurnRadius(c) > MaxOffset(c, n_passes)
<1>0. c \in Configs /\ Feasible(c) /\ n_passes \in Candidates(c)
    BY DEF Handed
<1>1. /\ n_passes \in Nat /\ n_passes >= 2 /\ TurnRadius(c) \in Int
      /\ MaxOffset(c, n_passes) \in Int /\ c.num_quads \in 1..c.num_quads
    BY <1>0, CandidatePasses, ConfigSizes, CandidateSizes
<1>2. 0 \in 0..(n_passes - 2)
    BY <1>1
<1>3. TurnRadius(c) + ShiftOf(0, OffsetOf(c, n_passes, c.num_quads)) > 0
    BY <1>1, <1>2, HandedPath
<1>4. ShiftOf(0, OffsetOf(c, n_passes, c.num_quads)) = -MaxOffset(c, n_passes)
    <2>1. OffsetOf(c, n_passes, c.num_quads) = MaxOffset(c, n_passes)
        BY <1>0, Offsets
    <2>2. QED  BY <2>1 DEF ShiftOf, GoesRight
<1>5. QED  BY <1>1, <1>3, <1>4

(* No drone's pass is further from the next one above it than coverage_spacing: above it    *)
(* is another drone in the same pass, or, for the uppermost, the lowest in the pass before. *)
LEMMA NextTrack ==
    ASSUME NEW c, Handed(c), NEW quad \in 1..c.num_quads, NEW pass \in 0..(n_passes - 1),
           TrackOf(c, quad, pass) # c.Ly * Scale(n_passes)
    PROVE  \E next \in Tracks :
              /\ next > TrackOf(c, quad, pass)
              /\ next - TrackOf(c, quad, pass) <= c.coverage_spacing * Scale(n_passes)
<1> DEFINE here == TrackOf(c, quad, pass)
<1> DEFINE apart == c.d * Scale(n_passes)
<1> DEFINE limit == c.coverage_spacing * Scale(n_passes)
<1> DEFINE half == MaxOffset(c, n_passes)
<1>0. c \in Configs /\ Feasible(c) /\ n_passes \in Candidates(c)
    BY DEF Handed
<1>1. /\ n_passes \in Nat /\ n_passes >= 2 /\ c.num_quads \in Nat /\ c.num_quads >= 1
      /\ pass \in Nat /\ quad \in Nat /\ quad >= 1 /\ quad <= c.num_quads
    BY <1>0, CandidatePasses, ConfigSizes
<1>2. /\ apart \in Int /\ apart > 0 /\ limit \in Int /\ half \in Int
      /\ TurnRadius(c) \in Int
      /\ c.num_quads = 1 \/ apart <= limit
      /\ 2 * TurnRadius(c) - 2 * half <= limit /\ TurnRadius(c) > half
    BY <1>0, CandidateSizes, HandedTurns
<1>3. \A p \in 0..(n_passes - 1) : RowY(c, n_passes, p) \in Int
    BY <1>0, Rows
<1>4. /\ OffsetOf(c, n_passes, 1) = -half /\ OffsetOf(c, n_passes, c.num_quads) = half
      /\ \A q \in 1..c.num_quads : OffsetOf(c, n_passes, q) \in Int
      /\ \A q \in 1..(c.num_quads - 1) :
            OffsetOf(c, n_passes, q + 1) = OffsetOf(c, n_passes, q) + apart
    BY <1>0, Offsets
<1> HIDE DEF apart, limit, half
(* The row above, whose drones are in the opposite order.                           *)
<1>5. ASSUME pass > 0
      PROVE  /\ pass - 1 \in 0..(n_passes - 1)
             /\ RowY(c, n_passes, pass - 1) = RowY(c, n_passes, pass) + 2 * TurnRadius(c)
             /\ GoesRight(pass - 1) <=> ~GoesRight(pass)
    <2>1. pass - 1 \in 0..(n_passes - 2) /\ pass - 1 \in Nat /\ (pass - 1) + 1 = pass
        BY <1>1, <1>5
    <2>2. RowY(c, n_passes, (pass - 1) + 1) = RowY(c, n_passes, pass - 1) - 2 * TurnRadius(c)
        BY <1>0, <2>1, Rows
    <2>3. GoesRight((pass - 1) + 1) = ~GoesRight(pass - 1) /\ GoesRight(pass - 1) \in BOOLEAN
        BY <2>1, Directions
    <2>4. pass - 1 \in 0..(n_passes - 1)
        BY <1>1, <2>1
    <2>5. RowY(c, n_passes, pass - 1) \in Int
        BY <1>3, <2>4
    <2>6. GoesRight(pass - 1) <=> ~GoesRight(pass)
        BY <2>1, <2>3
    <2>7. QED  BY <1>2, <1>3, <2>1, <2>2, <2>4, <2>5, <2>6
<1>6. CASE GoesRight(pass)
    <2>1. here = RowY(c, n_passes, pass) + OffsetOf(c, n_passes, quad)
        BY <1>6 DEF TrackOf, ShiftOf
    <2>2. CASE quad < c.num_quads
        <3>1. quad \in 1..(c.num_quads - 1) /\ quad + 1 \in 1..c.num_quads /\ c.num_quads # 1
            BY <1>1, <2>2
        <3>2. TrackOf(c, quad + 1, pass) \in Tracks
            BY <3>1, TracksOf
        <3>3. TrackOf(c, quad + 1, pass) = RowY(c, n_passes, pass) + OffsetOf(c, n_passes, quad + 1)
            BY <1>6 DEF TrackOf, ShiftOf
        <3>4. TrackOf(c, quad + 1, pass) = here + apart /\ here \in Int
            BY <1>2, <1>3, <1>4, <2>1, <3>1, <3>3
        <3> HIDE DEF here
        <3>5. QED  BY <1>2, <3>1, <3>2, <3>4 DEF here, limit
    <2>3. CASE quad = c.num_quads
        <3>1. pass > 0
            BY <1>1, <1>6, Directions
        <3>2. 1 \in 1..c.num_quads /\ pass - 1 \in 0..(n_passes - 1) /\ ~GoesRight(pass - 1)
            BY <1>1, <1>5, <1>6, <3>1
        <3>3. TrackOf(c, c.num_quads, pass - 1) \in Tracks
            BY <1>1, <2>3, <3>2, TracksOf
        <3>4. TrackOf(c, c.num_quads, pass - 1) = RowY(c, n_passes, pass - 1) - half
            BY <1>2, <1>3, <1>4, <3>2 DEF TrackOf, ShiftOf
        <3>5. here = RowY(c, n_passes, pass) + half
            BY <1>4, <2>1, <2>3
        <3>6. here \in Int
              /\ TrackOf(c, c.num_quads, pass - 1) = here + 2 * TurnRadius(c) - 2 * half
            BY <1>2, <1>3, <1>5, <3>1, <3>4, <3>5
        <3> HIDE DEF here
        <3>7. QED  BY <1>2, <3>3, <3>6 DEF here, limit
    <2>4. QED  BY <1>1, <2>2, <2>3
<1>7. CASE ~GoesRight(pass)
    <2>1. here = RowY(c, n_passes, pass) - OffsetOf(c, n_passes, quad)
        BY <1>3, <1>4, <1>7 DEF TrackOf, ShiftOf
    <2>2. CASE quad > 1
        <3>1. quad - 1 \in 1..(c.num_quads - 1) /\ quad - 1 \in 1..c.num_quads
              /\ (quad - 1) + 1 = quad /\ c.num_quads # 1
            BY <1>1, <2>2
        <3>2. TrackOf(c, quad - 1, pass) \in Tracks
            BY <3>1, TracksOf
        <3>3. TrackOf(c, quad - 1, pass) = RowY(c, n_passes, pass) - OffsetOf(c, n_passes, quad - 1)
            BY <1>3, <1>4, <1>7, <3>1 DEF TrackOf, ShiftOf
        <3>4. OffsetOf(c, n_passes, quad) = OffsetOf(c, n_passes, quad - 1) + apart
            BY <1>4, <3>1
        <3>5. TrackOf(c, quad - 1, pass) = here + apart /\ here \in Int
            BY <1>2, <1>3, <1>4, <2>1, <3>1, <3>3, <3>4
        <3> HIDE DEF here
        <3>6. QED  BY <1>2, <3>1, <3>2, <3>5 DEF here, limit
    <2>3. CASE quad = 1
        <3>1. here = RowY(c, n_passes, pass) + half
            BY <1>2, <1>3, <1>4, <2>1, <2>3
        <3>2. pass # 0
            <4>1. RowY(c, n_passes, 0) = c.Ly * Scale(n_passes) - half
                BY <1>0, Rows DEF half
            <4>2. c.Ly * Scale(n_passes) \in Int
                BY <1>0, CandidateSizes
            <4>3. QED  BY <1>2, <3>1, <4>1, <4>2
        <3>3. pass > 0 /\ 1 \in 1..c.num_quads /\ pass - 1 \in 0..(n_passes - 1)
              /\ GoesRight(pass - 1)
            BY <1>1, <1>5, <1>7, <3>2
        <3>4. TrackOf(c, 1, pass - 1) \in Tracks
            BY <3>3, TracksOf
        <3>5. TrackOf(c, 1, pass - 1) = RowY(c, n_passes, pass - 1) - half
            BY <1>2, <1>3, <1>4, <3>3 DEF TrackOf, ShiftOf
        <3>6. here \in Int
              /\ TrackOf(c, 1, pass - 1) = here + 2 * TurnRadius(c) - 2 * half
            BY <1>2, <1>3, <1>5, <3>1, <3>3, <3>5
        <3> HIDE DEF here
        <3>7. QED  BY <1>2, <3>4, <3>6 DEF here, limit
    <2>4. QED  BY <1>1, <2>2, <2>3
<1>8. QED  BY <1>6, <1>7

(* The tracks leave no gap, and the first and the last are the edges of the field.          *)
LEMMA HandedNoGap ==
    ASSUME NEW c, Handed(c)
    PROVE  NoGap(c)
<1>0. c \in Configs /\ Feasible(c) /\ n_passes \in Candidates(c)
    BY DEF Handed
<1>1. /\ n_passes \in Nat /\ n_passes >= 2 /\ MaxOffset(c, n_passes) \in Int
      /\ 1 \in 1..c.num_quads /\ c.num_quads \in 1..c.num_quads
      /\ c.Ly * Scale(n_passes) \in Int
    BY <1>0, CandidatePasses, ConfigSizes, CandidateSizes
<1>2. 0 \in 0..(n_passes - 1) /\ n_passes - 1 \in 0..(n_passes - 1) /\ n_passes - 1 \in Nat
    BY <1>1
<1>3. OffsetOf(c, n_passes, 1) = -MaxOffset(c, n_passes)
      /\ OffsetOf(c, n_passes, c.num_quads) = MaxOffset(c, n_passes)
    BY <1>0, Offsets
<1>4. RowY(c, n_passes, 0) = c.Ly * Scale(n_passes) - MaxOffset(c, n_passes)
      /\ RowY(c, n_passes, n_passes - 1) = MaxOffset(c, n_passes)
    BY <1>0, Rows
<1>5. c.Ly * Scale(n_passes) \in Tracks
    <2>1. TrackOf(c, 1, 0) \in Tracks
        BY <1>1, <1>2, TracksOf
    <2>2. ShiftOf(0, OffsetOf(c, n_passes, 1)) = MaxOffset(c, n_passes)
        BY <1>1, <1>3 DEF ShiftOf, GoesRight
    <2>3. QED  BY <1>1, <1>4, <2>1, <2>2 DEF TrackOf
<1>6. 0 \in Tracks
    <2> DEFINE outer == IF GoesRight(n_passes - 1) THEN 1 ELSE c.num_quads
    <2>1. TrackOf(c, outer, n_passes - 1) \in Tracks
        BY <1>1, <1>2, TracksOf
    <2>2. ShiftOf(n_passes - 1, OffsetOf(c, n_passes, outer)) = -MaxOffset(c, n_passes)
        BY <1>1, <1>3 DEF ShiftOf
    <2>3. QED  BY <1>1, <1>4, <2>1, <2>2 DEF TrackOf
<1>7. ASSUME NEW y \in Tracks \ {c.Ly * Scale(n_passes)}
      PROVE  \E next \in Tracks :
                next > y /\ next - y <= c.coverage_spacing * Scale(n_passes)
    <2>1. PICK quad \in 1..c.num_quads, pass \in 0..(n_passes - 1) : y = TrackOf(c, quad, pass)
        BY TracksOf
    <2>2. QED  BY <1>7, <2>1, NextTrack
<1>8. QED  BY <1>5, <1>6, <1>7 DEF NoGap

(* plan's own checks of the frame do not fail: the first pass goes to the left, along the    *)
(* upper edge for the leader, and beside it for the others.                           *)
LEMMA FirstWaypoint ==
    ASSUME NEW c \in Configs, NEW n \in Candidates(c), Feasible(c),
           NEW quad \in 1..c.num_quads, NEW path,
           path = OffsetPath(BuildSpine(c, n), OffsetOf(c, n, quad)), path # <<>>
    PROVE  StartOf(path[1]) = <<c.Lx * Scale(n), (c.Ly - (quad - 1) * c.d) * Scale(n)>>
<1> DEFINE offset == OffsetOf(c, n, quad)
<1> DEFINE beside == (quad - 1) * c.d
<1>1. /\ n \in Nat /\ n >= 2 /\ 0 \in 0..(n - 1) /\ Scale(n) \in Int
      /\ MaxOffset(c, n) \in Int /\ c.Ly * Scale(n) \in Int
    <2>1. n \in Nat /\ n >= 2
        BY CandidatePasses
    <2>2. MaxOffset(c, n) \in Int /\ c.Ly * Scale(n) \in Int
        BY CandidateSizes
    <2>3. Scale(n) \in Int
        BY <2>1 DEF Scale
    <2>4. QED  BY <2>1, <2>2, <2>3
<1>2. c.num_quads \in Nat /\ c.d \in Nat /\ quad \in Nat /\ beside \in Int /\ c.Ly \in Nat
    BY ConfigSizes
<1>3. offset \in Int /\ offset = beside * Scale(n) - MaxOffset(c, n)
    BY Offsets
<1>4. path[2 * 0 + 1] =
          Line(GoesRight(0), LineFrom(c, n, 0), LineTo(c, n, 0),
               RowY(c, n, 0) + ShiftOf(0, offset))
    BY <1>1, <1>3, PathSegments
<1>5. LineFrom(c, n, 0) = c.Lx * Scale(n)
    BY DEF LineFrom, FieldEnd, GoesRight
<1>6. RowY(c, n, 0) = c.Ly * Scale(n) - MaxOffset(c, n)
    BY Rows
<1> HIDE DEF offset, beside
<1>7. ShiftOf(0, offset) = -offset
    BY DEF ShiftOf, GoesRight
<1>8. (c.Ly - beside) * Scale(n) = c.Ly * Scale(n) - beside * Scale(n)
    BY <1>1, <1>2
<1>9. beside * Scale(n) \in Int
    BY <1>1, <1>2
<1>10. RowY(c, n, 0) + ShiftOf(0, offset) = (c.Ly - beside) * Scale(n)
    BY <1>1, <1>3, <1>6, <1>7, <1>8, <1>9
<1>11. path[1] = Line(GoesRight(0), LineFrom(c, n, 0), LineTo(c, n, 0),
                      RowY(c, n, 0) + ShiftOf(0, offset))
    BY <1>4
<1>12. StartOf(path[1]) = <<LineFrom(c, n, 0), RowY(c, n, 0) + ShiftOf(0, offset)>>
    BY <1>11 DEF StartOf, Line
<1>13. QED  BY <1>5, <1>10, <1>12 DEF beside

(* What every plan has, whether it is handed over or not.                             *)
CoverageInv ==
    /\ CoverageTypeOK /\ outcome # "frame_error"
    /\ outcome = "none" => n_passes = 0
    /\ outcome = "planned" => \A c \in config : Handed(c)

(* The parameters and the plan have their types: a plan has a path for every drone, and no    *)
(* more passes than the field is high and one (online_waypoint_generator.py).          *)
THEOREM CoverageInvariant == CoverageSpec => []CoverageInv
<1>1. CoverageInit => CoverageInv
  <2> SUFFICES ASSUME CoverageInit PROVE CoverageInv
      OBVIOUS
  <2>1. config = {} /\ outcome = "none" /\ n_passes = 0
      BY DEF CoverageInit
  <2>2. Cardinality(config) = 0
      BY <2>1, FS_EmptySet
  <2>3. QED  BY <2>1, <2>2 DEF CoverageInv, CoverageTypeOK
<1>2. CoverageInv /\ [CoverageNext]_coverageVars => CoverageInv'
  <2> SUFFICES ASSUME CoverageInv, [CoverageNext]_coverageVars PROVE CoverageInv'
      OBVIOUS
  <2>1. \A c \in Configs : {c} \subseteq Configs /\ Cardinality({c}) <= 1
    <3>1. \A c : Cardinality({c}) = 1
        BY FS_Singleton
    <3>2. QED  BY <3>1
  <2>2. ASSUME NEW c \in Configs, outcome = "none", Refuse(c) PROVE CoverageInv'
    <3>1. n_passes = 0 /\ c.Ly \in Nat
        BY <2>2, ConfigSizes DEF CoverageInv
    <3>2. outcome' = "refused" /\ config' = {c} /\ n_passes' = 0
        BY <2>2, <3>1 DEF Refuse
    <3>3. config' \subseteq Configs /\ Cardinality(config') <= 1
        BY <2>1, <3>2
    <3>4. \A k \in config' : n_passes' <= k.Ly + 1
        BY <3>1, <3>2
    <3>5. CoverageTypeOK'
        BY <3>2, <3>3, <3>4 DEF CoverageTypeOK
    <3>6. QED  BY <3>2, <3>5 DEF CoverageInv
  <2>3. ASSUME NEW c \in Configs, Feasible(c), NEW n \in Candidates(c), Plan(c, n)
        PROVE  CoverageInv'
    <3> DEFINE paths == [quad \in 1..c.num_quads |->
                            OffsetPath(BuildSpine(c, n), OffsetOf(c, n, quad))]
    <3>1. config' = {c} /\ n_passes' = n /\ quad_paths' = paths
        BY <2>3 DEF Plan
    <3>2. ~Misplaced(c, n, paths)
        BY <2>3, FirstWaypoint DEF Misplaced
    <3>3. outcome' = IF <<>> \in Range(paths) THEN "crashed"
                     ELSE IF WaypointCount(n, paths[1]) > WaypointLimit THEN "refused"
                     ELSE "planned"
        BY <2>3, <3>2 DEF Plan
    <3>4. outcome' \in {"crashed", "refused", "planned"}
          /\ (outcome' = "planned" => <<>> \notin Range(paths))
        BY <3>3
    <3>5. n \in Nat /\ n <= c.Ly + 1 /\ c.Ly \in Nat
        BY <2>3, CandidatePasses, ConfigSizes
    <3>6. CoverageTypeOK'
        <4>1. DOMAIN quad_paths' = 1..c.num_quads
            BY <3>1
        <4>2. config' \subseteq Configs /\ Cardinality(config') <= 1
            BY <2>1, <3>1
        <4>3. n_passes' \in Nat /\ \A k \in config' : n_passes' <= k.Ly + 1
            BY <3>1, <3>5
        <4>4. \A k \in config' : DOMAIN quad_paths' = 1..k.num_quads
            BY <3>1, <4>1
        <4>5. QED  BY <3>4, <4>2, <4>3, <4>4 DEF CoverageTypeOK
    <3>7. ASSUME outcome' = "planned" PROVE Handed(c)'
        <4>1. \A quad \in 1..c.num_quads : paths[quad] # <<>>
            BY <3>4, <3>7 DEF Range
        <4>2. QED  BY <2>3, <3>1, <4>1 DEF Handed
    <3>8. QED  BY <3>1, <3>4, <3>6, <3>7 DEF CoverageInv
  <2>4. ASSUME UNCHANGED coverageVars PROVE CoverageInv'
      BY <2>4 DEF coverageVars, CoverageInv, CoverageTypeOK, Handed
  <2>5. QED  BY <2>2, <2>3, <2>4 DEF CoverageNext, OnlineMission
<1>3. QED  BY <1>1, <1>2, PTL DEF CoverageSpec

(* A turn of a shifted path (offset_path).                                         *)
LEMMA ShiftedTurn ==
    ASSUME NEW c, NEW n \in Nat, n >= 2, NEW i \in 1..(2 * n - 1), NEW offset \in Int,
           TurnRadius(c) \in Int
    PROVE  /\ i % 2 = 1 => Shifted(BuildSpine(c, n)[i], offset).kind = "line"
           /\ i % 2 # 1 =>
                 /\ Shifted(BuildSpine(c, n)[i], offset).kind = "arc"
                 /\ Shifted(BuildSpine(c, n)[i], offset).radius =
                       TurnRadius(c) + (IF GoesRight(i \div 2 - 1) THEN offset ELSE -offset)
<1>1. CASE i % 2 = 1
    <2>1. PICK right, from, to, y : BuildSpine(c, n)[i] = Line(right, from, to, y)
        BY <1>1 DEF BuildSpine, SpineLine
    <2>2. QED  BY <1>1, <2>1 DEF Shifted, Line
<1>2. CASE i % 2 # 1
    <2>1. PICK x, y : BuildSpine(c, n)[i] = Arc(GoesRight(i \div 2 - 1), x, y, TurnRadius(c))
        BY <1>2 DEF BuildSpine, SpineArc
    <2>2. QED  BY <1>2, <2>1 DEF Shifted, Arc
<1>3. QED  BY <1>1, <1>2

(* A path fails only if a turn is no wider than its offset; one to the right fails if     *)
(* it is as tight as the offset to its right.                                     *)
LEMMA PathFails ==
    ASSUME NEW c, NEW n \in Nat, n >= 2, NEW offset \in Int, TurnRadius(c) \in Int
    PROVE  /\ OffsetPath(BuildSpine(c, n), offset) = <<>>
                 => TurnRadius(c) <= offset \/ TurnRadius(c) <= -offset
           /\ n >= 3 /\ TurnRadius(c) + offset <= 0
                 => OffsetPath(BuildSpine(c, n), offset) = <<>>
<1> DEFINE spine == BuildSpine(c, n)
<1> DEFINE path == [i \in DOMAIN spine |-> Shifted(spine[i], offset)]
<1>1. DOMAIN spine = 1..(2 * n - 1) /\ DOMAIN path = 1..(2 * n - 1)
    BY DEF BuildSpine
<1>2. path # <<>>
    BY <1>1
<1>3. OffsetPath(spine, offset) =
          IF \E i \in DOMAIN path : path[i].kind = "arc" /\ path[i].radius <= 0
          THEN <<>> ELSE path
    BY DEF OffsetPath
<1>4. \A i \in 1..(2 * n - 1) : path[i] = Shifted(BuildSpine(c, n)[i], offset)
    BY <1>1
<1> HIDE DEF path
<1>5. ASSUME OffsetPath(spine, offset) = <<>>
      PROVE  TurnRadius(c) <= offset \/ TurnRadius(c) <= -offset
    <2>1. PICK i \in 1..(2 * n - 1) : path[i].kind = "arc" /\ path[i].radius <= 0
        BY <1>1, <1>2, <1>3, <1>5
    <2>2. path[i] = Shifted(BuildSpine(c, n)[i], offset)
        BY <1>4
    <2>3. i % 2 # 1
        BY <2>1, <2>2, ShiftedTurn
    <2>4. path[i].radius = TurnRadius(c) + (IF GoesRight(i \div 2 - 1) THEN offset ELSE -offset)
        BY <2>2, <2>3, ShiftedTurn
    <2>5. QED  BY <2>1, <2>4
<1>6. ASSUME n >= 3, TurnRadius(c) + offset <= 0
      PROVE  OffsetPath(spine, offset) = <<>>
    <2>1. 4 \in 1..(2 * n - 1) /\ 4 % 2 # 1 /\ GoesRight(4 \div 2 - 1)
        BY <1>6 DEF GoesRight
    <2>2. path[4] = Shifted(BuildSpine(c, n)[4], offset)
        BY <1>4, <2>1
    <2>3. path[4].kind = "arc" /\ path[4].radius = TurnRadius(c) + offset
        BY <2>1, <2>2, ShiftedTurn
    <2>4. QED  BY <1>1, <1>3, <1>6, <2>1, <2>3
<1>7. QED  BY <1>5, <1>6

(* The planner ends the node for two passes only, with a turn as tight as the formation    *)
(* is wide: plan of online_waypoint_generator.py, whatever the parameters.               *)
THEOREM NodeEndsTightOnly == CoverageSpec => []EndsTightOnly
<1>1. CoverageInit => EndsTightOnly
    BY DEF CoverageInit, EndsTightOnly
<1>2. EndsTightOnly /\ [CoverageNext]_coverageVars => EndsTightOnly'
  <2> SUFFICES ASSUME EndsTightOnly, [CoverageNext]_coverageVars PROVE EndsTightOnly'
      OBVIOUS
  <2>1. ASSUME NEW c \in Configs, Refuse(c) PROVE EndsTightOnly'
      BY <2>1 DEF Refuse, EndsTightOnly
  <2>2. ASSUME NEW c \in Configs, Feasible(c), NEW n \in Candidates(c), Plan(c, n)
        PROVE  EndsTightOnly'
    <3> SUFFICES ASSUME outcome' = "crashed"
                 PROVE  n = 2 /\ TurnRadius(c) = MaxOffset(c, n)
        BY <2>2 DEF Plan, EndsTightOnly
    <3> DEFINE paths == [quad \in 1..c.num_quads |->
                            OffsetPath(BuildSpine(c, n), OffsetOf(c, n, quad))]
    <3>1. <<>> \in Range(paths)
        BY <2>2 DEF Plan
    <3>2. PICK quad \in 1..c.num_quads :
              OffsetPath(BuildSpine(c, n), OffsetOf(c, n, quad)) = <<>>
        BY <3>1 DEF Range
    <3>3. n \in Nat /\ n >= 2 /\ TurnRadius(c) \in Int /\ TurnRadius(c) >= MaxOffset(c, n)
          /\ OffsetPath(BuildSpine(c, n), OffsetOf(c, n, 1)) # <<>>
        BY <2>2, CandidatePasses, CandidateSizes DEF Candidates
    <3>4. /\ OffsetOf(c, n, quad) \in Int /\ MaxOffset(c, n) \in Int
          /\ OffsetOf(c, n, quad) <= MaxOffset(c, n)
          /\ -OffsetOf(c, n, quad) <= MaxOffset(c, n)
        BY <3>3, OffsetBound
    <3>5. TurnRadius(c) <= OffsetOf(c, n, quad) \/ TurnRadius(c) <= -OffsetOf(c, n, quad)
        BY <3>2, <3>3, <3>4, PathFails
    <3>6. TurnRadius(c) = MaxOffset(c, n)
        BY <3>3, <3>4, <3>5
    <3>7. OffsetOf(c, n, 1) = -MaxOffset(c, n)
        BY <2>2, Offsets
    <3>8. TurnRadius(c) + OffsetOf(c, n, 1) <= 0 /\ OffsetOf(c, n, 1) \in Int
        BY <3>4, <3>6, <3>7
    <3>9. ~(n >= 3)
        BY <3>3, <3>8, PathFails
    <3>10. QED  BY <3>3, <3>6, <3>9
  <2>3. ASSUME UNCHANGED coverageVars PROVE EndsTightOnly'
      BY <2>3 DEF coverageVars, EndsTightOnly
  <2>4. QED  BY <2>1, <2>2, <2>3 DEF CoverageNext, OnlineMission
<1>3. QED  BY <1>1, <1>2, PTL DEF CoverageSpec

(* The types of the planner's state, whatever the parameters are.                       *)
THEOREM CoverageTypeCorrect == CoverageSpec => []CoverageTypeOK
<1>1. CoverageInv => CoverageTypeOK
    BY DEF CoverageInv
<1>2. QED  BY <1>1, CoverageInvariant, PTL

(* Whatever the field, the fleet and the distances: plan hands over a sweep of the whole     *)
(* field by joined paths inside it, abreast and with no gap wider than coverage_spacing;      *)
(* its own checks of the frame never fail (online_waypoint_generator.py).                 *)
THEOREM SweepAlwaysFlyable == CoverageSpec => []SweepIsFlyable
<1>1. CoverageInv /\ EndsTightOnly => SweepIsFlyable
  <2> SUFFICES ASSUME CoverageInv, EndsTightOnly, outcome = "planned", NEW c \in config
               PROVE  /\ \A quad \in DOMAIN quad_paths :
                            Joined(quad_paths[quad]) /\ InField(c, quad_paths[quad])
                      /\ NoGap(c) /\ Abreast(c)
      BY DEF CoverageInv, SweepIsFlyable
  <2>1. Handed(c)
      BY DEF CoverageInv
  <2>2. DOMAIN quad_paths = 1..c.num_quads
      BY <2>1 DEF Handed
  <2>3. QED  BY <2>1, <2>2, HandedPath, HandedNoGap, HandedAbreast
<1>2. QED  BY <1>1, CoverageInvariant, NodeEndsTightOnly, PTL
-----------------------------------------------------------------------------
(* The run of MCSupport.  A step of the whole is a step of every component or leaves it alone,  *)
(* so that what is proved of a component under its own specification holds of the whole.       *)
LEMMA StepOfEach ==
    ASSUME [SupportNext]_supportVars
    PROVE  /\ [DetectionNext]_detectionVars /\ [GimbalNext]_gimbalVars
           /\ [FramingNext]_framingVars /\ [TrackersNext]_trackersVars
           /\ [StatusNext]_statusVars /\ [LoggerNext]_loggerVars
           /\ [CoverageNext]_coverageVars /\ UNCHANGED component
    BY DEF SupportNext, supportVars, DetectionStep, GimbalStep, FramingStep, TrackersStep,
       StatusStep, LoggerStep, CoverageStep

(* A behavior of the run is a behavior of each component (MCSupport).                        *)
THEOREM EachRunsAlone ==
    SupportSpec => /\ DetectionSpec /\ GimbalSpec /\ FramingSpec /\ TrackersSpec
                   /\ StatusSpec /\ LoggerSpec /\ CoverageSpec
<1>1. SupportInit => /\ DetectionInit /\ GimbalInit /\ FramingInit /\ TrackersInit
                     /\ StatusInit /\ LoggerInit /\ CoverageInit
    BY DEF SupportInit
<1>2. [SupportNext]_supportVars =>
          /\ [DetectionNext]_detectionVars /\ [GimbalNext]_gimbalVars
          /\ [FramingNext]_framingVars /\ [TrackersNext]_trackersVars
          /\ [StatusNext]_statusVars /\ [LoggerNext]_loggerVars
          /\ [CoverageNext]_coverageVars
    BY StepOfEach
<1>3. QED
    BY <1>1, <1>2, PTL DEF SupportSpec, DetectionSpec, GimbalSpec, FramingSpec, TrackersSpec,
       StatusSpec, LoggerSpec, CoverageSpec

(* The types of all seven components together (SupportTypeOK).                              *)
THEOREM SupportTypeCorrect == SupportSpec => []SupportTypeOK
<1>1. SupportSpec => [](component \in Components)
  <2>1. SupportInit => component \in Components
      BY DEF SupportInit
  <2>2. component \in Components /\ [SupportNext]_supportVars => (component \in Components)'
      BY StepOfEach
  <2>3. QED  BY <2>1, <2>2, PTL DEF SupportSpec
<1>2. /\ component \in Components /\ DetectionTypeOK /\ GimbalTypeOK /\ FramingTypeOK
      /\ TrackersTypeOK /\ StatusTypeOK /\ LoggerTypeOK /\ CoverageTypeOK
      => SupportTypeOK
    BY DEF SupportTypeOK
<1>3. QED
    BY <1>1, <1>2, EachRunsAlone, DetectionTypeCorrect, GimbalTypeCorrect, FramingTypeCorrect,
       TrackersTypeCorrect, StatusTypeCorrect, LoggerTypeCorrect, CoverageTypeCorrect, PTL
==================================================================================
