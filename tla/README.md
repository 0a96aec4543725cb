# Verification of the drone swarm

TLA+ specifications of `multi_drone_real`, checked with TLC, and theorems about
them, proved with TLAPS. Paths below are relative to the repository's
`src/src/` unless they start with `src/`.

## 1. The system

Each drone carries a companion computer that talks to PX4 over uXRCE-DDS. The
companions of a swarm share ROS 2 topics over a wireless network, or over P900
radio modems through a serial bridge. A ground station commands the swarm
through its leader, or, in the decentralized variant, each drone. A drone runs one
of four controller packages, copied from each other.

### Inventory

| Component | State it keeps | Operations | Hard behaviours | What makes it correct |
|---|---|---|---|---|
| **Flight control** `swarm_single_no_tf_yaw/single_control_node.py`, `communication.py` | `DroneState`, setpoint counter, motion flag, manual flag, mission, landing, vision return, role, last PX4 report | one callback per command, PX4 topic and timer; 20 Hz control loop, 1 Hz status | any order of commands, PX4 reports, pilot takeover and role changes; restarts | take-off is never implicit; only one thing steers the drone; a released drone is silent; arming and landing end |
| **Leader election** `communication.py` | dictionary of neighbours with last-heard times, leader, role | liveness broadcast and reception, timeout check, referendum | lost and late messages, crashes, several leaders at a time | roles follow what is known; dead neighbours go; a settled swarm agrees |
| **Formation** `formation.py` | pattern, offset, animation | set, refresh, animate | recomputation from each drone's own view | no two followers in one slot |
| **Navigation** `navigation.py` | peer states, PID | `navigate_to_goal` | stale positions | hold when the leader is not known well enough |
| **Command relay, full status** `communication.py`, `system_report.py` | seen request keys, result queue | relay of commands, collection in a thread | role changes between request and answer | no answer of a step-down is mixed up or lost unnoticed |
| **P900 bridge** `swarm_p900_bridge/` | FIFO, latest states, connection, parser buffer, sequence numbers | send, receive, relay, reconnect, stop | two threads, disconnection between test and use, wrap of the counter | no reordering, no old command on a new connection, all frames accounted for |
| **Decentralized controller** `swarm_single_decenter/` | as flight control, without a leader | as flight control; detection | every controller publishes to one vision trigger | a detection session is ended only by those it belongs to |
| **Vision** `swarm_vision/` | enabled flag, classes, camera | trigger callback, inference thread | trigger during an inference | a detection belongs to the current session |
| **Flight launcher** `swarm_flight_launcher/` | SSH sessions, managed processes | connect, start, stop, close, in worker threads | check and start are not one step; stop beside start | what it starts it stops |
| **Coverage planning** `online_waypoint_generator.py` | none | `online_mission`: plan a sweep, hand it over | rounded bounds, equalities, turns that vanish | the sweep leaves no gap and stays in the field, or the command is refused |
| **Gimbal** `swarm_gimbal/` | motion flags and deadlines | control, watchdogs, poll | datagrams lost, send failures | motion is stopped when commands stop |
| **Station** `swarm_station/`, `swarm_station_decenter/` | last status, pending requests | input, status, timeouts | stale status; late reports | no request is left pending for ever |
| **Logger** `swarm_logger/` | stream trackers, event monitor | samples, reports | thread start against stop | nothing it started survives it |
| **Older controllers** `swarm_single/`, `swarm_single_no_tf/` | as flight control, without vision and yaw; `swarm_single` with a TF tree | as flight control | as flight control | what holds of flight control holds of every copy |
| Message definitions, launch files, models, recorded logs, unit files | - | - | - | no behaviour of their own |

### How they interact

* The station's command reaches the leader's `command_leader_callback`, which
  acts on it and relays it on the followers' command topic, where
  `command_callback` obeys any sender.
* The liveness topic feeds the referendum, which calls `become_leader`,
  `step_down_as_leader` and `refresh_pattern`: the election reaches into flight
  control (hold goal, vision return) and into the formation.
* PX4's status callback may release the drone at any time; the control loop
  publishes to PX4.
* The bridge replaces the network: its node thread offers messages to the serial
  worker thread through two queues and an event.
* `rclpy.spin` runs the callbacks of one node one at a time, so interleaving
  happens between callbacks, between nodes and with real threads (serial worker,
  status collection, inference, launcher workers, station input).

`PROJECT.json` lists every hazard with its line in the code and the properties
that cover it.

## 2. Modules

| Module | What it models |
|---|---|
| `FlightControl` | the control node of one drone (`swarm_single_no_tf_yaw`) |
| `FlightControlProofs` | theorems about it |
| `OlderControl`, `TfControl`, `DecentralizedControl` | the control nodes of the three other packages, by their differences |
| `Controllers` | the four of them: a drone with any package installed |
| `ControllersProofs` | theorems about it |
| `LeaderElection`, `MCLeaderElection` | liveness, timeouts, referendum and formation slots of a swarm, and the bounds of its run |
| `LeaderElectionProofs` | theorems about it |
| `FullStatus` | the health report of a swarm: station, relay, collection threads, role changes |
| `SharedDetection` | the decentralized swarm's detection: station, controllers, cameras |
| `SerialTransport` | the two threads of the bridge's serial transport |
| `SerialTransportProofs` | theorems about it, its refinement of `FrameChannel` among them |
| `FrameChannel` | what that transport promises about commands, abstractly |
| `Framing` | the byte-stream parsers of the bridge and of the gimbal |
| `FramingProofs` | theorems about it |
| `StreamTrackers` | the sequence tracker of the bridge and the publication tracker of the logger |
| `P900Bridge`, `MCP900Bridge` | the routing of the radio bridges of a station, a leader and its followers, and the constants of its runs |
| `P900BridgeProofs` | theorems about it |
| `Launcher`, `MCLauncher` | the flight launcher's session with one drone, and the constants of its runs |
| `LauncherProofs` | theorems about it |
| `Gimbal` | the gimbal's rate commands and watchdogs |
| `Coverage` | the planner of `online_mission`: a sweep of a field by a formation |
| `Logger` | the logger's reporting windows and its Wi-Fi event monitor |
| `MCSupport` | one run of `SharedDetection`, `Gimbal`, `Framing`, `StreamTrackers`, `FullStatus`, `Logger` and `Coverage` |
| `SupportProofs` | theorems about each of these but `Framing`, and about the run that joins them |

### FlightControl

One action per callback and timer. `Station` collects the commands: those a
leader receives from the station and those a follower receives from its leader
(the guard on `is_leader` tells which). `Roles` is what the referendum does to
the drone, `PX4` the three topics it listens to, `Tick` the control timer,
`StatusTimer` the leader's 1 Hz timer, `Restart` systemd.

Abstractions: positions are reduced to `goal`, which request set the goal last;
the verdict of `safety_violation_reason` and of comparisons of positions (goal
in range, goal reached, at home, below the slow-down height) are inputs, chosen
anew at each use. Time is the control tick. `landing_ticks` counts from the
landing's start. `out` is what the last step published, so the relay
(`cmd_arm`, `cmd_land`, ...) and the setpoints (`hold`, `track`, `descend`) are
visible. `status_seen` is not in the code: it says that the status timer has
fired since ARM was accepted. The two timers share one thread at 20 Hz and 1 Hz,
so no more than `StatusTicks` setpoints can be streamed in an arming sequence
before the leader's status timer has fired (`StatusDue`); `TakeoffEnteredAtRest`
depends on it, because a release to the pilot does not cancel a vision return and
only the status timer does. `become_leader` creates a new timer, which need not
have fired: `BecomeLeader` says so.

A command whose arguments do not parse changes nothing and is not an action. The
exception is an exception that no callback catches, which ends the node: that is
`Restart`.

### Controllers

The packages are copies that drifted apart, so that a fix in one need not be in
another. Each module extends `FlightControl`, takes over the handlers that are the
same in its package, with the lines of its own source, and writes anew those that
differ. `OlderControl` (`swarm_single_no_tf`) has no yaw command, no wait at a
checkpoint and no vision; `TfControl` (`swarm_single`) is the same state machine over
goals kept in the TF tree; `DecentralizedControl` (`swarm_single_decenter`) has no
leader, hence no role that ends a return, a status timer in every drone, and
`stop_mission`. `Controllers` chooses a package once and checks that the flight
properties hold in all of them.

### LeaderElection

`last_seen` holds, per drone, the age of each neighbour in its dictionary, in
broadcast intervals. A `Tick` passes one interval, and requires that every timer
due in it has fired. The code compares a real elapsed time with 6 s: a neighbour
of age exactly `Timeout` may or may not have timed out (`MayTimeOut`). Messages
are a set of sender/receiver pairs; best-effort loss, late messages (`Tick` with
messages under way), crashes, restarts, `leader_is_dead` and formation commands
are the events of the environment, `MaxEvents` of them before it settles.
A formation command names a pattern that is registered or not (`pattern`). `set_pattern`
stores either, but computes a place (`slot`, what `_base_offset` was computed for) only for
a follower with a registered name; otherwise the old one is kept, by every later
`refresh_pattern` too. `SlotsDistinct` therefore speaks of drones whose pattern is registered,
and says that a registered name makes up for the changes missed under an unknown one. Under
an unknown name two followers may indeed keep one place, until the operator corrects it.
The receiver stamps liveness on arrival, so a late message revives a drone that
has gone; the model has that.

### FullStatus

`asked`, `responses` and `reports` are the queues of the subscriptions; `collecting` are
the threads of `collect_in_background`, `results` the queue they put into and the timer
drains. The report goes where the role of the *drain* sends it, so that a role change
between request and drain is the interesting case (`ChangeRole`, any number of leaders).
It drops what waited at the command subscription, as the code recreates it. `calm` (not
in the code) are the requests made under one leader with no role change since.

### SharedDetection

A camera is a `flight_vision_node` or a `vision_node` (`web`): a trigger subscription
in the executor and an inference loop in a thread, whose steps are split where it looks
at `detection_enabled`. The controllers hear every detection of every camera, and each
answers it alone with STOP on a trigger topic that every camera hears. The command
topic is best effort (`reached`), the trigger topic reliable and ordered per publisher,
not across publishers. `missed` and `late` are the model's.

### SerialTransport and FrameChannel

Each action is what a thread does between two accesses to shared state. The
worker loop is a program counter `pc`; `send()` and `send_latest()` are split
between the test of the connected event and the store, `stop()` and
`_close_serial` between the device and the event, because nothing locks them
together. CPython 3.10 and later switch threads at calls and loop back edges, so a
`+= 1` of a statistic is one step. The device may fail at every open, write and
read. `FrameChannel` is the promise: a bounded queue that loses from its head,
never duplicates and never reorders. `SerialTransport` implements it for the
commands, with `accepted` the frame the worker holds followed by the FIFO, and
`delivered` the commands written (`IsChannel`). `commands_sent` and `states_sent` are what
has been written, each frame with the connection it went out in.

### Framing and StreamTrackers

A frame is a sequence of words: two of magic, a length, payload words, a check. The line
damages a word, drops one or puts one in front, and a read returns any number of them, so a
read may end anywhere in a frame. The check is perfect: a window passes when it is one
frame as sent. `Feed` is the loop of `feed`, a fold of `TakeTurn` over `ParseOne` with at most
one turn per word, of `StreamParser` (`p900`), which looks for a later valid frame while it
waits, and of the gimbal's `FrameParser`, which does not. `arrived` (not in the code) is the set
of intact frames whose last word has been read and which the parser therefore owes;
`FramesRecovered` compares it with what was returned.

Both trackers are fed with one stream, of which messages are lost, repeated or overtaken
by at most `Reach` others; `truth` is what the last delivery really was. The numbers of the
bridge's wrap at `Modulo`; the counters of the logger's are reset after every report.

### P900Bridge

The nodes of `p900_bridge.launch.py`: station, leader, followers. `Registry` is
`TOPIC_REGISTRY` as a set of links. A message is the vehicle it is about and its
number, in the order its vehicle published; the numbers are the model's, the frame's
`sequence` is the code's. `subscribed` is what a local subscription holds
(`KEEP_LAST` of its depth), and hears what the bridge itself publishes
(`ProcessRx`), which is what the protection against feedback is about. `Transmit`
is `_transmit_message` with `_send_payload`, `Flush` `_flush_latest_frames`, `ProcessRx`
one frame of `_process_rx_queues` with `_publish_frame` and `_relay_frame` (the serial
thread runs between two frames of one call).

The worker is what `SerialTransport` promises: commands in order, then the newest
frame of each stream, all lost on a disconnection. The order in which the streams
are served, and the interval of `max_tx_rate_hz`, are abstracted to any choice, so the
properties do not depend on them. The radio: any subset of the others hears a frame and
a full receive queue loses it. Damage is a loss, since the checksum and the parser drop what is
damaged; the duplicate verdict of the sequence tracker only warns, and a duplicate is
published, so that `StreamsGoForward` must hold without it. Bridges do not restart, and
`destination_node_id` keeps its default.

### Launcher

A start worker is a program counter (`starter`) over `connect` and the critical
sections of `start_component`; a stop worker one over `stop_component`. `on_close` starts
one more stop worker, `Closer`. `lock` is who keeps the session's lock over a wait:

* `Dial`, `Dialled`: `client.connect`, whose waits are bounded; it succeeds or raises.
* `Ask`, and then `ProbeSent`, `Begin` with `Recorded`, or `Signalled`: `_run_short` and the
  third section of `start_component` open an SSH session, which times out, and wait for the
  replies to their requests, which do not. `StartRaises` and `StopRaises` are what may happen
  instead: it is not opened in time, a request is refused, or the link is gone. The exception
  ends a start worker; `stop_all` reports it (`failed`) and goes on with the next component, a
  signal being left out.
* `ProbeAnswer`, `Answered`: `recv_exit_status` without the lock, and the reading of the output,
  which may time out and raise.

A section that waits for nothing needs the lock free and is one step. In any of these waits a
silent drone keeps the thread, with the lock or without, for as long as the link is up. `Begin` and
`Recorded` are two steps because the command runs before its reply has come (`BeingStarted`).

The sessions of several drones share nothing but the closing thread, which closes them in turn,
so one is modelled. A remote process is `booting` until its
script has printed the process group and its program runs. A closed channel takes
the `setsid --wait` wrapper only: `severed` (not in the code) says whose channel was
closed while it was alive. Time is abstract: a wait ends when the channel closes
(`Waited`) or at its timeout (`Escalate`). `Joined` gives up on a `Closer` where it may have
spent eight seconds (`Slow`: the wait for an exit, for an answer, or for the lock), and
`Close` needs the lock like anyone else. `Found` follows the three
probe patterns: those of the agent and the controller match the starting script, that
of the vision only its Python program. `Checklists` are the lists that the operator may
check; `start_drone` puts them in the launcher's order.

`OneLivePerComponent` therefore has an exception, which the model found: a vision that was
still booting when its channel was closed under it (a lost link, a stop before its process
group was known) is overlooked by the next start, and two run. An agent or a controller is
never overlooked.

### Gimbal

One watchdog for the rotation and one for the zoom. `fate` is what becomes of a packet:
taken by the camera, accepted by the socket and lost, or refused, which `_send` reports and
the callers treat differently: a refused `stop` leaves the watchdog armed, the watchdog
itself disarms even if its own stop was refused. `moving` is the camera's. `unstopped` says
that the packet that should have ended a motion is gone for good, which nothing repeats.

### Logger

`window`, `captured` and `emitted` hold the counters as they move from the callbacks'
threads through the report timer and the emission timer. The Wi-Fi window is taken a step
later than the others, by the same timer. `WifiEventMonitor` is its thread (`wifi_thread`),
its child (`child`) and the caller of `stop` (`stopping`): a thread that has started a
child and not yet stored it is not seen by `stop`, which `overlooked` records. `heard` (not in
the code) counts the messages by kind, and `Reported` is what all windows of a counter say.

### Coverage

A pure computation, in one action: `OnlineMission` is `plan` for one command, and the paths of all
drones are the state its property looks at. A plan of `n` passes counts in units of `1/Scale(n)`, in
which rows, radii and offsets are whole numbers; that keeps the comparisons of the code exact, where
the code has floats and tolerances of 1e-9. Lengths of paths involve pi, so `min(candidates)` and
`max_path_length` become a choice of any candidate or a refusal. Only the leader flies its path; the
others keep their place in the formation beside it (`FlightControl`), which the paths planned for
them stand for. `coverage_planner.py` and `online_planner.py` are used by nothing in the repository.

### MCSupport

These seven share nothing with each other. Their run is the sum of their state spaces, not
the product: a behaviour is one of a chosen component, and the others stay as they are.
The fair actions of a component that is not chosen are disabled in its initial state, so
that its fairness constrains nothing.

## 3. Runs

| Run | Config | Shows |
|---|---|---|
| `controllers` | `Controllers.cfg` | the safety and action properties of the flight state machine in each of the four packages, with every command, role change and PX4 report |
| `flight_live` | `FlightControlLive.cfg` | arming, landing and an abandoned return end |
| `mission_follower` | `FlightControlLeader.cfg` | *violated*: a leader that steps down goes on executing the mission |
| `election` | `LeaderElection.cfg` | roles, dictionaries and slots; after the disturbances one leader for good |
| `serial` | `SerialTransport.cfg` | the transport's safety, its statistics, the end of its worker, its refinement of `FrameChannel` |
| `serial_stale` | `SerialTransportStale.cfg` | *violated*: a command outlives the connection that accepted it |
| `bridge` | `P900Bridge.cfg` | newest-only states, queued messages, a relayed liveness and commands, with a lost connection: no echo, no step back, numbers identify; the bridges come to rest when the vehicles stop publishing |
| `launcher` | `Launcher.cfg` | a start worker, a stop worker and the closing launcher contend for the lock, with a lost link; an interrupted component goes or its failed stop is reported; closing ends |
| `launcher_close` | `LauncherClose.cfg` | *violated*: a component outlives the launcher that started it |
| `launcher_twice` | `LauncherTwice.cfg` | *violated*: two start workers start one component twice |
| `support` | `MCSupport.cfg` | types of the seven modules; a stop stops all cameras, return mode ends the inference; motions are watched; frames are recovered; losses are counted; every drone's report is printed, once; the logger counts everything and leaves no child; a planned sweep has no gap |
| `detection_home` | `SharedDetectionHome.cfg` | *violated*: the first detection does not send every drone home |

### Bounds, and why they are enough

* `FlightControl`: the thresholds of the arming sequence are 2, 3, 4 and 5
  (25, 35, 40 and 100 in the code). Their order is what the branches tell apart;
  `TicksAssumption` states it, and the theorems hold for every choice.
  `StatusTicks = 3` stands for 20 and lies, as 20 does, between the first setpoint
  and the earliest take-off. Two waypoints give an advance and a completion.
  `LandTimeout = 2` lets a landing pass through both speeds before the timeout.
  The live run has one waypoint and fewer commands, for the cost of checking
  liveness.
* `Controllers` has the same bounds; the packages do not multiply, since a drone has one.
* `LeaderElection`: three drones are the fewest with two followers, hence with
  slots that might collide and with a leader two others may disagree on.
  `Timeout` is 4 in the code and 2 here; the code compares it
  with whole and fractional intervals only. One event with three drones is joined with
  an arbitrary initial set of running ones, so that launch, loss, crash or delay is
  combined with a discovery in progress; the behaviours in which one drone never starts
  (`absent`) combine three. With all three, a registered formation command after an unknown one
  is one event more (`MCLeaderElection`).
* `SerialTransport`: two connections are needed for a stale frame and enough for
  one; four frames over a queue of two fill it, with a state of each of two
  streams and a replacement. `QueueSize` is 100 or more in the field: its limit
  is what matters, not its size. `MaxFrames` and `MaxSessions` only guard `Offer` and `OpenSerial`.
* `P900Bridge`: two followers are the fewest with a relay to somebody else; two messages
  of a source give a replacement, an overtaking and a repetition. Queues of one frame
  are full as soon as they are used. `SeqModulo` exceeds the frames of a source, as
  2^32 exceeds those in flight: with a modulo below that, `NumbersIdentify` would
  compare frames a whole round apart. A behaviour has the traffic of one kind: the
  states of a follower with those of the leader, a follower's liveness, or the station's
  commands. The connection is lost once, in any of them.
* `Launcher`: two components in order (a first and a last to start and to stop), one of
  them the vision, whose probe differs; the operator checks both, the vision alone, or
  nothing. Two processes, one loss of the link: a restart of a component, or a process of
  each, after a reconnection. A loss of the link ends the obligation of `InterruptedEnds`;
  the behaviours without one keep it. The waits with the lock multiply the states, so
  `MCLauncher` leaves one thing out of each behaviour (`left_out`, chosen initially): the stop buttons,
  the closing, or every process but one of the last component. The start worker
  still meets either of the others with all processes, and both with one.
* `SharedDetection`: two drones are the fewest that answer one detection differently; one
  camera hears both. Two commands give START against STOP, a change of the mode, and
  a lost one of either. `Depth = 1` is full at once.
* `Gimbal`: a watchdog of two periods or none; nothing else is bounded.
* `Framing`: two frames of one payload word with one damage each: a damaged length (7 or 8,
  in or out of `MaxPayload`) reaches over the whole following frame. `StreamTrackers`: ten
  messages go round a modulo of eight; `HistorySize` and `Reach` satisfy, as the field's do,
  that a number is forgotten before it can come again (`TrackersAssumption`).
* `FullStatus`: three drones are the fewest with two leaders and a follower; one request, one role
  change, so that a calm request is one made before any change; `SeenLimit` and `StationLimit` hold what one request produces, as 64 and
  128 do for the swarms in the field.
* `Logger`: two writers over a limit of one; three messages reach three windows.
* `Coverage`: fields of up to 24 by 24, fleets of up to four and all spacings and radii up to four give
  sweeps of 2 to 13 passes, even and odd, and every equality between a radius, the
  formation's width and the field.

### Fairness

* `FlightControl!FairSpec`: weak fairness of the control timer and of the status
  timer. Both are ROS timers of one executor that takes ready entities in turn, so
  neither is starved. No fairness is assumed of commands, of PX4, or of
  `Restart`.
* `LeaderElection!FairSpec`: timers fire, time passes, a message not lost
  arrives, and the network does settle (strong fairness of `Settle`; without
  that assumption the swarm may be disturbed for ever and nothing is promised).
* `SerialTransport!FairSpec`: the worker thread runs and a `stop()` under way goes
  on. The port may fail for ever.
* `P900Bridge!FairSpec`: the subscriptions and timers of a bridge share one executor,
  which takes ready entities in turn, and its worker runs. Neither the vehicles nor the
  connection are fair: a bridge whose connection is lost for good also comes to rest.
* `SharedDetection!DetectionFairness`: executors serve their queues, and the inference thread runs.
  The target stays in view and a camera is not rate limited for ever: `command_interval` is finite
  (strong fairness of `TargetSeen` and `Publish`). Without a target in view the cameras run on, as
  they should.
* `FullStatus!StatusFairness`: executors and the drain timer run; a collection ends, because its only
  blocking query, of the services, has a timeout. Role changes are bounded, not fair.
* `Launcher!FairSpec`: stop workers and the closing run, and get the lock if it is free again and
  again (strong fairness, since the workers contend for it); the join times out; the waits that
  have a timeout, or whose link is gone, end (`WaitEnds`); a process that got the second signal
  ends. Nothing is assumed of the start workers otherwise, of a component that was only
  interrupted, or of a reply or an answer over a live link. The code does depend on those:
  a drone that stays connected and never replies to a request made with the lock blocks the
  stop workers and `close()`, and the launcher does not end. `RepliesCome` (the lock is
  free, or the link is down, again and again) is therefore a premise of `ClosingEnds`, and
  `AnswersCome` one more of `InterruptedEnds`, whose thread waits for the exit status of its
  signal. `ClosingEnds` does not need it: the join gives up on a thread that waits for an answer.
  What `InterruptedEnds` promises is not that the second signal is sent, since opening a session
  for it may raise; it is that then the stop is reported as failed.

### What the violations show

* `step_down_as_leader` (`communication.py:332`) resets the vision return but not
  the mission, and `run_control_loop` calls `update_mission_progress` in every role.
  `swarm_single_no_tf_yaw/README.md:62`: "Only the leader executes the file."
* `send()` (`serial_transport.py:125`) tests the connected event and then puts the
  frame; a disconnection in between empties the queue first. Its docstring
  (lines 120-121) says that a flight command cannot execute after a later
  reconnection. `AtMostOneStale` bounds the damage: one frame per connection.
* A start worker that awaits the reply to its command holds the session's lock, and `stop_all`
  waits for it. `on_close` gives up after eight seconds (`gui.py:662`), and when the lock is free
  `close()` may come before `stop_all` has looked: the component outlives the launcher, without a
  signal. So does one that a worker starts after `stop_all` (`backend.py:495`) has passed it.
  `gui.py:647-648`: "Closing this GUI will stop every process that it started."
* The check, the probe and the execution in `start_component` (`backend.py:393-426`) are
  three critical sections. `swarm_flight_launcher/README.md:59-60`: "The launcher checks
  for a matching existing process and refuses to start an obvious duplicate."
* A controller that executes the detection command after another controller has already answered
  a detection waits for the next one; the STOP of the first (`communication.py:307`), which the
  camera handles last, has ended the inference, so that none comes. No loss is needed.
  `swarm_single_decenter/README.md:43-45`: "The first valid target event stops detection
  [...] and sends every armed Offboard drone" home.

`SweepIsFlyable` holds but has an exception that readers of the code should know. When a turn of the
spine is exactly as tight as the formation is wide (`online_mission` with `Lx=25 Ly=16 num_quads=3 d=4
min_turn_radius=4 coverage_spacing=4`: two passes, radius 4, outermost offset 4) and the only turns go
the leader's way, the leader has a path and another drone has none. `plan` then looks at the first
waypoint of an empty list (`online_waypoint_generator.py:399`); `command_leader_callback`
(`communication.py:762`) catches `TypeError`, `ValueError`, `RuntimeError` and `OverflowError` but not
`IndexError`, so the leader's node ends in flight instead of rejecting the command. The unused
`coverage_planner.py` raises `ValueError` there.

## 4. Proofs

Every theorem holds for every value of the constants that satisfies the assumptions of its module.
They are as weak as the code allows:

| Module | Assumptions | Why the code satisfies them |
|---|---|---|
| `FlightControl` | `TicksAssumption`, `WaypointsAssumption`, `CommandsAssumption` | the order of the thresholds 25, 35, 40, 100 and of 20 ticks a status; a mission has a waypoint |
| `LeaderElection` | `DronesAssumption`, `TimeoutAssumption`, `MaxEventsAssumption` | drones have numbers; the timeout is four broadcasts |
| `SerialTransport` | `QueueAssumption`, `KeysAssumption`, `BoundsAssumption` | `tx_queue_size` is at least 1; `"command"` is the model's name for the FIFO and not a key of `send_latest` |
| `P900Bridge` | `RolesAssumption`, `BoundsAssumption` | followers are not the leader, the station or "broadcast" |
| `Launcher` | `OrderAssumption`, `ChecklistsAssumption`, `ThreadsAssumption`, `BoundsAssumption` | `COMPONENT_ORDER` repeats nothing; `start_drone` filters it |
| `StreamTrackers` | `TrackersAssumption` | the deliveries jump by less than half a turn of 2^32, and the history of 64 is forgotten within a turn |
| `Gimbal`, `SharedDetection`, `FullStatus` | `TimeoutsAssumption`, `DepthAssumption`, `StatusAssumption` | counts and limits are whole, and a queue holds at least one |
| `Logger` | `LoggerAssumption` | there are finitely many writers; "topic", "untracked" and "wifi" are the model's names for the other counters and not writers |
| `Framing` | `FramingAssumption` | the senders refuse a payload above `max_payload`; lengths are whole |
| `Coverage` | `CoverageAssumption` | the parameters that `plan` accepts |

Three theorems have a hypothesis of their own. `OneStarter` (at most one start worker): without it
`launcher_twice` is the counterexample. `StationRemembersAll` (the reports that there can be are no
more than `StationLimit`): the station keeps the last 128 keys, and a report older than that is
printed again, in the code as in the model. `FewerThanNumbers` (a source sends fewer messages than
there are sequence numbers): the code has 2^32, and with a number used a second time
`NumbersIdentify` is meant to fail.

| Theorem | Property |
|---|---|
| `FlightControlProofs!TypeCorrect` | `TypeOK` |
| `FlightControlProofs!MotionIsConfined` | `SteersOnlyInOffboard` |
| `FlightControlProofs!MissionAlwaysFlown` | `MissionIsFlown` |
| `FlightControlProofs!ReturnAlwaysAlone` | `VisionReturnAlone` |
| `FlightControlProofs!HeadingAlwaysKept` | `HeadingKept` |
| `FlightControlProofs!TakeoffAlwaysEnteredAtRest` | `TakeoffEnteredAtRest` (action property) |
| `ControllersProofs!MotionIsConfinedInAll` | `SteersOnlyInOffboard`, in all four packages |
| `ControllersProofs!MissionFlownInAll` | `MissionIsFlown`, likewise |
| `ControllersProofs!HeadingKeptInAll` | `HeadingKept`, likewise |
| `ControllersProofs!ReturnAlwaysHasDrone` | `ReturnHasDrone` |
| `ControllersProofs!TakeoffAtRestInAll` | `TakeoffEnteredAtRest` (action property), in all four packages |
| `LeaderElectionProofs!TypeCorrect` | `TypeOK` |
| `LeaderElectionProofs!LeaderAlwaysLowest` | `LeaderIsLowest` |
| `LeaderElectionProofs!LeadersNeverMeet` | `LeadersDoNotMeet` |
| `LeaderElectionProofs!FollowedLeaderAlwaysSeen` | `FollowedLeaderIsSeen` |
| `LeaderElectionProofs!SilentNeighborAlwaysDropped` | `SilentNeighborDropped` |
| `LeaderElectionProofs!SlotsAlwaysDistinct` | `SlotsDistinct` |
| `LeaderElectionProofs!AlwaysAgreedWhenSettled` | `AgreedWhenSettled` |
| `SerialTransportProofs!TypeCorrect` | `TypeOK` |
| `SerialTransportProofs!EveryFrameAlwaysCounted` | `EveryFrameCounted` |
| `SerialTransportProofs!PortAlwaysReleased` | `PortReleased` |
| `SerialTransportProofs!StreamsAlwaysGoForward` | `StreamsGoForward` |
| `SerialTransportProofs!AlwaysAtMostOneStale` | `AtMostOneStale` |
| `SerialTransportProofs!ImplementsChannel` | `IsChannel`: the refinement of `FrameChannel` |
| `P900BridgeProofs!NeverEchoed` | `NoEcho` |
| `P900BridgeProofs!StreamsAlwaysGoForward` | `StreamsGoForward` |
| `P900BridgeProofs!NumbersAlwaysIdentify` | `NumbersIdentify`, with `FewerThanNumbers` |
| `LauncherProofs!TypeCorrect` | `TypeOK` |
| `LauncherProofs!OneAlwaysLives` | `OneLivePerComponent`, with `OneStarter` |
| `LauncherProofs!UnmanagedWasSevered` | `UnmanagedOnlyWhenSevered`, with `OneStarter` |
| `SupportProofs!MotionAlwaysWatched` | `MotionIsWatched` of the gimbal |
| `SupportProofs!WifiChildAlwaysEnds` | `WifiChildEnds` of the logger |
| `SupportProofs!AlwaysAtMostOneLate` | `AtMostOneLate` of the cameras |
| `SupportProofs!StopAlwaysStops` | `StopHeardByAllStops` of the cameras |
| `SupportProofs!ReportsPrintedOnce` | `ReportedOnce`, with `StationRemembersAll` |
| `SupportProofs!NumbersAlwaysClassified` | `NumbersClassified` of the bridge's tracker |
| `SupportProofs!MissingAlwaysLost` | `MissingAreLost` of the logger's tracker |
| `SupportProofs!EveryMessageIsReported` | `EveryMessageReported` of the logger |
| `SupportProofs!SweepAlwaysFlyable` | `SweepIsFlyable` of the planner |
| `SupportProofs!NodeEndsTightOnly` | `EndsTightOnly`, a part of `SweepIsFlyable` |
| `FramingProofs!FramesAreRecovered` | `FramesRecovered` of both parsers |
| `SupportProofs!EachRunsAlone` | a behaviour of `MCSupport` is one of each of its components |
| `SupportProofs!SupportTypeCorrect` | `SupportTypeOK`: the types of all seven |

*Flight control.* The safety properties need each other. `IInv` strengthens their conjunction with
the types and with what their steps use: a vision return survives a release to the pilot and is
harmless only because an arming sequence that began with one either has been seen by the status
timer or has streamed fewer setpoints than `TakeoffAt` (`ReturnBeforeStatus`). The part that every
package shares is `FlightInv`; `LeaderReturns` adds that only a leader returns. One lemma treats
each kind of step: commands, roles, PX4, timers. `TakeoffEnteredAtRest` says that a step from a
state of `IInv` into TAKEOFF is the last one of an arming sequence (`OnlyTicksTakeOff`,
`TicksEnterAtRest`), at which `ReturnBeforeStatus` leaves no return.

*The other packages.* A handler that is a copy is proved to be a step of `FlightControl`, so that it
keeps the invariant without another proof: all of them in the older packages (`NoTfCopies`,
`TfCopies`), the control timer and PX4's topics in the decentralized one (`DecTicks`). A fix that
reaches one package only makes its lemma fail. The decentralized package's own handlers are proved
one by one against `DroneInv`, in which there is no leader: there a return under way has used up the
action that would start another. The older packages start no return (`OlderNeverReturn`).

*Election.* The invariant couples the dictionary, the leader and the role of each drone, and bounds
every age by the state of its drone's timeout timer (age plus time to the next check at most `2 *
Timeout`), which gives `SilentNeighborDropped`. `MinIsLowest` characterises the library's `Min` for
a finite non-empty set of naturals. `LeadersDoNotMeet` and `FollowedLeaderIsSeen` follow from the
invariant. For the slots, `SlotFollowsView` says that a follower with a registered pattern holds the
slot of its present view, because the command that brings the name computes it and the referendum
that changes a view refreshes it; in one view the lower drone has the lower slot (`LowerSlot`). For the agreement, `CalmInv` says what a calm network
has already brought: every running drone was heard in this interval or still comes
(`HeardOrComing`), and what is known of one that is gone is as old as the calm, so that a timeout
check has dropped it by the time that `AgreedWhenSettled` speaks of.

*Serial transport.* `Places` says what is open, connected and in hand at each place of the two
threads; a connection may be missing where the worker believes in one only after `stop()` took it
away. It gives `PortReleased` and the counts. `Ranked` orders the frames of a stream by where they
are: written, in hand, queued, held by `send`. `Dated` says that of the frames of earlier
connections only the one that `send` held can be afloat. For the refinement, `Line` and `Wire` are
the abstract channel, and each step appends to the line, drops its head, writes its head, discards,
or leaves it.

*Bridge.* `NoEcho` needs to know what is under way everywhere. `IInv` says that every frame,
wherever it is, is about the node named as its source, and that what a bridge's transmitting
subscription holds is its own vehicle's or of a relayed topic, where `_message_is_local_origin`
suppresses the rest. The registry's part is the lemma `OnlyRelayedReturn`: no role both sends and
receives a topic that carries no identity. With a new link in the registry that breaks it, that
lemma fails first.

`StreamsGoForward` follows the way of a stream from its source to one receiver: the source's
subscription, its newest-only slot, its worker, the leader's receive queue, slot and worker when the
leader relays it, the receiver's queue, and what it has published. `WayInOrder` says that the
numbers rise from the receiver back to the source. Every handler moves one message from one stage to
the end of the next, or drops some, and keeps that (`WayKept`, `WayShortened`); `Routed` says that
no frame enters the way from elsewhere. `NumbersIdentify` adds that a stream's next sequence number
is ahead of those of all its frames, wherever they are, and behind the messages that wait for one,
so that it is not taken twice.

*Launcher.* `Checked` carries what the start worker found to where it is used: since the check
nothing manages the component, since the probe nothing of it lives that the probe can see, as long
as the link is live (a probe that the loss of the link ended found nothing, but nothing is started
over that link either). A step that starts or records nothing keeps that (`Calm`, `Steady`), of any
thread but a second start worker (`OneStarter`); `BeginStep` and `RecordedStep` use it. `Attended`:
without a live link no channel is open, so that a process whose start loses its link is severed.

*Gimbal, logger, cameras, station.* `Armed`: an axis that moves and whose stop is not lost for good
has its watchdog counting, so that the time passed and the time left add up to the timeout.
`WifiInv`: once `stop` has passed, the thread is past its start or its child was overlooked.
`LateInv`: a camera that was told to stop has at most the one detection its thread had already
decided on. `StopComing`: after a STOP that all heard, a controller without commands has published a
STOP last, and an enabled camera still has one of them before it. `ReportInv`: what was printed is
exactly what the station remembers, while it forgets nothing.

*Trackers.* Remainders come first: a number is determined by its remainder among those less than
once around (`SameRemainder`), and differences survive the wrap (`RemainderOfDifference`). What the
deque remembers is then of messages that the stream has not left further behind than the history and
the reach allow (`LatelyDelivered`), which `TrackersAssumption` keeps below a turn: a remembered
number means a repeated message (`RememberedWasDelivered`), and the distance to the expected number
is in the lower half exactly for the new ones (`DistanceTold`). For the logger, each delivery
without disorder adds the interval it skipped, which is disjoint from what was missing before.

*Induction over data.* The induction theorems of the library take an operator as a parameter, which
the installed provers cannot instantiate. `SetInduction` (`FramingProofs`) states induction over the
naturals for a set instead of an operator, from the well-foundedness of `<` in the set form of
`WellFoundedInduction`. With it a definition that the community modules make by recursion over data
becomes provable when its recursion is given as a set of facts: `FoldLeft` of the parsers (`RunExists`)
and `SumFunctionOnSet` of the logger (`SumExists`).

*Parsers.* A stream of words is described without looking at how it was written: `Stream` says that
each word is a damaged one or a word of a frame in its place (`AsSent`), that the words of the frames
are in order (`Ordered`), that those of an intact frame are all there and next to each other (`Whole`), and
that a damaged frame lacks one (`Broken`), so that no window passes the check for it. `WriteFrame` only adds such words
(`WholeStream`, `DamagedStream`, `OneLost`, `StrayStream`), and a suffix of a stream is one
(`StreamSuffix`), but for the frame it cuts. What is left is one turn (`TurnStep`): the words that
alignment, a rejected header, a failed check or the search for a later frame drop never contain the
start of an intact frame (`AlignedDrops`, `DropWords`, `IntactStarts`), since an intact frame in
the buffer passes every check at its start (`StartIsFound`, `StartIsValid`); and a frame that is
returned is the first of the buffer. `RunOK` carries this through all turns of a `feed`, whose last one
waits. `FramingInv` then says that what the parser owes and has not returned lies complete in the
buffer, which the bridge's parser never waits on.

*Logger's reports.* What was heard of a kind is the sum, over the counters of the kind, of what is
emitted, captured and in the window (`LoggerInv`). A report moves counts between these
(`MovedCounts`, `ReportStep`) and so changes no sum; a message adds one to one counter
(`HearCounts`). The kinds' counters are apart because no writer has the name of another counter.

*Coverage.* Everything is arithmetic about one candidate. `Rows` places the passes evenly, with half the
formation's width between them and the edges of the field; `Offsets` does the same for the drones in
it. `PathJoined` follows a path segment by segment, and `PathInField` keeps it inside because the margin is
as wide as a turn bulges. `NextTrack` gives every track but the topmost a next one: the next drone in the
same pass, and for the uppermost drone the lowest in the pass before; `CandidateSizes` bounds both
distances by `coverage_spacing`, which is `NoGap`. Passes do not meet, since the first turn is wider than
half the formation (`HandedTurns`). `NodeEndsTightOnly` bounds the uncaught exception described above: it
takes two passes and a turn exactly as tight as the formation is wide. No drone is further from the middle
of the formation than `max_offset` (`OffsetBound`), and a candidate turns no tighter than that
(`CandidateSizes`), so a path can only fail at equality (`PathFails`). With a third pass there is a turn to
the right, in which the leader, the outermost drone, would have no path either, and `plan` drops the
candidate.

*The joined run.* `StepOfEach`: a step of `MCSupport` is a step of one component and leaves the others
alone. Hence `EachRunsAlone`, by which the theorems about the components, each under its own
specification, hold of the run in which TLC checks them; `SupportTypeCorrect` is one use. The types need
some of the invariants: a gap of the bridge's tracker is bounded because it is what was skipped, a
counter of the logger because it is a part of what was heard.

Model-checked only, because the prover has no rules for fairness and `ENABLED`: the liveness
properties `ArmingResolves`, `LandingResolves`, `VisionReturnGivenUp`, `ElectionSettles`,
`WorkerEnds`, `TrafficEnds`, `InterruptedEnds`, `ClosingEnds`, `ReturnModeStopsInference` and
`EveryDroneReports`. Every invariant and action property that a passing run checks has a theorem.

`TypeOK`, `LeadersDoNotMeet`, `SilentNeighborDropped` and `VisionReturnAlone` are proved and not
repeated in the runs of their modules.

## 5. Plan

Modelled: the flight state machine in its four packages, the election, the bridge from bytes
to routing, the detection and the health report of the swarm, the launcher, the gimbal, the logger, the planner.

Every safety property of the runs is a theorem. Theorems worth adding need a model first: what
`destination_node_id` would add to the bridge, and a swarm of `FlightControl`s under one `LeaderElection`.

Models worth adding: the freshness of peer states in `navigation.py`; the geometry of the
formations; the launcher's local station process, and the abstract specification of the launcher as the
set of processes the operator asked for.

## 6. Not modelled

* Floating-point control: velocities, limits, PID, yaw rates, collision avoidance. What it decides
  (a goal in range or reached, valid feedback, a hold) is an input of the state machine.
* LiDAR filtering, the geometry and animation of formations: numeric functions of
  their inputs, without states to interleave.
* The relay between the drones of a swarm as one composition: several copies of `FlightControl` with
  `LeaderElection` are beyond TLC's reach. A follower's actions accept any relayed command at any time,
  which covers every order and loss of them for one drone; what is left out is a
  relation between drones (a command obeyed under two leaders).
* The camera's reconnection, the web interface of `vision_node`, recordings; what the health probes
  read from the host; plots, displays and their wording; the settings of the launcher and its local
  station process.
* Parsing and formatting of commands and messages, validation of parameters, YAML configuration.
* Message definitions, launch files, simulation, unit files, recorded logs: no behaviour of their own.

Component by component reasons are in `PROJECT.json`.

## Running

    tlc -config Controllers.cfg Controllers
    tlc -config MCSupport.cfg MCSupport
    tlapm FlightControlProofs.tla
    tlapm ControllersProofs.tla
    tlapm FramingProofs.tla

The constants of a run are in its configuration; its module is in `PROJECT.json`.
