------------------------------- MODULE P900Bridge -------------------------------
(***************************************************************************)
(* The P900 bridges of a station, a leader and its followers                *)
(* (swarm_p900_bridge: bridge_node.py, topic_registry.py): which ROS messages *)
(* each puts on the radio, how the leader relays its followers, what is       *)
(* accepted and published into the local ROS graph of the receiver, where the *)
(* bridge's own subscriptions hear it again.                               *)
(*                                                                         *)
(* A message is its topic, the vehicle it is about (origin) and a number.     *)
(* The serial worker's thread is what SerialTransport promises: a queue and a  *)
(* slot per stream, both emptied by a disconnection.  The radio is heard by   *)
(* any subset of the others, so that a frame may be lost for some of them.     *)
(***************************************************************************)
EXTENDS Naturals, Sequences, Functions

CONSTANTS
    Followers,    \* node IDs of the follower bridges
    Sources,      \* pairs <<node, topic>> whose local ROS node publishes
    MaxSamples,   \* bound: messages each of them publishes
    QueueSize,    \* serial_tx_queue_size
    RxSize,       \* ros_rx_queue_size
    SeqModulo,    \* 2^32 in the code
    MaxDrops      \* bound: losses of a serial connection

Nodes == {"station", "leader"} \cup Followers
RoleOf(n) == IF n \in Followers THEN "follower" ELSE n

ASSUME RolesAssumption == Followers \cap {"station", "leader", "broadcast"} = {}
ASSUME BoundsAssumption == MaxSamples \in Nat /\ SeqModulo \in Nat \ {0}

Link(topic, sender, receiver, destination) ==
    [topic |-> topic, sender |-> sender, receiver |-> receiver, destination |-> destination]

(* TOPIC_REGISTRY: who sends a topic to whom, and addressed how.                 *)
ToLeader(topics, sender) == {Link(t, sender, "leader", "leader") : t \in topics}
ToStation(topics) == {Link(t, "leader", "station", "station") : t \in topics}
ToAll(topics) == {Link(t, "leader", "follower", "broadcast") : t \in topics}

Registry ==
    ToLeader({"command", "formation_command"}, "station")
    \cup ToStation({"status", "full_status_report"})
    \cup ToAll({"follower_command", "formation", "vision_trigger", "live", "local_state"})
    \cup ToLeader({"vision_command", "full_status_response", "live", "local_state"}, "follower")

Topics == {l.topic : l \in Registry}

(* leader_relay and source_id_field, latest_sample, qos_depth of the registry.   *)
Relayed(t)  == t \in {"live", "local_state"}
Latest(t)   == t = "local_state"
Depth(t)    == CASE t \in {"status", "local_state"} -> 1 [] t = "live" -> 8 [] OTHER -> 10
Sends(n, t) == \E l \in Registry : l.topic = t /\ l.sender = RoleOf(n)
Destination(n, t) ==
    (CHOOSE l \in Registry : l.topic = t /\ l.sender = RoleOf(n)).destination

VARIABLES
    made,           \* messages published so far, per source
    subscribed,     \* per node and topic: what its subscription has not handled
    next_sequence,  \* _next_sequence
    pending,        \* _latest_pending: at most one frame per key
    fifo, latest,   \* the serial worker's queue, and its frame per key
    connected,
    rx,             \* _rx_frames
    published,      \* last number published locally, per node, topic and origin
    drops

ros    == <<made, subscribed>>
serial == <<fifo, latest, connected>>
vars   == <<ros, next_sequence, pending, serial, rx, published, drops>>

Message == [origin : Nodes, number : 1..MaxSamples]
Frame   == [topic : Topics, source : Nodes, destination : Nodes \cup {"broadcast"},
            sequence : 0..SeqModulo, origin : Nodes, number : 1..MaxSamples]

Key(f) == <<f.topic, f.source>>
OneEach(s) == \A f, g \in s : Key(f) = Key(g) => f = g

(* The sequence of a frame is SeqModulo until it is sent (None in the code).     *)
Unsent == SeqModulo

(* Types; a newest-only slot holds one frame of each stream.                    *)
TypeOK ==
    /\ made \in [Sources -> 0..MaxSamples]
    /\ \A n \in Nodes :
          /\ \A t \in Topics : /\ Range(subscribed[n][t]) \subseteq Message
                               /\ Len(subscribed[n][t]) <= Depth(t)
                               /\ next_sequence[n][t] \in 0..SeqModulo - 1
          /\ pending[n] \cup latest[n] \cup Range(fifo[n]) \cup Range(rx[n]) \subseteq Frame
          /\ OneEach(pending[n]) /\ OneEach(latest[n])
          /\ Len(fifo[n]) <= QueueSize /\ Len(rx[n]) <= RxSize
          /\ connected[n] \in BOOLEAN
          /\ connected[n] \/ (fifo[n] = <<>> /\ latest[n] = {})
    /\ published \in [Nodes -> [Topics \X Nodes -> 0..MaxSamples]]
    /\ drops \in 0..MaxDrops

Init ==
    /\ made = [s \in Sources |-> 0]
    /\ subscribed = [n \in Nodes |-> [t \in Topics |-> <<>>]]
    /\ next_sequence = [n \in Nodes |-> [t \in Topics |-> 0]]
    /\ pending = [n \in Nodes |-> {}]
    /\ fifo = [n \in Nodes |-> <<>>] /\ latest = [n \in Nodes |-> {}]
    /\ connected = [n \in Nodes |-> TRUE]
    /\ rx = [n \in Nodes |-> <<>>]
    /\ published = [n \in Nodes |-> [k \in Topics \X Nodes |-> 0]]
    /\ drops = 0
-----------------------------------------------------------------------------
(* A local subscription keeps the last messages of its depth.                   *)
Heard(n, t, m) ==
    LET kept == Append(subscribed[n][t], m) IN
    subscribed' = [subscribed EXCEPT ![n][t] =
                      IF Len(kept) > Depth(t) THEN Tail(kept) ELSE kept]

(* The vehicle's own node publishes.                                          *)
Publish(n, t) ==
    /\ <<n, t>> \in Sources /\ made[<<n, t>>] < MaxSamples
    /\ made' = [made EXCEPT ![<<n, t>>] = @ + 1]
    /\ Heard(n, t, [origin |-> n, number |-> made'[<<n, t>>]])
    /\ UNCHANGED <<next_sequence, pending, serial, rx, published, drops>>

(* _message_is_local_origin                                                   *)
LocalOrigin(n, t, m) == Relayed(t) => m.origin = n

(* _replace_latest and send_latest: the newest frame replaces its predecessor.    *)
ReplaceLatest(s, f) == {g \in s : Key(g) # Key(f)} \cup {f}

(* Mutant: the number is never counted up.                                     *)
NumberKept(n, t) == UNCHANGED next_sequence

(* The next number of a topic: taken when a frame of the node's own is accepted.  *)
NumberTaken(n, t) ==
    next_sequence' = [next_sequence EXCEPT ![n][t] = (@ + 1) % SeqModulo]

(* _transmit_message and _send_payload of a message heard locally.               *)
Transmit(n, t) ==
    /\ subscribed[n][t] # <<>> /\ Sends(n, t)
    /\ subscribed' = [subscribed EXCEPT ![n][t] = Tail(@)]
    /\ LET m == Head(subscribed[n][t])
           f == [topic |-> t, source |-> n, destination |-> Destination(n, t),
                 sequence |-> IF Latest(t) THEN Unsent ELSE next_sequence[n][t],
                 origin |-> m.origin, number |-> m.number] IN
       \/ /\ ~LocalOrigin(n, t, m)
          /\ UNCHANGED <<pending, fifo, next_sequence>>
       \/ /\ LocalOrigin(n, t, m) /\ Latest(t)
          /\ pending' = [pending EXCEPT ![n] = ReplaceLatest(@, f)]
          /\ UNCHANGED <<fifo, next_sequence>>
       \/ /\ LocalOrigin(n, t, m) /\ ~Latest(t)
          /\ \/ /\ connected[n] /\ Len(fifo[n]) < QueueSize
                /\ fifo' = [fifo EXCEPT ![n] = Append(@, f)]
                /\ NumberTaken(n, t)
             \/ /\ ~connected[n] \/ Len(fifo[n]) = QueueSize
                /\ UNCHANGED <<fifo, next_sequence>>
          /\ UNCHANGED pending
    /\ UNCHANGED <<made, latest, connected, rx, published, drops>>

(* Mutant: what is taken out to be sent stays there.                            *)
StaysPending(s, ready) == s

(* Taken out of _latest_pending, whether or not the send succeeds.                *)
TakenOut(s, ready) == s \ ready

(* _flush_latest_frames: the streams whose interval has passed are sent, or lost    *)
(* if the serial line is not there.  A node has one stream of its own per topic.  *)
Flush(n) ==
    \E ready \in SUBSET pending[n] \ {{}} :
        LET own == {f \in ready : f.sequence = Unsent}
            sent == {IF f \in own THEN [f EXCEPT !.sequence = next_sequence[n][f.topic]]
                     ELSE f : f \in ready} IN
        /\ pending' = [pending EXCEPT ![n] = TakenOut(@, ready)]
        /\ \/ /\ connected[n]
              /\ latest' = [latest EXCEPT ![n] =
                               {g \in @ : \A f \in ready : Key(g) # Key(f)} \cup sent]
              /\ \/ own = {} /\ UNCHANGED next_sequence
                 \/ \E f \in own : NumberTaken(n, f.topic)
           \/ ~connected[n] /\ UNCHANGED <<latest, next_sequence>>
        /\ UNCHANGED <<ros, fifo, connected, rx, published, drops>>
-----------------------------------------------------------------------------
(* The worker writes a frame, commands first; some of the others hear it and       *)
(* their workers queue it, unless the queue is full (_receive_serial_bytes).     *)
OnAir(n, f) ==
    \E hearers \in SUBSET {h \in Nodes \ {n} : connected[h] /\ Len(rx[h]) < RxSize} :
        rx' = [h \in Nodes |-> IF h \in hearers THEN Append(rx[h], f) ELSE rx[h]]

Write(n) ==
    /\ connected[n]
    /\ \/ /\ fifo[n] # <<>>
          /\ OnAir(n, Head(fifo[n]))
          /\ fifo' = [fifo EXCEPT ![n] = Tail(@)]
          /\ UNCHANGED latest
       \/ /\ fifo[n] = <<>>
          /\ \E f \in latest[n] : /\ OnAir(n, f)
                                  /\ latest' = [latest EXCEPT ![n] = @ \ {f}]
          /\ UNCHANGED fifo
    /\ UNCHANGED <<ros, next_sequence, pending, connected, published, drops>>

(* A lost connection empties both queues of the worker; it comes back.           *)
Disconnect(n) ==
    /\ connected[n] /\ drops < MaxDrops
    /\ connected' = [connected EXCEPT ![n] = FALSE]
    /\ fifo' = [fifo EXCEPT ![n] = <<>>]
    /\ latest' = [latest EXCEPT ![n] = {}]
    /\ drops' = drops + 1
    /\ UNCHANGED <<ros, next_sequence, pending, rx, published>>

Reconnect(n) ==
    /\ ~connected[n]
    /\ connected' = [connected EXCEPT ![n] = TRUE]
    /\ UNCHANGED <<ros, next_sequence, pending, fifo, latest, rx, published, drops>>
-----------------------------------------------------------------------------
(* accepts: a registered link, or the leader's relay of a follower.               *)
Accepts(n, f) ==
    \/ Link(f.topic, RoleOf(f.source), RoleOf(n), f.destination) \in Registry
    \/ /\ Relayed(f.topic) /\ f.source \in Followers
       /\ n \in Followers /\ f.destination = "broadcast"

(* Mutant: the check of the source is left to the registry.                     *)
ForMeOrBack(n, f) == f.destination \in {n, "broadcast"} /\ Accepts(n, f)

(* The tests of _publish_frame: for this node, not by it, on a registered path.    *)
ForMe(n, f) ==
    /\ f.destination \in {n, "broadcast"} /\ f.source # n
    /\ Accepts(n, f)

(* should_leader_relay                                                        *)
ShouldRelay(n, f) ==
    Relayed(f.topic) /\ n = "leader" /\ f.source \in Followers /\ f.destination = "leader"

(* Mutant: relayed twice, for reliability.                                    *)
RelayRepeated(n, f) ==
    LET copy == [f EXCEPT !.destination = "broadcast"] IN
    /\ fifo' = [fifo EXCEPT ![n] = IF Len(@) < QueueSize THEN @ \o <<copy, copy>> ELSE @]
    /\ UNCHANGED pending

(* _relay_frame: to all, with the source and the number it came with.              *)
Relay(n, f) ==
    LET copy == [f EXCEPT !.destination = "broadcast"] IN
    \/ /\ Latest(f.topic)
       /\ pending' = [pending EXCEPT ![n] = ReplaceLatest(@, copy)]
       /\ UNCHANGED fifo
    \/ /\ ~Latest(f.topic) /\ UNCHANGED pending
       /\ IF connected[n] /\ Len(fifo[n]) < QueueSize
          THEN fifo' = [fifo EXCEPT ![n] = Append(@, copy)]
          ELSE UNCHANGED fifo

(* The compact state carries no identity: it is about the frame's source.         *)
Decoded(f) ==
    [origin |-> IF Latest(f.topic) THEN f.source ELSE f.origin, number |-> f.number]

(* One frame of _process_rx_queues.  Published locally, it is also heard by the       *)
(* bridge's own subscription of that topic, if it has one.                      *)
ProcessRx(n) ==
    /\ rx[n] # <<>>
    /\ rx' = [rx EXCEPT ![n] = Tail(@)]
    /\ LET f == Head(rx[n])
           m == Decoded(f) IN
       \/ ~ForMe(n, f) /\ UNCHANGED <<subscribed, pending, fifo, published>>
       \/ /\ ForMe(n, f)
          /\ published' = [published EXCEPT ![n][<<f.topic, m.origin>>] = m.number]
          /\ IF Sends(n, f.topic) THEN Heard(n, f.topic, m) ELSE UNCHANGED subscribed
          /\ \/ ShouldRelay(n, f) /\ Relay(n, f)
             \/ ~ShouldRelay(n, f) /\ UNCHANGED <<pending, fifo>>
    /\ UNCHANGED <<made, next_sequence, latest, connected, drops>>

Next ==
    \/ \E n \in Nodes, t \in Topics : Publish(n, t) \/ Transmit(n, t)
    \/ \E n \in Nodes : Flush(n) \/ Write(n) \/ Disconnect(n) \/ Reconnect(n) \/ ProcessRx(n)

Spec == Init /\ [][Next]_vars

(* The callbacks and timers of a node take turns, and its worker runs.            *)
Fairness ==
    \A n \in Nodes :
        /\ WF_vars(ProcessRx(n)) /\ WF_vars(Flush(n)) /\ WF_vars(Write(n))
        /\ WF_vars(\E t \in Topics : Transmit(n, t))

FairSpec == Spec /\ Fairness
-----------------------------------------------------------------------------
(* No message comes back: no bridge publishes into its own ROS graph what came      *)
(* from there, although every one hears its relayed frames and its own          *)
(* publications.                                                             *)
NoEcho == \A n \in Nodes, t \in Topics : published[n][<<t, n>>] = 0

(* A stream goes forward at every receiver, relayed or not, and no message is         *)
(* published twice: what is about to be published is newer than what was.        *)
StreamsGoForward ==
    \A n \in Nodes : \A i \in DOMAIN rx[n] :
        LET f == rx[n][i] IN ForMe(n, f) =>
            f.number > published[n][<<f.topic, Decoded(f).origin>>]

(* A number stands for one message of its source and topic, over refused sends,        *)
(* replacements and relays: the receivers' duplicates are duplicates.            *)
Frames(n) == {f \in pending[n] : f.sequence # Unsent}
                \cup Range(fifo[n]) \cup latest[n] \cup Range(rx[n])

NumbersIdentify ==
    \A f, g \in UNION {Frames(n) : n \in Nodes} :
        Key(f) = Key(g) /\ f.sequence = g.sequence => f.number = g.number /\ f.origin = g.origin

(* README, "Feedback loops are prevented in three layers": when the vehicles stop       *)
(* publishing, the bridges come to rest.                                      *)
AtRest ==
    \A n \in Nodes : /\ fifo[n] \o rx[n] = <<>> /\ pending[n] \cup latest[n] = {}
                     /\ \A t \in Topics : subscribed[n][t] = <<>>

TrafficEnds == <>[]AtRest
=============================================================================
