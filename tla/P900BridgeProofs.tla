---------------------------- MODULE P900BridgeProofs ----------------------------
(***************************************************************************)
(* Theorems about the P900 bridges, for any followers and any sources: no     *)
(* echo, no stream that goes back, no sequence number that stands for two     *)
(* messages.  The first needs to know whose message each frame is about       *)
(* (IInv); the second the order of everything on the way of a stream from its *)
(* source to a receiver (WayInOrder), kept by what each handler moves; the    *)
(* third that a stream's next number is ahead of all its frames (NumInv).     *)
(***************************************************************************)
EXTENDS P900Bridge, TLAPS

(* A frame is about the vehicle whose bridge sent it first.                     *)
OwnFrame ==
    {f \in [topic : Topics, source : Nodes, destination : Nodes \cup {"broadcast"},
            sequence : Nat, origin : Nodes, number : Nat] : f.origin = f.source}

LocalMessage == [origin : Nodes, number : Nat]

Shape ==
    /\ made \in [Sources -> Nat]
    /\ subscribed \in [Nodes -> [Topics -> Seq(LocalMessage)]]
    /\ next_sequence \in [Nodes -> [Topics -> Nat]]
    /\ pending \in [Nodes -> SUBSET OwnFrame]
    /\ latest \in [Nodes -> SUBSET OwnFrame]
    /\ fifo \in [Nodes -> Seq(OwnFrame)]
    /\ rx \in [Nodes -> Seq(OwnFrame)]
    /\ published \in [Nodes -> [Topics \X Nodes -> Nat]]

(* What a bridge may transmit is its own vehicle's, or will be suppressed.         *)
OwnOrRelayed ==
    \A n \in Nodes, t \in Topics :
        Sends(n, t) => \A i \in DOMAIN subscribed[n][t] :
                           subscribed[n][t][i].origin = n \/ Relayed(t)

IInv == Shape /\ OwnOrRelayed /\ NoEcho
-----------------------------------------------------------------------------
LEMMA DestinationType ==
    ASSUME NEW n \in Nodes, NEW t \in Topics, Sends(n, t)
    PROVE  Destination(n, t) \in Nodes \cup {"broadcast"}
<1>1. PICK l \in Registry : l.topic = t /\ l.sender = RoleOf(n)
  BY DEF Sends
<1>2. \A k \in Registry : k.destination \in {"leader", "station", "broadcast"}
  BY DEF Registry, ToLeader, ToStation, ToAll, Link
<1>3. Destination(n, t) \in {"leader", "station", "broadcast"}
  BY <1>1, <1>2 DEF Destination
<1> QED
  BY <1>3 DEF Nodes

(* Only the relayed topics have a role that both sends and receives.               *)
LEMMA OnlyRelayedReturn ==
    ASSUME NEW n \in Nodes, NEW f \in OwnFrame, Accepts(n, f), Sends(n, f.topic)
    PROVE  Relayed(f.topic)
<1>1. CASE Relayed(f.topic) /\ f.source \in Followers
  BY <1>1
<1>2. CASE Link(f.topic, RoleOf(f.source), RoleOf(n), f.destination) \in Registry
  <2>1. PICK l \in Registry : l.topic = f.topic /\ l.receiver = RoleOf(n)
    BY <1>2 DEF Link
  <2>2. PICK k \in Registry : k.topic = f.topic /\ k.sender = RoleOf(n)
    BY DEF Sends
  <2>3. l.topic = k.topic /\ l.receiver = k.sender
    BY <2>1, <2>2
  <2>4. \A i, j \in Registry : i.topic = j.topic /\ i.receiver = j.sender
                                   => i.topic \in {"live", "local_state"}
    BY DEF Registry, ToLeader, ToStation, ToAll, Link
  <2> QED
    BY <2>1, <2>2, <2>3, <2>4 DEF Relayed
<1> QED
  BY <1>1, <1>2 DEF Accepts

(* A message that reaches a subscription keeps it as IInv says.                   *)
LEMMA HeardKeeps ==
    ASSUME Shape, OwnOrRelayed, NEW n \in Nodes, NEW t \in Topics, NEW m \in LocalMessage,
           Heard(n, t, m), Sends(n, t) => m.origin = n \/ Relayed(t)
    PROVE  /\ subscribed' \in [Nodes -> [Topics -> Seq(LocalMessage)]]
           /\ OwnOrRelayed'
<1> DEFINE kept == Append(subscribed[n][t], m)
           new == IF Len(kept) > Depth(t) THEN Tail(kept) ELSE kept
<1>1. subscribed[n][t] \in Seq(LocalMessage)
  BY DEF Shape
<1>2. kept \in Seq(LocalMessage) /\ kept # <<>> /\ Len(kept) = Len(subscribed[n][t]) + 1
  BY <1>1
<1>3. new \in Seq(LocalMessage)
  BY <1>2
<1>4. \A i \in DOMAIN kept : kept[i] = m \/ \E j \in DOMAIN subscribed[n][t] :
                                                kept[i] = subscribed[n][t][j]
  BY <1>1
<1>5. \A i \in DOMAIN new : \E j \in DOMAIN kept : new[i] = kept[j]
  <2>1. CASE new = kept
    BY <2>1
  <2>2. CASE new = Tail(kept)
    <3>1. \A i \in 1..Len(kept) - 1 : i + 1 \in DOMAIN kept /\ Tail(kept)[i] = kept[i + 1]
      BY <1>2
    <3>2. DOMAIN new = 1..Len(kept) - 1
      BY <1>2, <2>2
    <3> QED
      BY <2>2, <3>1, <3>2
  <2> QED
    BY <2>1, <2>2
<1>6. subscribed' = [subscribed EXCEPT ![n] = [subscribed[n] EXCEPT ![t] = new]]
  BY DEF Heard
<1>7. subscribed' \in [Nodes -> [Topics -> Seq(LocalMessage)]]
  <2> HIDE DEF new
  <2> QED
    BY <1>3, <1>6 DEF Shape
<1>8. ASSUME NEW o \in Nodes, NEW u \in Topics, Sends(o, u)
      PROVE  \A i \in DOMAIN subscribed'[o][u] :
                subscribed'[o][u][i].origin = o \/ Relayed(u)
  <2> HIDE DEF new, kept
  <2>1. CASE o = n /\ u = t
    <3>1. subscribed'[o][u] = new
      BY <1>6, <2>1 DEF Shape
    <3> QED
      BY <1>4, <1>5, <1>8, <2>1, <3>1 DEF OwnOrRelayed
  <2>2. CASE ~(o = n /\ u = t)
    <3>1. subscribed'[o][u] = subscribed[o][u]
      BY <1>6, <2>2 DEF Shape
    <3> QED
      BY <1>8, <3>1 DEF OwnOrRelayed
  <2> QED
    BY <2>1, <2>2
<1> QED
  BY <1>7, <1>8 DEF OwnOrRelayed, Sends

(* Taking the first element of a sequence.                                     *)
LEMMA Popped ==
    ASSUME NEW S, NEW s \in Seq(S), s # <<>>
    PROVE  /\ Head(s) \in S /\ Tail(s) \in Seq(S) /\ Head(s) = s[1] /\ 1 \in DOMAIN s
           /\ \A i \in DOMAIN Tail(s) : i + 1 \in DOMAIN s /\ Tail(s)[i] = s[i + 1]
  OBVIOUS
-----------------------------------------------------------------------------
LEMMA InitIInv == Init => IInv
<1> SUFFICES ASSUME Init
             PROVE  IInv
  OBVIOUS
<1>1. Shape
  BY DEF Init, Shape
<1>2. OwnOrRelayed
  BY DEF Init, OwnOrRelayed
<1>3. NoEcho
  BY DEF Init, NoEcho
<1> QED
  BY <1>1, <1>2, <1>3 DEF IInv

LEMMA PublishStep ==
    ASSUME IInv, NEW n \in Nodes, NEW t \in Topics, Publish(n, t)
    PROVE  IInv'
<1> USE DEF IInv
<1>1. made' \in [Sources -> Nat] /\ made'[<<n, t>>] \in Nat
  BY DEF Publish, Shape
<1>2. [origin |-> n, number |-> made'[<<n, t>>]] \in LocalMessage
  BY <1>1 DEF LocalMessage
<1>3. subscribed' \in [Nodes -> [Topics -> Seq(LocalMessage)]] /\ OwnOrRelayed'
  BY <1>2, HeardKeeps DEF Publish
<1>4. UNCHANGED <<next_sequence, pending, fifo, latest, rx, published>>
  BY DEF Publish, serial
<1> QED
  BY <1>1, <1>3, <1>4 DEF Shape, NoEcho

LEMMA NumberTakenType ==
    ASSUME Shape, NEW n \in Nodes, NEW t \in Topics, NumberTaken(n, t)
    PROVE  next_sequence' \in [Nodes -> [Topics -> Nat]]
<1> DEFINE v == (next_sequence[n][t] + 1) % SeqModulo
<1>1. next_sequence[n][t] + 1 \in Nat
  BY DEF Shape
<1>2. v \in Nat
  BY <1>1, BoundsAssumption
<1>3. next_sequence' = [next_sequence EXCEPT ![n] = [next_sequence[n] EXCEPT ![t] = v]]
  BY DEF NumberTaken
<1> HIDE DEF v
<1> QED
  BY <1>2, <1>3 DEF Shape

LEMMA TransmitStep ==
    ASSUME IInv, NEW n \in Nodes, NEW t \in Topics, Transmit(n, t)
    PROVE  IInv'
<1> USE DEF IInv
<1> DEFINE m == Head(subscribed[n][t])
           f == [topic |-> t, source |-> n, destination |-> Destination(n, t),
                 sequence |-> IF Latest(t) THEN Unsent ELSE next_sequence[n][t],
                 origin |-> m.origin, number |-> m.number]
<1>1. /\ subscribed[n][t] \in Seq(LocalMessage) /\ subscribed[n][t] # <<>> /\ Sends(n, t)
      /\ subscribed' = [subscribed EXCEPT ![n] = [subscribed[n] EXCEPT ![t] = Tail(@)]]
  BY DEF Transmit, Shape
<1>2. m \in LocalMessage /\ (m.origin = n \/ Relayed(t))
  BY <1>1, Popped DEF OwnOrRelayed
<1>3. subscribed' \in [Nodes -> [Topics -> Seq(LocalMessage)]]
  BY <1>1, Popped DEF Shape
<1>4. OwnOrRelayed'
  <2> SUFFICES ASSUME NEW o \in Nodes, NEW u \in Topics, Sends(o, u),
                      NEW i \in DOMAIN subscribed'[o][u]
               PROVE  subscribed'[o][u][i].origin = o \/ Relayed(u)
    BY DEF OwnOrRelayed, Sends
  <2>1. CASE o = n /\ u = t
    <3>1. subscribed'[o][u] = Tail(subscribed[n][t])
      BY <1>1, <2>1 DEF Shape
    <3>2. i + 1 \in DOMAIN subscribed[n][t] /\ subscribed'[o][u][i] = subscribed[n][t][i + 1]
      BY <1>1, <3>1, Popped
    <3> QED
      BY <2>1, <3>2 DEF OwnOrRelayed
  <2>2. CASE ~(o = n /\ u = t)
    <3>1. subscribed'[o][u] = subscribed[o][u]
      BY <1>1, <2>2 DEF Shape
    <3> QED
      BY <3>1 DEF OwnOrRelayed
  <2> QED
    BY <2>1, <2>2
<1>5. LocalOrigin(n, t, m) => f \in OwnFrame
  <2>1. Destination(n, t) \in Nodes \cup {"broadcast"}
    BY <1>1, DestinationType
  <2>2. Unsent \in Nat /\ next_sequence[n][t] \in Nat
    BY BoundsAssumption DEF Unsent, Shape
  <2>3. LocalOrigin(n, t, m) => m.origin = n
    BY <1>2 DEF LocalOrigin
  <2> HIDE DEF m
  <2> QED
    BY <1>2, <2>1, <2>2, <2>3 DEF OwnFrame, LocalMessage
<1>6. pending' \in [Nodes -> SUBSET OwnFrame] /\ fifo' \in [Nodes -> Seq(OwnFrame)]
  <2> HIDE DEF f, m
  <2>1. CASE ~LocalOrigin(n, t, m)
    BY <2>1 DEF Transmit, Shape, f, m
  <2>2. CASE LocalOrigin(n, t, m) /\ Latest(t)
    <3>1. pending' = [pending EXCEPT ![n] = ReplaceLatest(@, f)] /\ UNCHANGED fifo
      BY <2>2 DEF Transmit, f, m
    <3>2. ReplaceLatest(pending[n], f) \subseteq OwnFrame
      BY <1>5, <2>2 DEF ReplaceLatest, Shape
    <3> QED
      BY <3>1, <3>2 DEF Shape
  <2>3. CASE LocalOrigin(n, t, m) /\ ~Latest(t)
    <3>1. UNCHANGED pending /\ (UNCHANGED fifo \/ fifo' = [fifo EXCEPT ![n] = Append(@, f)])
      BY <2>3 DEF Transmit, f, m
    <3>2. Append(fifo[n], f) \in Seq(OwnFrame)
      BY <1>5, <2>3 DEF Shape
    <3> QED
      BY <3>1, <3>2 DEF Shape
  <2> QED
    BY <2>1, <2>2, <2>3
<1>7. next_sequence' \in [Nodes -> [Topics -> Nat]]
  <2>1. UNCHANGED next_sequence \/ NumberTaken(n, t)
    BY DEF Transmit
  <2> QED
    BY <2>1, NumberTakenType DEF Shape
<1>8. UNCHANGED <<made, latest, rx, published>>
  BY DEF Transmit
<1> QED
  BY <1>3, <1>4, <1>6, <1>7, <1>8 DEF Shape, NoEcho

LEMMA FlushStep ==
    ASSUME IInv, NEW n \in Nodes, Flush(n)
    PROVE  IInv'
<1> USE DEF IInv
<1>1. PICK ready \in SUBSET pending[n] \ {{}} :
          LET own == {f \in ready : f.sequence = Unsent}
              sent == {IF f \in own THEN [f EXCEPT !.sequence = next_sequence[n][f.topic]]
                       ELSE f : f \in ready} IN
          /\ pending' = [pending EXCEPT ![n] = @ \ ready]
          /\ \/ /\ connected[n]
                /\ latest' = [latest EXCEPT ![n] =
                                 {g \in @ : \A f \in ready : Key(g) # Key(f)} \cup sent]
                /\ \/ own = {} /\ UNCHANGED next_sequence
                   \/ \E f \in own : NumberTaken(n, f.topic)
             \/ ~connected[n] /\ UNCHANGED <<latest, next_sequence>>
          /\ UNCHANGED <<ros, fifo, connected, rx, published, drops>>
  BY DEF Flush, TakenOut
<1> DEFINE own == {f \in ready : f.sequence = Unsent}
           numbered(f) == IF f \in own
                          THEN [f EXCEPT !.sequence = next_sequence[n][f.topic]] ELSE f
           sent == {numbered(f) : f \in ready}
<1>2. ready \subseteq OwnFrame
  BY DEF Shape
<1>3. \A f \in ready : numbered(f) \in OwnFrame
  <2> SUFFICES ASSUME NEW f \in ready
               PROVE  [f EXCEPT !.sequence = next_sequence[n][f.topic]] \in OwnFrame
    BY <1>2
  <2>1. next_sequence[n][f.topic] \in Nat
    BY <1>2 DEF Shape, OwnFrame
  <2> QED
    BY <1>2, <2>1 DEF OwnFrame
<1>4. sent \subseteq OwnFrame
  <2> HIDE DEF numbered
  <2> QED
    BY <1>3
<1>5. /\ pending' = [pending EXCEPT ![n] = @ \ ready]
      /\ \/ UNCHANGED latest
         \/ latest' = [latest EXCEPT ![n] =
                          {g \in @ : \A f \in ready : Key(g) # Key(f)} \cup sent]
      /\ UNCHANGED next_sequence \/ \E f \in ready : NumberTaken(n, f.topic)
      /\ UNCHANGED <<made, subscribed, fifo, rx, published>>
  BY <1>1 DEF ros
<1> HIDE DEF sent
<1>6. pending' \in [Nodes -> SUBSET OwnFrame]
  BY <1>5 DEF Shape
<1>7. latest' \in [Nodes -> SUBSET OwnFrame]
  BY <1>4, <1>5 DEF Shape
<1>8. next_sequence' \in [Nodes -> [Topics -> Nat]]
  BY <1>2, <1>5, NumberTakenType DEF Shape, OwnFrame
<1> QED
  BY <1>5, <1>6, <1>7, <1>8 DEF Shape, NoEcho, OwnOrRelayed, Sends

LEMMA OnAirType ==
    ASSUME Shape, NEW n \in Nodes, NEW f \in OwnFrame, OnAir(n, f)
    PROVE  rx' \in [Nodes -> Seq(OwnFrame)]
<1>1. PICK hearers :
          rx' = [h \in Nodes |-> IF h \in hearers THEN Append(rx[h], f) ELSE rx[h]]
  BY DEF OnAir
<1>2. \A h \in Nodes : rx[h] \in Seq(OwnFrame) /\ Append(rx[h], f) \in Seq(OwnFrame)
  BY DEF Shape
<1> QED
  BY <1>1, <1>2

LEMMA SerialStep ==
    ASSUME IInv, NEW n \in Nodes, Write(n) \/ Disconnect(n) \/ Reconnect(n)
    PROVE  IInv'
<1> USE DEF IInv
<1>1. UNCHANGED <<made, subscribed, next_sequence, pending, published>>
  BY DEF Write, Disconnect, Reconnect, ros
<1>2. rx' \in [Nodes -> Seq(OwnFrame)]
  <2>1. CASE Write(n) /\ fifo[n] # <<>>
    <3>1. fifo[n] \in Seq(OwnFrame) /\ OnAir(n, Head(fifo[n]))
      BY <2>1 DEF Write, Shape
    <3> QED
      BY <2>1, <3>1, Popped, OnAirType
  <2>2. CASE Write(n) /\ fifo[n] = <<>>
    <3>1. PICK f \in latest[n] : OnAir(n, f)
      BY <2>2 DEF Write
    <3> QED
      BY <3>1, OnAirType DEF Shape
  <2>3. CASE Disconnect(n) \/ Reconnect(n)
    BY <2>3 DEF Disconnect, Reconnect, Shape
  <2> QED
    BY <2>1, <2>2, <2>3
<1>3. fifo' \in [Nodes -> Seq(OwnFrame)]
  <2>1. fifo[n] \in Seq(OwnFrame) /\ <<>> \in Seq(OwnFrame)
    BY DEF Shape
  <2>2. fifo[n] # <<>> => Tail(fifo[n]) \in Seq(OwnFrame)
    BY <2>1, Popped
  <2> QED
    BY <2>1, <2>2 DEF Write, Disconnect, Reconnect, Shape
<1>4. latest' \in [Nodes -> SUBSET OwnFrame]
  BY DEF Write, Disconnect, Reconnect, Shape
<1> QED
  BY <1>1, <1>2, <1>3, <1>4 DEF Shape, NoEcho, OwnOrRelayed, Sends

LEMMA RelayType ==
    ASSUME Shape, NEW n \in Nodes, NEW f \in OwnFrame, Relay(n, f)
    PROVE  /\ pending' \in [Nodes -> SUBSET OwnFrame]
           /\ fifo' \in [Nodes -> Seq(OwnFrame)]
<1> DEFINE copy == [f EXCEPT !.destination = "broadcast"]
<1>1. copy \in OwnFrame
  BY DEF OwnFrame
<1> HIDE DEF copy
<1>2. CASE Latest(f.topic)
  <2>1. pending' = [pending EXCEPT ![n] = ReplaceLatest(@, copy)] /\ UNCHANGED fifo
    BY <1>2 DEF Relay, copy
  <2>2. ReplaceLatest(pending[n], copy) \subseteq OwnFrame
    BY <1>1 DEF ReplaceLatest, Shape
  <2> QED
    BY <2>1, <2>2 DEF Shape
<1>3. CASE ~Latest(f.topic)
  <2>1. UNCHANGED pending /\ (UNCHANGED fifo \/ fifo' = [fifo EXCEPT ![n] = Append(@, copy)])
    BY <1>3 DEF Relay, copy
  <2>2. Append(fifo[n], copy) \in Seq(OwnFrame)
    BY <1>1 DEF Shape
  <2> QED
    BY <2>1, <2>2 DEF Shape
<1> QED
  BY <1>2, <1>3

LEMMA ProcessRxStep ==
    ASSUME IInv, NEW n \in Nodes, ProcessRx(n)
    PROVE  IInv'
<1> USE DEF IInv
<1> DEFINE f == Head(rx[n])
<1>1. rx[n] \in Seq(OwnFrame) /\ rx[n] # <<>> /\ rx' = [rx EXCEPT ![n] = Tail(@)]
  BY DEF ProcessRx, Shape
<1>2. f \in OwnFrame /\ rx' \in [Nodes -> Seq(OwnFrame)]
  BY <1>1, Popped DEF Shape
<1>3. UNCHANGED <<made, next_sequence, latest>>
  BY DEF ProcessRx
<1>4. /\ Decoded(f) \in LocalMessage /\ Decoded(f).origin = f.source
      /\ f.topic \in Topics
  BY <1>2 DEF Decoded, LocalMessage, OwnFrame
<1>5. pending' \in [Nodes -> SUBSET OwnFrame] /\ fifo' \in [Nodes -> Seq(OwnFrame)]
  <2>1. UNCHANGED <<pending, fifo>> \/ Relay(n, f)
    BY DEF ProcessRx
  <2> HIDE DEF f
  <2> QED
    BY <1>2, <2>1, RelayType DEF Shape
<1>6. CASE ~ForMe(n, f)
  <2>1. UNCHANGED <<subscribed, published>>
    BY <1>6 DEF ProcessRx
  <2> QED
    BY <1>2, <1>3, <1>5, <2>1 DEF Shape, NoEcho, OwnOrRelayed, Sends
<1>7. CASE ForMe(n, f)
  <2>1. /\ published' = [published EXCEPT ![n] =
                             [published[n] EXCEPT ![<<f.topic, f.source>>] = Decoded(f).number]]
        /\ IF Sends(n, f.topic) THEN Heard(n, f.topic, Decoded(f)) ELSE UNCHANGED subscribed
    BY <1>4, <1>7 DEF ProcessRx
  <2>2. f.source # n /\ Accepts(n, f)
    BY <1>7 DEF ForMe
  <2> HIDE DEF f
  <2>3. subscribed' \in [Nodes -> [Topics -> Seq(LocalMessage)]] /\ OwnOrRelayed'
    <3>1. CASE Sends(n, f.topic)
      <4>1. Relayed(f.topic)
        BY <1>2, <2>2, <3>1, OnlyRelayedReturn
      <4> QED
        BY <1>4, <2>1, <3>1, <4>1, HeardKeeps
    <3>2. CASE ~Sends(n, f.topic)
      BY <2>1, <3>2 DEF Shape, OwnOrRelayed, Sends
    <3> QED
      BY <3>1, <3>2
  <2>4. f.source \in Nodes /\ Decoded(f).number \in Nat
    BY <1>2, <1>4 DEF OwnFrame, LocalMessage
  <2>5. published' \in [Nodes -> [Topics \X Nodes -> Nat]]
    BY <1>4, <2>1, <2>4 DEF Shape
  <2>6. NoEcho'
    <3> SUFFICES ASSUME NEW o \in Nodes, NEW t \in Topics
                 PROVE  published'[o][<<t, o>>] = 0
      BY DEF NoEcho
    <3>1. published[o] \in [Topics \X Nodes -> Nat] /\ published[o][<<t, o>>] = 0
      BY DEF NoEcho, Shape
    <3>2. CASE o = n
      <4>1. published'[n] = [published[n] EXCEPT ![<<f.topic, f.source>>] = Decoded(f).number]
        BY <2>1 DEF Shape
      <4>2. <<t, n>> # <<f.topic, f.source>>
        BY <2>2
      <4> QED
        BY <3>1, <3>2, <4>1, <4>2
    <3>3. CASE o # n
      BY <2>1, <3>1, <3>3 DEF Shape
    <3> QED
      BY <3>2, <3>3
  <2> QED
    BY <1>2, <1>3, <1>5, <2>3, <2>5, <2>6 DEF Shape
<1> QED
  BY <1>6, <1>7

LEMMA StutterStep == IInv /\ UNCHANGED vars => IInv'
  BY DEF IInv, Shape, NoEcho, OwnOrRelayed, Sends, vars, ros, serial

LEMMA InvariantHolds == Spec => []IInv
<1>1. IInv /\ [Next]_vars => IInv'
  <2> SUFFICES ASSUME IInv, Next \/ UNCHANGED vars
               PROVE  IInv'
    OBVIOUS
  <2>1. CASE \E n \in Nodes, t \in Topics : Publish(n, t) \/ Transmit(n, t)
    BY <2>1, PublishStep, TransmitStep
  <2>2. CASE \E n \in Nodes : \/ Flush(n) \/ Write(n) \/ Disconnect(n) \/ Reconnect(n)
                              \/ ProcessRx(n)
    BY <2>2, FlushStep, SerialStep, ProcessRxStep
  <2> QED
    BY <2>1, <2>2, StutterStep DEF Next
<1> QED
  BY <1>1, InitIInv, PTL DEF Spec

(* No bridge publishes into its own ROS graph a message of its own vehicle, for      *)
(* any number of followers, any publishing nodes, losses and disconnections         *)
(* (_message_is_local_origin, _publish_frame, the registry).                    *)
THEOREM NeverEchoed == Spec => []NoEcho
<1>1. IInv => NoEcho
  BY DEF IInv
<1> QED
  BY <1>1, InvariantHolds, PTL
-----------------------------------------------------------------------------
(* The way of a stream to a receiver.  What is still to be published at n of the stream of  *)
(* topic t about o waits, the oldest first, in the receiver's queue, and, when the leader   *)
(* relays it, in the leader's worker, its newest-only slot and its receive queue, and       *)
(* before in the worker, the slot and the subscription of o; last comes the message that    *)
(* o's node has not published yet.  A position is a stage of the way and an index in it.     *)
AtReceiver(n, t, o, i, x) ==
    /\ i \in DOMAIN rx[n] /\ Key(rx[n][i]) = <<t, o>>
    /\ ForMe(n, rx[n][i]) /\ x = rx[n][i].number

AtLeader(t, o, i, x) ==
    i \in DOMAIN rx["leader"] /\ Key(rx["leader"][i]) = <<t, o>> /\ x = rx["leader"][i].number

AtWorker(m, t, o, i, x) ==
    \/ i \in DOMAIN fifo[m] /\ Key(fifo[m][i]) = <<t, o>> /\ x = fifo[m][i].number
    \/ i = 0 /\ \E f \in latest[m] : Key(f) = <<t, o>> /\ x = f.number

Waiting(m, t, o, i, x) == i = 0 /\ \E f \in pending[m] : Key(f) = <<t, o>> /\ x = f.number

Untold(t, o, i, x) ==
    /\ i \in DOMAIN subscribed[o][t] /\ subscribed[o][t][i].origin = o
    /\ x = subscribed[o][t][i].number

ViaLeader(n, o) == n # "leader" /\ o \in Followers

OnWay(n, t, o, a, i, x) ==
    \/ a = 0 /\ i = 0 /\ x = published[n][<<t, o>>]
    \/ a = 1 /\ AtReceiver(n, t, o, i, x)
    \/ a = 2 /\ ViaLeader(n, o) /\ AtWorker("leader", t, o, i, x)
    \/ a = 3 /\ ViaLeader(n, o) /\ Waiting("leader", t, o, i, x)
    \/ a = 4 /\ ViaLeader(n, o) /\ AtLeader(t, o, i, x)
    \/ a = 5 /\ AtWorker(o, t, o, i, x)
    \/ a = 6 /\ Waiting(o, t, o, i, x)
    \/ a = 7 /\ Untold(t, o, i, x)
    \/ a = 8 /\ i = 0 /\ <<o, t>> \in Sources /\ x = made[<<o, t>>] + 1

Before(a, i, b, j) == a < b \/ (a = b /\ i < j)

WayInOrder(n, t, o) ==
    \A a, b \in 0..8, i, j, x, y \in Nat :
        OnWay(n, t, o, a, i, x) /\ OnWay(n, t, o, b, j, y) /\ Before(a, i, b, j) => x < y

(* A frame is sent by its source, or by the leader that relays it to all.            *)
SentBy(m, f) ==
    \/ /\ f.source = m /\ Sends(m, f.topic) /\ f.destination = Destination(m, f.topic)
    \/ m = "leader" /\ f.source \in Followers /\ f.destination = "broadcast"

Routed ==
    \A m \in Nodes :
        /\ \A f \in pending[m] \cup latest[m] : SentBy(m, f) /\ Latest(f.topic)
        /\ \A i \in DOMAIN fifo[m] : SentBy(m, fifo[m][i]) /\ ~Latest(fifo[m][i].topic)
        /\ OneEach(pending[m]) /\ OneEach(latest[m])

InOrder == \A n, o \in Nodes, t \in Topics : WayInOrder(n, t, o)

(* The order of a way is kept by a step that takes nothing into it but the next message of   *)
(* its source, moves at most one message, the first of stage s, to the end of stage d, and   *)
(* shifts the indices of one stage.                                                  *)
Carries(n, t, o, u, c, d, e, s, k) ==
    \A b \in 0..8, j, y \in Nat : OnWay(n, t, o, b, j, y)' =>
        \/ \E i \in Nat : /\ i = (IF b = u THEN j + c ELSE j)
                          /\ OnWay(n, t, o, b, i, y)
                          /\ Before(b, j, d, e) \/ Before(s, k, b, i)
        \/ s \in 0..8 /\ b = d /\ j = e /\ OnWay(n, t, o, s, k, y)
        \/ /\ b = 8 /\ j = 0
           /\ \E z \in Nat : OnWay(n, t, o, 8, 0, z)
           /\ \A z \in Nat : OnWay(n, t, o, 8, 0, z) => z < y

LEMMA WayKept ==
    ASSUME NEW n, NEW t, NEW o, WayInOrder(n, t, o),
           NEW u \in 0..7, NEW c \in Nat, NEW d \in Nat, NEW e \in Nat, NEW s \in Nat,
           NEW k \in Nat, d < s, s = 8 => k = 0, Carries(n, t, o, u, c, d, e, s, k)
    PROVE  WayInOrder(n, t, o)'
<1> SUFFICES ASSUME NEW a \in 0..8, NEW b \in 0..8, NEW i \in Nat, NEW j \in Nat,
                    NEW x \in Nat, NEW y \in Nat,
                    OnWay(n, t, o, a, i, x)', OnWay(n, t, o, b, j, y)', Before(a, i, b, j)
             PROVE  x < y
  BY DEF WayInOrder
<1> DEFINE Kept(p, q, z, r) ==
             /\ r = (IF p = u THEN q + c ELSE q)
             /\ OnWay(n, t, o, p, r, z)
             /\ Before(p, q, d, e) \/ Before(s, k, p, r)
           Moved(p, q, z) == s \in 0..8 /\ p = d /\ q = e /\ OnWay(n, t, o, s, k, z)
           New(p, q, w) == /\ p = 8 /\ q = 0
                           /\ \E z \in Nat : OnWay(n, t, o, 8, 0, z)
                           /\ \A z \in Nat : OnWay(n, t, o, 8, 0, z) => z < w
<1>1. (\E r \in Nat : Kept(a, i, x, r)) \/ Moved(a, i, x) \/ New(a, i, x)
  BY DEF Carries
<1>2. (\E r \in Nat : Kept(b, j, y, r)) \/ Moved(b, j, y) \/ New(b, j, y)
  BY DEF Carries
<1>3. \A p, q \in 0..8, r, l, v, w \in Nat :
         OnWay(n, t, o, p, r, v) /\ OnWay(n, t, o, q, l, w) /\ Before(p, r, q, l) => v < w
  BY DEF WayInOrder
<1>4. \A r, z : OnWay(n, t, o, 8, r, z) => r = 0
  BY DEF OnWay
<1>5. CASE New(b, j, y)
  <2>1. PICK z \in Nat : OnWay(n, t, o, 8, 0, z) /\ z < y
    BY <1>5
  <2>2. ASSUME NEW r \in Nat, Kept(a, i, x, r) PROVE x < y
    <3>1. Before(a, r, 8, 0)
      BY <1>5 DEF Before
    <3>2. x < z
      <4>1. 8 \in 0..8 /\ 0 \in Nat /\ OnWay(n, t, o, a, r, x)
        BY <2>2
      <4> QED
        BY <1>3, <2>1, <3>1, <4>1
    <3> QED
      BY <2>1, <3>2
  <2>3. CASE Moved(a, i, x)
    <3>1. s = 8 => x < y
      BY <1>5, <2>3
    <3>2. s < 8 => Before(s, k, 8, 0)
      BY DEF Before
    <3>3. s < 8 => x < z
      <4>1. 8 \in 0..8 /\ 0 \in Nat /\ s \in 0..8 /\ OnWay(n, t, o, s, k, x)
        BY <2>3
      <4> QED
        BY <1>3, <2>1, <3>2, <4>1
    <3> QED
      BY <2>1, <2>3, <3>1, <3>3
  <2>4. ~New(a, i, x)
    BY <1>5 DEF Before
  <2> QED
    BY <1>1, <2>2, <2>3, <2>4
<1>6. CASE New(a, i, x) /\ ~New(b, j, y)
  <2>1. b = 8 /\ j > 0
    BY <1>6 DEF Before
  <2>2. ~Moved(b, j, y)
    BY <2>1
  <2>3. ASSUME NEW r \in Nat, Kept(b, j, y, r) PROVE FALSE
    BY <1>4, <2>1, <2>3
  <2> QED
    BY <1>2, <1>6, <2>2, <2>3
<1>7. CASE ~New(a, i, x) /\ ~New(b, j, y)
  <2>1. ASSUME NEW r \in Nat, Kept(a, i, x, r), NEW l \in Nat, Kept(b, j, y, l)
        PROVE  x < y
    <3>1. Before(a, r, b, l)
      BY <2>1 DEF Before
    <3> QED
      BY <1>3, <2>1, <3>1
  <2>2. ASSUME NEW r \in Nat, Kept(a, i, x, r), Moved(b, j, y) PROVE x < y
    <3>1. Before(a, r, s, k)
      BY <2>2 DEF Before
    <3> QED
      BY <1>3, <2>2, <3>1
  <2>3. ASSUME Moved(a, i, x), NEW l \in Nat, Kept(b, j, y, l) PROVE x < y
    <3>1. Before(s, k, b, l)
      BY <2>3 DEF Before
    <3> QED
      BY <1>3, <2>3, <3>1
  <2>4. ~(Moved(a, i, x) /\ Moved(b, j, y))
    BY DEF Before
  <2> QED
    BY <1>1, <1>2, <1>7, <2>1, <2>2, <2>3, <2>4
<1> QED
  BY <1>5, <1>6, <1>7

(* ... and by one that only takes messages out of it.                             *)
LEMMA WayShortened ==
    ASSUME NEW n, NEW t, NEW o, WayInOrder(n, t, o), NEW u \in 0..7, NEW c \in Nat,
           \A b \in 0..8, j, y \in Nat :
               OnWay(n, t, o, b, j, y)' => OnWay(n, t, o, b, IF b = u THEN j + c ELSE j, y)
    PROVE  WayInOrder(n, t, o)'
<1>1. ASSUME NEW b \in 0..8, NEW j \in Nat, NEW y \in Nat, OnWay(n, t, o, b, j, y)'
      PROVE  \E i \in Nat : /\ i = (IF b = u THEN j + c ELSE j)
                            /\ OnWay(n, t, o, b, i, y)
                            /\ Before(b, j, 9, 0) \/ Before(10, 0, b, i)
  <2>1. Before(b, j, 9, 0)
    BY DEF Before
  <2>2. (IF b = u THEN j + c ELSE j) \in Nat
    OBVIOUS
  <2> QED
    BY <1>1, <2>1, <2>2
<1>2. Carries(n, t, o, u, c, 9, 0, 10, 0)
  BY <1>1 DEF Carries
<1>3. 9 \in Nat /\ 0 \in Nat /\ 10 \in Nat /\ 9 < 10 /\ 10 # 8
  OBVIOUS
<1> QED
  BY <1>2, <1>3, WayKept

(* What a subscription hears is its last message; the others may move up by one.           *)
HeardAt(t, n, m, c, e) ==
    \A j, y \in Nat : Untold(t, n, j, y)' =>
        \/ j < e /\ Untold(t, n, j + c, y)
        \/ j = e /\ m.origin = n /\ y = m.number

LEMMA HeardLast ==
    ASSUME Shape, NEW n \in Nodes, NEW t \in Topics, NEW m \in LocalMessage, Heard(n, t, m)
    PROVE  /\ \E c \in {0, 1}, e \in Nat : HeardAt(t, n, m, c, e)
           /\ \A o \in Nodes, u \in Topics : <<o, u>> # <<n, t>> =>
                 \A j, y : Untold(u, o, j, y)' <=> Untold(u, o, j, y)
<1> DEFINE s == subscribed[n][t]
           kept == Append(s, m)
           new == IF Len(kept) > Depth(t) THEN Tail(kept) ELSE kept
<1>1. s \in Seq(LocalMessage) /\ Len(s) \in Nat /\ DOMAIN s = 1..Len(s)
  BY DEF Shape
<1>2. /\ kept \in Seq(LocalMessage) /\ Len(kept) = Len(s) + 1 /\ kept[Len(s) + 1] = m
      /\ \A i \in 1..Len(s) : kept[i] = s[i]
  BY <1>1
<1>3. subscribed' = [subscribed EXCEPT ![n] = [subscribed[n] EXCEPT ![t] = new]]
  BY DEF Heard
<1>4. subscribed'[n][t] = new
  <2> HIDE DEF new
  <2> QED
    BY <1>3 DEF Shape
<1>5. Depth(t) \in Nat /\ Depth(t) >= 1
  BY DEF Depth
<1>6. \E c \in {0, 1}, e \in Nat : HeardAt(t, n, m, c, e)
  <2> HIDE DEF s, kept
  <2>1. CASE ~(Len(kept) > Depth(t))
    <3>1. DOMAIN new = 1..Len(s) + 1 /\ new = kept
      BY <1>2, <2>1
    <3>2. ASSUME NEW j \in Nat, NEW y \in Nat, Untold(t, n, j, y)'
          PROVE  \/ j < Len(s) + 1 /\ Untold(t, n, j + 0, y)
                 \/ j = Len(s) + 1 /\ m.origin = n /\ y = m.number
      <4>1. j \in 1..Len(s) + 1 /\ kept[j].origin = n /\ y = kept[j].number
        BY <1>4, <3>1, <3>2 DEF Untold
      <4>2. CASE j = Len(s) + 1
        BY <1>2, <4>1, <4>2
      <4>3. CASE j # Len(s) + 1
        <5>1. j \in 1..Len(s) /\ kept[j] = s[j] /\ j + 0 = j /\ j < Len(s) + 1
          BY <1>1, <1>2, <4>1, <4>3
        <5> QED
          BY <1>1, <4>1, <5>1 DEF Untold, s
      <4> QED
        BY <4>2, <4>3
    <3>3. Len(s) + 1 \in Nat /\ 0 \in {0, 1}
      BY <1>1
    <3>4. HeardAt(t, n, m, 0, Len(s) + 1)
      BY <3>2 DEF HeardAt
    <3> QED
      BY <3>3, <3>4
  <2>2. CASE Len(kept) > Depth(t)
    <3>1. Len(s) >= 1 /\ kept # <<>>
      BY <1>1, <1>2, <1>5, <2>2
    <3>2. /\ DOMAIN Tail(kept) = 1..Len(s) /\ new = Tail(kept)
          /\ \A i \in 1..Len(s) : Tail(kept)[i] = kept[i + 1]
      BY <1>1, <1>2, <2>2, <3>1
    <3>3. ASSUME NEW j \in Nat, NEW y \in Nat, Untold(t, n, j, y)'
          PROVE  \/ j < Len(s) /\ Untold(t, n, j + 1, y)
                 \/ j = Len(s) /\ m.origin = n /\ y = m.number
      <4>1. j \in 1..Len(s) /\ kept[j + 1].origin = n /\ y = kept[j + 1].number
        BY <1>4, <3>2, <3>3 DEF Untold
      <4>2. CASE j = Len(s)
        BY <1>2, <4>1, <4>2
      <4>3. CASE j # Len(s)
        <5>1. j + 1 \in 1..Len(s) /\ kept[j + 1] = s[j + 1] /\ j < Len(s)
          BY <1>1, <1>2, <4>1, <4>3
        <5> QED
          BY <1>1, <4>1, <5>1 DEF Untold, s
      <4> QED
        BY <4>2, <4>3
    <3>4. 1 \in {0, 1} /\ HeardAt(t, n, m, 1, Len(s))
      BY <3>3 DEF HeardAt
    <3> QED
      BY <1>1, <3>4
  <2> QED
    BY <2>1, <2>2
<1>7. ASSUME NEW o \in Nodes, NEW u \in Topics, <<o, u>> # <<n, t>>
      PROVE  subscribed'[o][u] = subscribed[o][u]
  <2> HIDE DEF new
  <2> QED
    BY <1>3, <1>7 DEF Shape
<1> QED
  BY <1>6, <1>7 DEF Untold

LEMMA PublishWay ==
    ASSUME IInv, NEW p \in Nodes, NEW q \in Topics, Publish(p, q),
           NEW n \in Nodes, NEW t \in Topics, NEW o \in Nodes, WayInOrder(n, t, o)
    PROVE  WayInOrder(n, t, o)'
<1> DEFINE m == [origin |-> p, number |-> made'[<<p, q>>]]
<1>1. /\ <<p, q>> \in Sources /\ made[<<p, q>>] \in Nat
      /\ made' = [made EXCEPT ![<<p, q>>] = made[<<p, q>>] + 1]
      /\ Heard(p, q, m) /\ Shape
  BY DEF Publish, IInv, Shape
<1>2. made'[<<p, q>>] = made[<<p, q>>] + 1 /\ m \in LocalMessage
  <2>1. made'[<<p, q>>] = made[<<p, q>>] + 1
    BY <1>1 DEF Shape
  <2>2. made'[<<p, q>>] \in Nat
    BY <1>1, <2>1
  <2> QED
    BY <2>1, <2>2 DEF LocalMessage
<1>3. UNCHANGED <<pending, fifo, latest, rx, published>>
  BY DEF Publish, serial
<1>4. \A i, x : /\ AtReceiver(n, t, o, i, x)' <=> AtReceiver(n, t, o, i, x)
                /\ AtLeader(t, o, i, x)' <=> AtLeader(t, o, i, x)
                /\ \A w \in Nodes : /\ AtWorker(w, t, o, i, x)' <=> AtWorker(w, t, o, i, x)
                                    /\ Waiting(w, t, o, i, x)' <=> Waiting(w, t, o, i, x)
  BY <1>3 DEF AtReceiver, AtLeader, AtWorker, Waiting
<1>5. "leader" \in Nodes
  BY DEF Nodes
<1> HIDE DEF m
<1>6. CASE <<o, t>> # <<p, q>>
  <2>1. \A j, y : Untold(t, o, j, y)' <=> Untold(t, o, j, y)
    BY <1>1, <1>2, <1>6, HeardLast
  <2>2. <<o, t>> \in Sources => made'[<<o, t>>] = made[<<o, t>>]
    BY <1>1, <1>6 DEF Shape
  <2>3. ASSUME NEW b \in 0..8, NEW j \in Nat, NEW y \in Nat, OnWay(n, t, o, b, j, y)'
        PROVE  OnWay(n, t, o, b, IF b = 0 THEN j + 0 ELSE j, y)
    <3>1. (IF b = 0 THEN j + 0 ELSE j) = j
      OBVIOUS
    <3> QED
      BY <1>3, <1>4, <1>5, <2>1, <2>2, <2>3, <3>1 DEF OnWay, ViaLeader
  <2> QED
    BY <2>3, WayShortened
<1>7. CASE <<o, t>> = <<p, q>>
  <2>1. PICK c \in {0, 1}, e \in Nat : HeardAt(t, o, m, c, e)
    BY <1>1, <1>2, <1>7, HeardLast
  <2>2. \A z : OnWay(n, t, o, 8, 0, z) <=> z = made[<<o, t>>] + 1
    BY <1>1, <1>7 DEF OnWay
  <2>3. m.number = made[<<o, t>>] + 1 /\ made'[<<o, t>>] = made[<<o, t>>] + 1
        /\ made[<<o, t>>] \in Nat
    BY <1>1, <1>2, <1>7 DEF m
  <2>4. ASSUME NEW b \in 0..8, NEW j \in Nat, NEW y \in Nat, OnWay(n, t, o, b, j, y)'
        PROVE  \/ \E i \in Nat : /\ i = (IF b = 7 THEN j + c ELSE j)
                                 /\ OnWay(n, t, o, b, i, y)
                                 /\ Before(b, j, 7, e) \/ Before(8, 0, b, i)
               \/ 8 \in 0..8 /\ b = 7 /\ j = e /\ OnWay(n, t, o, 8, 0, y)
               \/ /\ b = 8 /\ j = 0
                  /\ \E z \in Nat : OnWay(n, t, o, 8, 0, z)
                  /\ \A z \in Nat : OnWay(n, t, o, 8, 0, z) => z < y
    <3>1. CASE b < 7
      <4>1. OnWay(n, t, o, b, j, y)
        BY <1>3, <1>4, <1>5, <2>4, <3>1 DEF OnWay, ViaLeader
      <4>2. Before(b, j, 7, e)
        BY <3>1 DEF Before
      <4> QED
        BY <3>1, <4>1, <4>2
    <3>2. CASE b = 7
      <4>1. Untold(t, o, j, y)'
        BY <2>4, <3>2 DEF OnWay
      <4>2. CASE j < e /\ Untold(t, o, j + c, y)
        <5>1. OnWay(n, t, o, b, j + c, y) /\ Before(b, j, 7, e) /\ j + c \in Nat
          BY <3>2, <4>2 DEF OnWay, Before
        <5> QED
          BY <3>2, <5>1
      <4>3. CASE j = e /\ y = m.number
        BY <2>2, <2>3, <3>2, <4>3
      <4> QED
        BY <2>1, <4>1, <4>2, <4>3 DEF HeardAt
    <3>3. CASE b = 8
      <4>1. j = 0 /\ y = made[<<o, t>>] + 1 + 1
        BY <2>3, <2>4, <3>3 DEF OnWay
      <4>2. made[<<o, t>>] + 1 < y /\ made[<<o, t>>] + 1 \in Nat
        BY <2>3, <4>1
      <4> QED
        BY <2>2, <3>3, <4>1, <4>2
    <3> QED
      BY <3>1, <3>2, <3>3
  <2>5. Carries(n, t, o, 7, c, 7, e, 8, 0)
    BY <2>4 DEF Carries
  <2>6. 7 \in 0..7 /\ 7 \in Nat /\ c \in Nat /\ 8 \in Nat /\ 0 \in Nat /\ 7 < 8
    OBVIOUS
  <2> QED
    BY <2>5, <2>6, WayKept
<1> QED
  BY <1>6, <1>7

(* A frame at the end of the worker's queue, and one in the newest-only slot.              *)
AppendedTo(m, f) ==
    \A t, o, y : \A w \in Nodes, j \in Nat : AtWorker(w, t, o, j, y)' =>
        \/ AtWorker(w, t, o, j, y) /\ (w = m => j <= Len(fifo[m]))
        \/ w = m /\ j = Len(fifo[m]) + 1 /\ Key(f) = <<t, o>> /\ y = f.number

LEMMA AppendedLast ==
    ASSUME Shape, NEW m \in Nodes, NEW f \in OwnFrame, UNCHANGED latest,
           fifo' = [fifo EXCEPT ![m] = Append(@, f)]
    PROVE  AppendedTo(m, f)
<1> DEFINE s == fifo[m]
           longer == Append(s, f)
<1>1. s \in Seq(OwnFrame) /\ Len(s) \in Nat /\ DOMAIN s = 1..Len(s)
  BY DEF Shape
<1>2. /\ DOMAIN longer = 1..Len(s) + 1 /\ longer[Len(s) + 1] = f
      /\ \A i \in 1..Len(s) : longer[i] = s[i]
  BY <1>1
<1> HIDE DEF longer
<1>3. fifo'[m] = longer /\ \A w \in Nodes : w # m => fifo'[w] = fifo[w]
  BY DEF Shape, longer
<1> SUFFICES ASSUME NEW w \in Nodes, NEW t, NEW o, NEW y, NEW j \in Nat, AtWorker(w, t, o, j, y)'
             PROVE  \/ AtWorker(w, t, o, j, y) /\ (w = m => j <= Len(s))
                    \/ w = m /\ j = Len(s) + 1 /\ Key(f) = <<t, o>> /\ y = f.number
  BY DEF AppendedTo
<1> QED
  <2>1. CASE w # m
    BY <1>3, <2>1 DEF AtWorker
  <2>2. CASE w = m
    <3>1. CASE j = 0 /\ \E g \in latest'[w] : Key(g) = <<t, o>> /\ y = g.number
      BY <1>1, <3>1 DEF AtWorker
    <3>2. CASE j \in 1..Len(s) + 1 /\ Key(longer[j]) = <<t, o>> /\ y = longer[j].number
      <4>1. CASE j = Len(s) + 1
        BY <1>2, <2>2, <3>2, <4>1
      <4>2. CASE j # Len(s) + 1
        <5>1. j \in 1..Len(s) /\ longer[j] = s[j] /\ j <= Len(s)
          BY <1>1, <1>2, <3>2, <4>2
        <5> QED
          BY <1>1, <2>2, <3>2, <5>1 DEF AtWorker
      <4> QED
        BY <4>1, <4>2
    <3> QED
      BY <1>2, <1>3, <2>2, <3>1, <3>2 DEF AtWorker, Key
  <2> QED
    BY <2>1, <2>2

ReplacedBy(m, f) ==
    \A w \in Nodes : \A t, o, j, y : Waiting(w, t, o, j, y)' =>
        \/ Waiting(w, t, o, j, y) /\ (w = m => Key(f) # <<t, o>>)
        \/ w = m /\ j = 0 /\ Key(f) = <<t, o>> /\ y = f.number

LEMMA ReplacedOnly ==
    ASSUME Shape, NEW m \in Nodes, NEW f \in OwnFrame,
           pending' = [pending EXCEPT ![m] = ReplaceLatest(@, f)]
    PROVE  ReplacedBy(m, f)
  BY DEF Shape, Waiting, ReplaceLatest, Key, ReplacedBy

LEMMA FirstUntold ==
    ASSUME Shape, NEW n \in Nodes, NEW t \in Topics, subscribed[n][t] # <<>>,
           subscribed' = [subscribed EXCEPT ![n][t] = Tail(@)]
    PROVE  /\ \A j, y \in Nat : Untold(t, n, j, y)' => Untold(t, n, j + 1, y) /\ j >= 1
           /\ Head(subscribed[n][t]).origin = n =>
                 Untold(t, n, 1, Head(subscribed[n][t]).number)
           /\ \A o \in Nodes, u \in Topics : <<o, u>> # <<n, t>> =>
                 \A j, y : Untold(u, o, j, y)' <=> Untold(u, o, j, y)
<1> DEFINE s == subscribed[n][t]
           rest == Tail(s)
<1>1. s \in Seq(LocalMessage)
  BY DEF Shape
<1>2. /\ Head(s) = s[1] /\ 1 \in DOMAIN s
      /\ \A i \in DOMAIN rest : i \in Nat /\ i >= 1 /\ i + 1 \in DOMAIN s /\ rest[i] = s[i + 1]
  BY <1>1
<1> HIDE DEF rest
<1>3. subscribed' = [subscribed EXCEPT ![n] = [subscribed[n] EXCEPT ![t] = rest]]
  BY DEF rest
<1>4. /\ subscribed'[n][t] = rest
      /\ \A o \in Nodes, u \in Topics : <<o, u>> # <<n, t>> =>
            subscribed'[o][u] = subscribed[o][u]
  BY <1>3 DEF Shape
<1> QED
  BY <1>2, <1>4 DEF Untold

LEMMA TransmitWay ==
    ASSUME IInv, Routed, NEW p \in Nodes, NEW q \in Topics, Transmit(p, q),
           NEW n \in Nodes, NEW t \in Topics, NEW o \in Nodes, WayInOrder(n, t, o)
    PROVE  WayInOrder(n, t, o)'
<1> DEFINE m == Head(subscribed[p][q])
           f == [topic |-> q, source |-> p, destination |-> Destination(p, q),
                 sequence |-> IF Latest(q) THEN Unsent ELSE next_sequence[p][q],
                 origin |-> m.origin, number |-> m.number]
<1>1. Shape /\ subscribed[p][q] # <<>> /\ Sends(p, q)
      /\ subscribed' = [subscribed EXCEPT ![p][q] = Tail(@)]
  BY DEF Transmit, IInv
<1>2. UNCHANGED <<made, latest, rx, published>>
  BY DEF Transmit
<1>3. m \in LocalMessage /\ (m.origin = p \/ Relayed(q))
  <2>1. subscribed[p][q] \in Seq(LocalMessage)
    BY DEF IInv, Shape
  <2> QED
    BY <1>1, <2>1, Popped DEF IInv, OwnOrRelayed
<1>4. \/ UNCHANGED <<pending, fifo>>
      \/ /\ m.origin = p /\ Latest(q) /\ UNCHANGED fifo
         /\ pending' = [pending EXCEPT ![p] = ReplaceLatest(@, f)]
      \/ /\ m.origin = p /\ ~Latest(q) /\ UNCHANGED pending
         /\ fifo' = [fifo EXCEPT ![p] = Append(@, f)]
  BY <1>3 DEF Transmit, LocalOrigin
<1>5. m.origin = p => f \in OwnFrame
  <2>1. Destination(p, q) \in Nodes \cup {"broadcast"}
    BY <1>1, DestinationType
  <2>2. Unsent \in Nat /\ next_sequence[p][q] \in Nat
    BY BoundsAssumption DEF Unsent, IInv, Shape
  <2> HIDE DEF m
  <2> QED
    BY <1>3, <2>1, <2>2 DEF OwnFrame, LocalMessage
<1>6. Key(f) = <<q, p>> /\ f.number = m.number
  BY DEF Key
<1>7. \A i, x : /\ AtReceiver(n, t, o, i, x)' <=> AtReceiver(n, t, o, i, x)
                /\ AtLeader(t, o, i, x)' <=> AtLeader(t, o, i, x)
  BY <1>2 DEF AtReceiver, AtLeader
<1>8. "leader" \in Nodes
  BY DEF Nodes
<1>9. ASSUME UNCHANGED <<pending, fifo>> \/ <<o, t>> # <<p, q>>,
             NEW w \in Nodes, NEW i \in Nat, NEW x
      PROVE  /\ AtWorker(w, t, o, i, x)' => AtWorker(w, t, o, i, x)
             /\ Waiting(w, t, o, i, x)' => Waiting(w, t, o, i, x)
  <2> HIDE DEF f, m
  <2>1. CASE UNCHANGED <<pending, fifo>>
    BY <1>2, <2>1 DEF AtWorker, Waiting
  <2>2. CASE /\ m.origin = p /\ Latest(q) /\ UNCHANGED fifo
             /\ pending' = [pending EXCEPT ![p] = ReplaceLatest(@, f)]
    <3>1. AtWorker(w, t, o, i, x)' => AtWorker(w, t, o, i, x)
      BY <1>2, <2>2 DEF AtWorker
    <3>2. Waiting(w, t, o, i, x)' => Waiting(w, t, o, i, x) \/ <<q, p>> = <<t, o>>
      <4>1. f \in OwnFrame /\ Shape
        BY <1>1, <1>5, <2>2
      <4>2. pending' = [pending EXCEPT ![p] = ReplaceLatest(@, f)]
        BY <2>2
      <4>3. \/ Waiting(w, t, o, i, x)' => Waiting(w, t, o, i, x)
            \/ Key(f) = <<t, o>>
        BY <4>1, <4>2, ReplacedOnly DEF ReplacedBy
      <4> QED
        BY <1>6, <4>3
    <3>3. UNCHANGED pending => (Waiting(w, t, o, i, x)' => Waiting(w, t, o, i, x))
      BY DEF Waiting
    <3> QED
      BY <1>9, <3>1, <3>2, <3>3
  <2>3. CASE /\ m.origin = p /\ ~Latest(q) /\ UNCHANGED pending
             /\ fifo' = [fifo EXCEPT ![p] = Append(@, f)]
    <3>1. Waiting(w, t, o, i, x)' => Waiting(w, t, o, i, x)
      BY <2>3 DEF Waiting
    <3>2. AtWorker(w, t, o, i, x)' => AtWorker(w, t, o, i, x) \/ <<q, p>> = <<t, o>>
      <4>1. f \in OwnFrame /\ Shape /\ UNCHANGED latest
        BY <1>1, <1>2, <1>5, <2>3
      <4>2. fifo' = [fifo EXCEPT ![p] = Append(@, f)]
        BY <2>3
      <4>3. \/ AtWorker(w, t, o, i, x)' => AtWorker(w, t, o, i, x)
            \/ Key(f) = <<t, o>>
        BY <4>1, <4>2, AppendedLast DEF AppendedTo
      <4> QED
        BY <1>6, <4>3
    <3>3. UNCHANGED fifo => (AtWorker(w, t, o, i, x)' => AtWorker(w, t, o, i, x))
      BY <1>2 DEF AtWorker
    <3> QED
      BY <1>9, <3>1, <3>2, <3>3
  <2> QED
    BY <1>4, <2>1, <2>2, <2>3
<1> HIDE DEF f, m
<1>10. CASE <<o, t>> # <<p, q>>
  <2>1. \A j, y : Untold(t, o, j, y)' <=> Untold(t, o, j, y)
    BY <1>1, <1>10, FirstUntold
  <2>2. ASSUME NEW b \in 0..8, NEW j \in Nat, NEW y \in Nat, OnWay(n, t, o, b, j, y)'
        PROVE  OnWay(n, t, o, b, IF b = 0 THEN j + 0 ELSE j, y)
    <3>1. (IF b = 0 THEN j + 0 ELSE j) = j
      OBVIOUS
    <3> QED
      BY <1>2, <1>7, <1>8, <1>9, <1>10, <2>1, <2>2, <3>1 DEF OnWay, ViaLeader
  <2> QED
    BY <2>2, WayShortened
<1>11. CASE <<o, t>> = <<p, q>>
  <2>1. o = p /\ t = q
    BY <1>11
  <2>2. \A j, y \in Nat : Untold(t, o, j, y)' => Untold(t, o, j + 1, y) /\ j >= 1
    BY <1>1, <2>1, FirstUntold
  <2>3. CASE UNCHANGED <<pending, fifo>>
    <3>1. ASSUME NEW b \in 0..8, NEW j \in Nat, NEW y \in Nat, OnWay(n, t, o, b, j, y)'
          PROVE  OnWay(n, t, o, b, IF b = 7 THEN j + 1 ELSE j, y)
      <4>1. CASE b = 7
        BY <2>2, <3>1, <4>1 DEF OnWay
      <4>2. CASE b # 7
        BY <1>2, <1>7, <1>8, <1>9, <2>3, <3>1, <4>2 DEF OnWay, ViaLeader
      <4> QED
        BY <4>1, <4>2
    <3> QED
      BY <3>1, WayShortened
  <2>4. m.origin = p => OnWay(n, t, o, 7, 1, f.number)
    BY <1>1, <1>6, <2>1, FirstUntold DEF OnWay, m
  <2>5. ViaLeader(n, o) => o # "leader"
    BY RolesAssumption DEF ViaLeader
  <2>6. CASE /\ m.origin = p /\ Latest(q) /\ UNCHANGED fifo
             /\ pending' = [pending EXCEPT ![p] = ReplaceLatest(@, f)]
    <3>1. \A w \in Nodes, j \in Nat : \A y : AtWorker(w, t, o, j, y)' => AtWorker(w, t, o, j, y)
      BY <1>2, <2>6 DEF AtWorker
    <3>2. \A w \in Nodes : \A j, y : Waiting(w, t, o, j, y)' =>
              \/ Waiting(w, t, o, j, y) /\ w # o
              \/ w = o /\ j = 0 /\ y = f.number
      <4>1. f \in OwnFrame /\ Shape /\ Key(f) = <<t, o>>
        BY <1>1, <1>5, <1>6, <2>1, <2>6
      <4>2. pending' = [pending EXCEPT ![o] = ReplaceLatest(@, f)]
        BY <2>1, <2>6
      <4>3. ReplacedBy(o, f)
        BY <4>1, <4>2, ReplacedOnly
      <4> QED
        BY <4>1, <4>3 DEF ReplacedBy
    <3>3. ASSUME NEW b \in 0..8, NEW j \in Nat, NEW y \in Nat, OnWay(n, t, o, b, j, y)'
          PROVE  \/ \E i \in Nat : /\ i = (IF b = 7 THEN j + 1 ELSE j)
                                   /\ OnWay(n, t, o, b, i, y)
                                   /\ Before(b, j, 6, 0) \/ Before(7, 1, b, i)
                 \/ 7 \in 0..8 /\ b = 6 /\ j = 0 /\ OnWay(n, t, o, 7, 1, y)
      <4>1. CASE b < 6
        <5>1. OnWay(n, t, o, b, j, y)
          BY <1>2, <1>7, <1>8, <2>5, <3>1, <3>2, <3>3, <4>1 DEF OnWay
        <5>2. Before(b, j, 6, 0)
          BY <4>1 DEF Before
        <5> QED
          BY <4>1, <5>1, <5>2
      <4>2. CASE b = 6
        BY <2>4, <2>6, <3>2, <3>3, <4>2 DEF OnWay
      <4>3. CASE b = 7
        <5>1. OnWay(n, t, o, b, j + 1, y) /\ j >= 1
          BY <2>2, <3>3, <4>3 DEF OnWay
        <5>2. Before(7, 1, b, j + 1) /\ j + 1 \in Nat
          BY <4>3, <5>1 DEF Before
        <5> QED
          BY <4>3, <5>1, <5>2
      <4>4. CASE b = 8
        <5>1. OnWay(n, t, o, b, j, y)
          BY <1>2, <3>3, <4>4 DEF OnWay
        <5>2. Before(7, 1, b, j)
          BY <4>4 DEF Before
        <5> QED
          BY <4>4, <5>1, <5>2
      <4> QED
        BY <4>1, <4>2, <4>3, <4>4
    <3>4. Carries(n, t, o, 7, 1, 6, 0, 7, 1)
      BY <3>3 DEF Carries
    <3>5. 7 \in 0..7 /\ 1 \in Nat /\ 6 \in Nat /\ 0 \in Nat /\ 7 \in Nat /\ 6 < 7 /\ 7 # 8
      OBVIOUS
    <3> QED
      BY <3>4, <3>5, WayKept
  <2>7. CASE /\ m.origin = p /\ ~Latest(q) /\ UNCHANGED pending
             /\ fifo' = [fifo EXCEPT ![p] = Append(@, f)]
    <3> DEFINE e == Len(fifo[o]) + 1
    <3>1. /\ Len(fifo[o]) \in Nat
          /\ \A w \in Nodes, j \in Nat : \A y : AtWorker(w, t, o, j, y)' =>
              \/ AtWorker(w, t, o, j, y) /\ (w = o => j <= Len(fifo[o]))
              \/ w = o /\ j = Len(fifo[o]) + 1 /\ y = f.number
      <4>1. f \in OwnFrame /\ Shape /\ Key(f) = <<t, o>> /\ UNCHANGED latest
        BY <1>1, <1>2, <1>5, <1>6, <2>1, <2>7
      <4>2. fifo' = [fifo EXCEPT ![o] = Append(@, f)]
        BY <2>1, <2>7
      <4>3. AppendedTo(o, f)
        BY <4>1, <4>2, AppendedLast
      <4>4. Len(fifo[o]) \in Nat
        BY <4>1 DEF Shape
      <4> QED
        BY <4>1, <4>3, <4>4 DEF AppendedTo
    <3>2. \A w \in Nodes : \A j, y : ~Waiting(w, t, o, j, y)'
      BY <2>1, <2>7 DEF Waiting, Routed, Key
    <3>3. e \in Nat
      BY <3>1
    <3>4. ASSUME NEW b \in 0..8, NEW j \in Nat, NEW y \in Nat, OnWay(n, t, o, b, j, y)'
          PROVE  \/ \E i \in Nat : /\ i = (IF b = 7 THEN j + 1 ELSE j)
                                   /\ OnWay(n, t, o, b, i, y)
                                   /\ Before(b, j, 5, e) \/ Before(7, 1, b, i)
                 \/ 7 \in 0..8 /\ b = 5 /\ j = e /\ OnWay(n, t, o, 7, 1, y)
      <4>1. CASE b < 5
        <5>1. OnWay(n, t, o, b, j, y)
          BY <1>2, <1>7, <1>8, <2>5, <3>1, <3>2, <3>4, <4>1 DEF OnWay
        <5>2. Before(b, j, 5, e)
          BY <4>1 DEF Before
        <5> QED
          BY <4>1, <5>1, <5>2
      <4>2. CASE b = 5
        <5>1. AtWorker(o, t, o, j, y)'
          BY <3>4, <4>2 DEF OnWay
        <5>2. CASE AtWorker(o, t, o, j, y) /\ j <= Len(fifo[o])
          <6>1. Before(b, j, 5, e) /\ OnWay(n, t, o, b, j, y)
            BY <3>1, <4>2, <5>2 DEF Before, OnWay
          <6> QED
            BY <4>2, <6>1
        <5>3. CASE j = Len(fifo[o]) + 1 /\ y = f.number
          BY <2>4, <2>7, <4>2, <5>3
        <5> QED
          BY <3>1, <5>1, <5>2, <5>3
      <4>3. CASE b = 6
        BY <3>2, <3>4, <4>3 DEF OnWay
      <4>4. CASE b = 7
        <5>1. OnWay(n, t, o, b, j + 1, y) /\ j >= 1
          BY <2>2, <3>4, <4>4 DEF OnWay
        <5>2. Before(7, 1, b, j + 1) /\ j + 1 \in Nat
          BY <4>4, <5>1 DEF Before
        <5> QED
          BY <4>4, <5>1, <5>2
      <4>5. CASE b = 8
        <5>1. OnWay(n, t, o, b, j, y)
          BY <1>2, <3>4, <4>5 DEF OnWay
        <5>2. Before(7, 1, b, j)
          BY <4>5 DEF Before
        <5> QED
          BY <4>5, <5>1, <5>2
      <4> QED
        BY <4>1, <4>2, <4>3, <4>4, <4>5
    <3>5. Carries(n, t, o, 7, 1, 5, e, 7, 1)
      BY <3>4 DEF Carries
    <3>6. 7 \in 0..7 /\ 1 \in Nat /\ 5 \in Nat /\ 7 \in Nat /\ 5 < 7 /\ 7 # 8
      OBVIOUS
    <3> HIDE DEF e
    <3> QED
      BY <3>3, <3>5, <3>6, WayKept
  <2> QED
    BY <1>4, <2>3, <2>6, <2>7
<1> QED
  BY <1>10, <1>11

(* What a flush of p does to the frames of a stream: they leave the slot, and if the line is  *)
(* there the newest one is all the worker has of the stream.                          *)
FlushedFrame(p, t, o, x) ==
    /\ AtWorker(p, t, o, 0, x)' \/ ~connected[p]
    /\ Waiting(p, t, o, 0, x)
    /\ \A i \in Nat : \A y : /\ ~Waiting(p, t, o, i, y)'
                             /\ AtWorker(p, t, o, i, y)' =>
                                   \/ connected[p] /\ i = 0 /\ y = x
                                   \/ ~connected[p] /\ AtWorker(p, t, o, i, y)

FlushedNone(p, t, o) ==
    \A i, y : /\ Waiting(p, t, o, i, y)' => Waiting(p, t, o, i, y)
              /\ AtWorker(p, t, o, i, y)' => AtWorker(p, t, o, i, y)

LEMMA FlushMoves ==
    ASSUME Shape, Routed, NEW p \in Nodes, Flush(p), NEW t, NEW o
    PROVE  /\ FlushedNone(p, t, o) \/ \E x : FlushedFrame(p, t, o, x)
           /\ \A w \in Nodes \ {p} : FlushedNone(w, t, o)
<1>1. PICK ready \in SUBSET pending[p] \ {{}} :
          LET own == {f \in ready : f.sequence = Unsent}
              sent == {IF f \in own THEN [f EXCEPT !.sequence = next_sequence[p][f.topic]]
                       ELSE f : f \in ready} IN
          /\ pending' = [pending EXCEPT ![p] = @ \ ready]
          /\ \/ /\ connected[p]
                /\ latest' = [latest EXCEPT ![p] =
                                 {g \in @ : \A f \in ready : Key(g) # Key(f)} \cup sent]
                /\ \/ own = {} /\ UNCHANGED next_sequence
                   \/ \E f \in own : NumberTaken(p, f.topic)
             \/ ~connected[p] /\ UNCHANGED <<latest, next_sequence>>
          /\ UNCHANGED <<ros, fifo, connected, rx, published, drops>>
  BY DEF Flush, TakenOut
<1> DEFINE own == {f \in ready : f.sequence = Unsent}
           numbered(f) == IF f \in own
                          THEN [f EXCEPT !.sequence = next_sequence[p][f.topic]] ELSE f
           sent == {numbered(f) : f \in ready}
<1>2. \A f \in ready : Key(numbered(f)) = Key(f) /\ numbered(f).number = f.number
  <2> SUFFICES ASSUME NEW f \in ready
               PROVE  LET g == [f EXCEPT !.sequence = next_sequence[p][f.topic]]
                      IN  Key(g) = Key(f) /\ g.number = f.number
    OBVIOUS
  <2>1. f \in OwnFrame
    BY DEF Shape
  <2> QED
    BY <2>1 DEF OwnFrame, Key
<1>3. \A g \in sent : \E f \in ready : Key(g) = Key(f) /\ g.number = f.number
  <2> HIDE DEF numbered
  <2> QED
    BY <1>2
<1>4. \A f \in ready : \E g \in sent : Key(g) = Key(f) /\ g.number = f.number
  <2> HIDE DEF numbered
  <2> QED
    BY <1>2
<1>5. /\ pending' = [pending EXCEPT ![p] = @ \ ready]
      /\ \/ ~connected[p] /\ UNCHANGED latest
         \/ /\ connected[p]
            /\ latest' = [latest EXCEPT ![p] =
                             {g \in @ : \A f \in ready : Key(g) # Key(f)} \cup sent]
      /\ UNCHANGED fifo
  BY <1>1
<1> HIDE DEF sent
<1>6. /\ pending'[p] = pending[p] \ ready
      /\ \/ ~connected[p] /\ UNCHANGED latest
         \/ /\ connected[p]
            /\ latest'[p] = {g \in latest[p] : \A f \in ready : Key(g) # Key(f)} \cup sent
      /\ \A w \in Nodes : w # p => pending'[w] = pending[w] /\ latest'[w] = latest[w]
  BY <1>5 DEF Shape
<1>7. \A w \in Nodes \ {p} : FlushedNone(w, t, o)
  BY <1>5, <1>6 DEF FlushedNone, Waiting, AtWorker
<1>8. CASE \A f \in ready : Key(f) # <<t, o>>
  <2>1. \A i, y : Waiting(p, t, o, i, y)' => Waiting(p, t, o, i, y)
    BY <1>6 DEF Waiting
  <2>2. \A g \in latest'[p] : Key(g) = <<t, o>> => g \in latest[p]
    BY <1>3, <1>6, <1>8
  <2>3. \A i, y : AtWorker(p, t, o, i, y)' => AtWorker(p, t, o, i, y)
    BY <1>5, <2>2 DEF AtWorker, Key
  <2> QED
    BY <1>7, <2>1, <2>3 DEF FlushedNone
<1>9. ASSUME NEW f \in ready, Key(f) = <<t, o>> PROVE FlushedFrame(p, t, o, f.number)
  <2>1. f \in pending[p] /\ OneEach(pending[p]) /\ Latest(t) /\ f.topic = t
    BY <1>9 DEF Routed, Key
  <2>2. \A i, y : ~Waiting(p, t, o, i, y)'
    BY <1>6, <1>9, <2>1 DEF Waiting, OneEach, Key
  <2>3. \A i \in DOMAIN fifo[p] : Key(fifo[p][i]) # <<t, o>>
    BY <2>1 DEF Routed, Key
  <2>4. Waiting(p, t, o, 0, f.number)
    BY <1>9, <2>1 DEF Waiting
  <2>5. \A h \in ready : Key(h) = <<t, o>> => h = f
    BY <1>9, <2>1 DEF OneEach
  <2>6. \A i, y : AtWorker(p, t, o, i, y) <=>
                     i = 0 /\ \E g \in latest[p] : Key(g) = <<t, o>> /\ y = g.number
    BY <2>3 DEF AtWorker
  <2>7. \A i, y : AtWorker(p, t, o, i, y)' <=>
                     i = 0 /\ \E g \in latest'[p] : Key(g) = <<t, o>> /\ y = g.number
    BY <1>5, <2>3 DEF AtWorker, Key
  <2>8. CASE ~connected[p]
    <3>1. \A i, y : AtWorker(p, t, o, i, y)' => AtWorker(p, t, o, i, y)
      BY <1>6, <2>6, <2>7, <2>8
    <3> QED
      BY <2>2, <2>4, <2>8, <3>1 DEF FlushedFrame
  <2>9. CASE connected[p]
    <3>1. latest'[p] = {g \in latest[p] : \A h \in ready : Key(g) # Key(h)} \cup sent
      BY <1>6, <2>9
    <3>2. AtWorker(p, t, o, 0, f.number)'
      BY <1>4, <1>9, <2>7, <3>1
    <3>3. \A g \in latest'[p] : Key(g) = <<t, o>> => g.number = f.number
      BY <1>3, <1>9, <2>5, <3>1
    <3>4. \A i, y : AtWorker(p, t, o, i, y)' => i = 0 /\ y = f.number
      BY <2>7, <3>3
    <3> QED
      BY <2>2, <2>4, <2>9, <3>2, <3>4 DEF FlushedFrame
  <2> QED
    BY <2>8, <2>9
<1> QED
  BY <1>7, <1>8, <1>9

LEMMA FlushWay ==
    ASSUME IInv, Routed, NEW p \in Nodes, Flush(p),
           NEW n \in Nodes, NEW t \in Topics, NEW o \in Nodes, WayInOrder(n, t, o)
    PROVE  WayInOrder(n, t, o)'
<1>1. UNCHANGED <<made, subscribed, rx, published>>
  BY DEF Flush, ros
<1>2. \A i, x : /\ AtReceiver(n, t, o, i, x)' <=> AtReceiver(n, t, o, i, x)
                /\ AtLeader(t, o, i, x)' <=> AtLeader(t, o, i, x)
                /\ Untold(t, o, i, x)' <=> Untold(t, o, i, x)
  BY <1>1 DEF AtReceiver, AtLeader, Untold
<1>3. "leader" \in Nodes /\ (ViaLeader(n, o) => o # "leader")
  BY RolesAssumption DEF Nodes, ViaLeader
<1>4. \A w \in Nodes \ {p} : FlushedNone(w, t, o)
  BY FlushMoves DEF IInv
<1>5. ASSUME FlushedNone(p, t, o) \/ (p # o /\ ~(p = "leader" /\ ViaLeader(n, o)))
      PROVE  WayInOrder(n, t, o)'
  <2>1. ASSUME NEW b \in 0..8, NEW j \in Nat, NEW y \in Nat, OnWay(n, t, o, b, j, y)'
        PROVE  OnWay(n, t, o, b, IF b = 0 THEN j + 0 ELSE j, y)
    <3>1. (IF b = 0 THEN j + 0 ELSE j) = j
      OBVIOUS
    <3>2. FlushedNone(o, t, o) /\ (ViaLeader(n, o) => FlushedNone("leader", t, o))
      BY <1>3, <1>4, <1>5
    <3> QED
      BY <1>1, <1>2, <2>1, <3>1, <3>2 DEF OnWay, FlushedNone, ViaLeader
  <2> QED
    BY <2>1, WayShortened
<1>6. ASSUME NEW z, FlushedFrame(p, t, o, z), p = o \/ (p = "leader" /\ ViaLeader(n, o))
      PROVE  WayInOrder(n, t, o)'
  <2> DEFINE a == IF p = o THEN 5 ELSE 2
  <2>1. OnWay(n, t, o, a + 1, 0, z)
    BY <1>6 DEF FlushedFrame, OnWay
  <2>2. \A b \in 0..8, j, y \in Nat : OnWay(n, t, o, b, j, y)' /\ b # a =>
            OnWay(n, t, o, b, j, y) /\ b # a + 1
    <3> SUFFICES ASSUME NEW b \in 0..8, NEW j \in Nat, NEW y \in Nat,
                        OnWay(n, t, o, b, j, y)', b # a
                 PROVE  OnWay(n, t, o, b, j, y) /\ b # a + 1
      OBVIOUS
    <3>1. \A i \in Nat : \A x : ~Waiting(p, t, o, i, x)'
      BY <1>6 DEF FlushedFrame
    <3>2. CASE p = o
      <4>1. ViaLeader(n, o) => FlushedNone("leader", t, o)
        BY <1>3, <1>4, <3>2
      <4> QED
        BY <1>1, <1>2, <3>1, <3>2, <4>1 DEF OnWay, FlushedNone, ViaLeader
    <3>3. CASE p # o
      <4>1. FlushedNone(o, t, o)
        BY <1>4, <3>3
      <4> QED
        BY <1>1, <1>2, <1>6, <3>1, <3>3, <4>1 DEF OnWay, FlushedNone, ViaLeader
    <3> QED
      BY <3>2, <3>3
  <2>3. \A j, y \in Nat : OnWay(n, t, o, a, j, y)' =>
            \/ connected[p] /\ j = 0 /\ y = z
            \/ ~connected[p] /\ OnWay(n, t, o, a, j, y)
    <3> SUFFICES ASSUME NEW j \in Nat, NEW y \in Nat, OnWay(n, t, o, a, j, y)'
                 PROVE  \/ connected[p] /\ j = 0 /\ y = z
                        \/ ~connected[p] /\ OnWay(n, t, o, a, j, y)
      OBVIOUS
    <3>1. AtWorker(p, t, o, j, y)'
      BY <1>6 DEF OnWay
    <3>2. (connected[p] /\ j = 0 /\ y = z) \/ (~connected[p] /\ AtWorker(p, t, o, j, y))
      BY <1>6, <3>1 DEF FlushedFrame
    <3>3. AtWorker(p, t, o, j, y) => OnWay(n, t, o, a, j, y)
      BY <1>6 DEF OnWay
    <3> QED
      BY <3>2, <3>3
  <2>4. a \in 0..7 /\ a + 1 \in 0..7 /\ a < a + 1 /\ a + 1 # 8
    OBVIOUS
  <2> HIDE DEF a
  <2>5. CASE connected[p]
    <3>1. ASSUME NEW b \in 0..8, NEW j \in Nat, NEW y \in Nat, OnWay(n, t, o, b, j, y)'
          PROVE  \/ \E i \in Nat : /\ i = (IF b = 0 THEN j + 0 ELSE j)
                                   /\ OnWay(n, t, o, b, i, y)
                                   /\ Before(b, j, a, 0) \/ Before(a + 1, 0, b, i)
                 \/ a + 1 \in 0..8 /\ b = a /\ j = 0 /\ OnWay(n, t, o, a + 1, 0, y)
      <4>1. CASE b = a
        BY <2>1, <2>3, <2>4, <2>5, <3>1, <4>1
      <4>2. CASE b # a
        <5>1. OnWay(n, t, o, b, j, y) /\ b # a + 1
          BY <2>2, <3>1, <4>2
        <5>2. Before(b, j, a, 0) \/ Before(a + 1, 0, b, j)
          BY <2>4, <4>2, <5>1 DEF Before
        <5>3. (IF b = 0 THEN j + 0 ELSE j) = j
          OBVIOUS
        <5> QED
          BY <5>1, <5>2, <5>3
      <4> QED
        BY <4>1, <4>2
    <3>2. Carries(n, t, o, 0, 0, a, 0, a + 1, 0)
      BY <3>1 DEF Carries
    <3>3. a \in Nat /\ a + 1 \in Nat /\ 0 \in 0..7 /\ 0 \in Nat
      BY <2>4
    <3> QED
      BY <2>4, <3>2, <3>3, WayKept
  <2>6. CASE ~connected[p]
    <3>1. ASSUME NEW b \in 0..8, NEW j \in Nat, NEW y \in Nat, OnWay(n, t, o, b, j, y)'
          PROVE  OnWay(n, t, o, b, IF b = 0 THEN j + 0 ELSE j, y)
      <4>1. (IF b = 0 THEN j + 0 ELSE j) = j
        OBVIOUS
      <4>2. b # a => OnWay(n, t, o, b, j, y)
        BY <2>2, <3>1
      <4>3. b = a => OnWay(n, t, o, b, j, y)
        BY <2>3, <2>6, <3>1
      <4> QED
        BY <4>1, <4>2, <4>3
    <3> QED
      BY <3>1, WayShortened
  <2> QED
    BY <2>5, <2>6
<1>7. FlushedNone(p, t, o) \/ \E z : FlushedFrame(p, t, o, z)
  BY FlushMoves DEF IInv
<1> QED
  BY <1>5, <1>6, <1>7

LEMMA LineWay ==
    ASSUME IInv, NEW p \in Nodes, Disconnect(p) \/ Reconnect(p),
           NEW n \in Nodes, NEW t \in Topics, NEW o \in Nodes, WayInOrder(n, t, o)
    PROVE  WayInOrder(n, t, o)'
<1>1. UNCHANGED <<made, subscribed, rx, published, pending>>
  BY DEF Disconnect, Reconnect, ros
<1>2. \A i, x : /\ AtReceiver(n, t, o, i, x)' <=> AtReceiver(n, t, o, i, x)
                /\ AtLeader(t, o, i, x)' <=> AtLeader(t, o, i, x)
                /\ Untold(t, o, i, x)' <=> Untold(t, o, i, x)
                /\ \A w : Waiting(w, t, o, i, x)' <=> Waiting(w, t, o, i, x)
  BY <1>1 DEF AtReceiver, AtLeader, Untold, Waiting
<1>3. \A w \in Nodes : /\ fifo'[w] = fifo[w] \/ fifo'[w] = <<>>
                       /\ latest'[w] = latest[w] \/ latest'[w] = {}
  BY DEF Disconnect, Reconnect, IInv, Shape
<1>4. \A w \in Nodes : \A i, x : AtWorker(w, t, o, i, x)' => AtWorker(w, t, o, i, x)
  BY <1>3 DEF AtWorker
<1>5. "leader" \in Nodes
  BY DEF Nodes
<1>6. ASSUME NEW b \in 0..8, NEW j \in Nat, NEW y \in Nat, OnWay(n, t, o, b, j, y)'
      PROVE  OnWay(n, t, o, b, IF b = 0 THEN j + 0 ELSE j, y)
  <2>1. (IF b = 0 THEN j + 0 ELSE j) = j
    OBVIOUS
  <2> QED
    BY <1>1, <1>2, <1>4, <1>5, <1>6, <2>1 DEF OnWay, ViaLeader
<1> QED
  BY <1>6, WayShortened

(* A frame on the air is the last one in the queue of those that hear it.             *)
AddedTo(h, f, t, o, i, x) ==
    i = Len(rx[h]) + 1 /\ Key(f) = <<t, o>> /\ x = f.number

LEMMA AirLast ==
    ASSUME Shape, NEW p \in Nodes, NEW f \in OwnFrame, OnAir(p, f),
           NEW n \in Nodes, NEW t, NEW o
    PROVE  /\ \A i \in Nat : \A x : AtReceiver(n, t, o, i, x)' =>
                 \/ AtReceiver(n, t, o, i, x) /\ i <= Len(rx[n])
                 \/ n # p /\ ForMe(n, f) /\ AddedTo(n, f, t, o, i, x)
           /\ \A i \in Nat : \A x : AtLeader(t, o, i, x)' =>
                 \/ AtLeader(t, o, i, x) /\ i <= Len(rx["leader"])
                 \/ "leader" # p /\ AddedTo("leader", f, t, o, i, x)
<1>1. PICK hearers \in SUBSET (Nodes \ {p}) :
          rx' = [h \in Nodes |-> IF h \in hearers THEN Append(rx[h], f) ELSE rx[h]]
  BY DEF OnAir
<1>2. ASSUME NEW h \in Nodes, NEW i \in DOMAIN rx'[h]
      PROVE  /\ i \in Nat
             /\ \/ i \in DOMAIN rx[h] /\ rx'[h][i] = rx[h][i] /\ i <= Len(rx[h])
                \/ h # p /\ i = Len(rx[h]) + 1 /\ rx'[h][i] = f
  <2> DEFINE s == rx[h]
             longer == Append(s, f)
  <2>1. s \in Seq(OwnFrame) /\ Len(s) \in Nat /\ DOMAIN s = 1..Len(s)
    BY DEF Shape
  <2>2. /\ DOMAIN longer = 1..Len(s) + 1 /\ longer[Len(s) + 1] = f
        /\ \A k \in 1..Len(s) : longer[k] = s[k]
    BY <2>1
  <2> HIDE DEF longer
  <2>3. CASE h \in hearers
    <3>1. rx'[h] = longer /\ h # p
      BY <1>1, <2>3 DEF longer
    <3>2. i = Len(s) + 1 \/ i \in 1..Len(s)
      BY <1>2, <2>1, <2>2, <3>1
    <3> QED
      BY <2>1, <2>2, <3>1, <3>2
  <2>4. CASE h \notin hearers
    BY <1>1, <1>2, <2>1, <2>4
  <2> QED
    BY <2>3, <2>4
<1>3. "leader" \in Nodes
  BY DEF Nodes
<1>4. ASSUME NEW i \in Nat, NEW x, AtReceiver(n, t, o, i, x)'
      PROVE  \/ AtReceiver(n, t, o, i, x) /\ i <= Len(rx[n])
             \/ n # p /\ ForMe(n, f) /\ AddedTo(n, f, t, o, i, x)
  <2>1. /\ i \in DOMAIN rx'[n] /\ Key(rx'[n][i]) = <<t, o>> /\ ForMe(n, rx'[n][i])
        /\ x = rx'[n][i].number
    BY <1>4 DEF AtReceiver, Key, ForMe, Accepts
  <2> QED
    BY <1>2, <2>1 DEF AtReceiver, AddedTo
<1>5. ASSUME NEW i \in Nat, NEW x, AtLeader(t, o, i, x)'
      PROVE  \/ AtLeader(t, o, i, x) /\ i <= Len(rx["leader"])
             \/ "leader" # p /\ AddedTo("leader", f, t, o, i, x)
  <2>1. /\ i \in DOMAIN rx'["leader"] /\ Key(rx'["leader"][i]) = <<t, o>>
        /\ x = rx'["leader"][i].number
    BY <1>5 DEF AtLeader, Key
  <2> QED
    BY <1>2, <1>3, <2>1 DEF AtLeader, AddedTo
<1> QED
  BY <1>4, <1>5

(* A worker that writes a frame takes the first of its stream.                       *)
Written(p, f, t, o, c, k) ==
    /\ \A i, x \in Nat : AtWorker(p, t, o, i, x)' =>
           AtWorker(p, t, o, i + c, x) /\ (Key(f) = <<t, o>> => i + c > k)
    /\ Key(f) = <<t, o>> => AtWorker(p, t, o, k, f.number)
    /\ \A w \in Nodes \ {p} : \A i, x : AtWorker(w, t, o, i, x)' <=> AtWorker(w, t, o, i, x)

LEMMA WriteTakes ==
    ASSUME Shape, Routed, NEW p \in Nodes, Write(p), NEW t, NEW o
    PROVE  \E f \in OwnFrame, c \in {0, 1}, k \in {0, 1} :
               OnAir(p, f) /\ SentBy(p, f) /\ Written(p, f, t, o, c, k)
<1>1. CASE fifo[p] # <<>>
  <2> DEFINE s == fifo[p]
             f == Head(s)
             rest == Tail(s)
  <2>1. s \in Seq(OwnFrame) /\ OnAir(p, f) /\ fifo' = [fifo EXCEPT ![p] = rest]
        /\ UNCHANGED latest
    BY <1>1 DEF Write, Shape
  <2>2. /\ f \in OwnFrame /\ f = s[1] /\ 1 \in DOMAIN s
        /\ \A i \in DOMAIN rest : i \in Nat /\ i >= 1 /\ i + 1 \in DOMAIN s
                                  /\ rest[i] = s[i + 1]
    BY <1>1, <2>1
  <2>3. SentBy(p, f) /\ ~Latest(f.topic)
    BY <2>2 DEF Routed
  <2>4. DOMAIN s \subseteq Nat \ {0}
    BY <2>1
  <2> HIDE DEF rest, f
  <2>5. fifo'[p] = rest /\ \A w \in Nodes : w # p => fifo'[w] = fifo[w]
    BY <2>1 DEF Shape
  <2>6. \A w \in Nodes \ {p} : \A i, x : AtWorker(w, t, o, i, x)' <=> AtWorker(w, t, o, i, x)
    BY <2>1, <2>5 DEF AtWorker
  <2>7. Key(f) = <<t, o>> => AtWorker(p, t, o, 1, f.number)
    BY <2>2 DEF AtWorker
  <2>8. CASE Latest(t)
    <3>1. \A i \in DOMAIN s : s[i].topic # t
      BY <2>8 DEF Routed
    <3>2. \A i \in DOMAIN rest : rest[i].topic # t
      BY <2>2, <3>1
    <3>3. Key(f) # <<t, o>>
      BY <2>3, <2>8 DEF Key
    <3>4. ASSUME NEW i \in Nat, NEW x \in Nat, AtWorker(p, t, o, i, x)'
          PROVE  AtWorker(p, t, o, i + 0, x)
      <4>1. i = 0 /\ \E g \in latest[p] : Key(g) = <<t, o>> /\ x = g.number
        BY <2>1, <2>5, <3>2, <3>4 DEF AtWorker, Key
      <4> QED
        BY <4>1 DEF AtWorker
    <3>5. Written(p, f, t, o, 0, 1)
      BY <2>6, <3>3, <3>4 DEF Written
    <3> QED
      BY <2>1, <2>2, <2>3, <3>5
  <2>9. CASE ~Latest(t)
    <3>1. \A g \in latest[p] : Key(g) # <<t, o>>
      BY <2>9 DEF Routed, Key
    <3>2. ASSUME NEW i \in Nat, NEW x \in Nat, AtWorker(p, t, o, i, x)'
          PROVE  AtWorker(p, t, o, i + 1, x) /\ i + 1 > 1
      <4>1. i \in DOMAIN rest /\ Key(rest[i]) = <<t, o>> /\ x = rest[i].number
        BY <2>1, <2>5, <3>1, <3>2 DEF AtWorker, Key
      <4>2. i >= 1 /\ i + 1 \in DOMAIN s /\ rest[i] = s[i + 1]
        BY <2>2, <4>1
      <4>3. AtWorker(p, t, o, i + 1, x)
        BY <4>1, <4>2 DEF AtWorker
      <4> QED
        BY <4>2, <4>3
    <3>3. Written(p, f, t, o, 1, 1)
      BY <2>6, <2>7, <3>2 DEF Written
    <3> QED
      BY <2>1, <2>2, <2>3, <3>3
  <2> QED
    BY <2>8, <2>9
<1>2. CASE fifo[p] = <<>>
  <2>1. PICK f \in latest[p] : OnAir(p, f) /\ latest' = [latest EXCEPT ![p] = @ \ {f}]
                               /\ UNCHANGED fifo
    BY <1>2 DEF Write
  <2>2. f \in OwnFrame /\ SentBy(p, f) /\ OneEach(latest[p])
    BY <2>1 DEF Shape, Routed
  <2>3. latest'[p] = latest[p] \ {f} /\ \A w \in Nodes : w # p => latest'[w] = latest[w]
    BY <2>1 DEF Shape
  <2>4. \A i, x : AtWorker(p, t, o, i, x) <=>
                     i = 0 /\ \E g \in latest[p] : Key(g) = <<t, o>> /\ x = g.number
    BY <1>2 DEF AtWorker
  <2>5. \A i, x : AtWorker(p, t, o, i, x)' <=>
                     i = 0 /\ \E g \in latest'[p] : Key(g) = <<t, o>> /\ x = g.number
    BY <1>2, <2>1 DEF AtWorker, Key
  <2>6. \A i, x : AtWorker(p, t, o, i, x)' => AtWorker(p, t, o, i, x) /\ Key(f) # <<t, o>>
    BY <2>2, <2>3, <2>4, <2>5 DEF OneEach
  <2>7. \A i \in Nat : i + 0 = i
    OBVIOUS
  <2>8. Key(f) = <<t, o>> => AtWorker(p, t, o, 0, f.number)
    BY <2>4
  <2>9. \A w \in Nodes \ {p} : \A i, x : AtWorker(w, t, o, i, x)' <=> AtWorker(w, t, o, i, x)
    BY <2>1, <2>3 DEF AtWorker
  <2>10. Written(p, f, t, o, 0, 0)
    BY <2>6, <2>7, <2>8, <2>9 DEF Written
  <2> QED
    BY <2>1, <2>2, <2>10
<1> QED
  BY <1>1, <1>2

(* What a source sends goes to the leader, when the leader is to relay it.               *)
LEMMA SentToLeader ==
    ASSUME NEW n \in Nodes, NEW o \in Nodes, NEW f \in OwnFrame, SentBy(o, f), f.source = o,
           ViaLeader(n, o)
    PROVE  ~ForMe(n, f)
<1>1. o \in Followers /\ n # "leader" /\ o # "leader" /\ RoleOf(o) = "follower"
  BY RolesAssumption DEF ViaLeader, RoleOf
<1>2. Sends(o, f.topic) /\ f.destination = Destination(o, f.topic)
  BY <1>1 DEF SentBy
<1>3. \A l \in Registry : l.sender = "follower" => l.destination = "leader"
  BY DEF Registry, ToLeader, ToStation, ToAll, Link
<1>4. \E l \in Registry : l.topic = f.topic /\ l.sender = RoleOf(o)
  BY <1>2 DEF Sends
<1>5. Destination(o, f.topic) = "leader"
  BY <1>1, <1>3, <1>4 DEF Destination
<1> QED
  BY <1>1, <1>2, <1>5 DEF ForMe

LEMMA WriteWay ==
    ASSUME IInv, Routed, NEW p \in Nodes, Write(p),
           NEW n \in Nodes, NEW t \in Topics, NEW o \in Nodes, WayInOrder(n, t, o)
    PROVE  WayInOrder(n, t, o)'
<1>1. PICK f \in OwnFrame, c \in {0, 1}, k \in {0, 1} :
          OnAir(p, f) /\ SentBy(p, f) /\ Written(p, f, t, o, c, k)
  BY WriteTakes DEF IInv
<1>2. UNCHANGED <<made, subscribed, published, pending>>
  BY DEF Write, ros
<1>3. \A i, x : /\ Untold(t, o, i, x)' <=> Untold(t, o, i, x)
                /\ \A w : Waiting(w, t, o, i, x)' <=> Waiting(w, t, o, i, x)
  BY <1>2 DEF Untold, Waiting
<1>4. "leader" \in Nodes /\ (ViaLeader(n, o) => o # "leader")
  BY RolesAssumption DEF Nodes, ViaLeader
<1>5. /\ \A i \in Nat : \A x : AtReceiver(n, t, o, i, x)' =>
             \/ AtReceiver(n, t, o, i, x) /\ i <= Len(rx[n])
             \/ n # p /\ ForMe(n, f) /\ AddedTo(n, f, t, o, i, x)
      /\ \A i \in Nat : \A x : AtLeader(t, o, i, x)' =>
             \/ AtLeader(t, o, i, x) /\ i <= Len(rx["leader"])
             \/ "leader" # p /\ AddedTo("leader", f, t, o, i, x)
  BY <1>1, AirLast DEF IInv
<1>6. \A i, x \in Nat : AtWorker(p, t, o, i, x)' =>
          AtWorker(p, t, o, i + c, x) /\ (Key(f) = <<t, o>> => i + c > k)
  BY <1>1 DEF Written
<1>7. \A w \in Nodes \ {p} : \A i, x : AtWorker(w, t, o, i, x)' <=> AtWorker(w, t, o, i, x)
  BY <1>1 DEF Written
<1>8. Len(rx[n]) \in Nat /\ Len(rx["leader"]) \in Nat
  BY <1>4 DEF IInv, Shape
<1>9. Key(f) = <<t, o>> => f.source = o
  BY DEF Key
<1> DEFINE u == IF p = o THEN 5 ELSE IF p = "leader" /\ ViaLeader(n, o) THEN 2 ELSE 6
           v == IF u = 6 THEN 0 ELSE c
<1>10. u \in 0..7 /\ v \in Nat
  OBVIOUS
<1>11. ASSUME NEW b \in 0..8, b # 1, b # 4, NEW j \in Nat, NEW y \in Nat,
              OnWay(n, t, o, b, j, y)'
       PROVE  /\ OnWay(n, t, o, b, IF b = u THEN j + v ELSE j, y)
              /\ b = u /\ u # 6 /\ Key(f) = <<t, o>> => j + c > k
  <2>1. CASE b = u /\ u # 6
    <3>1. AtWorker(p, t, o, j, y)'
      BY <1>11, <2>1 DEF OnWay
    <3>2. AtWorker(p, t, o, j + c, y) /\ (Key(f) = <<t, o>> => j + c > k)
      BY <1>6, <3>1
    <3>3. AtWorker(p, t, o, j + c, y) => OnWay(n, t, o, b, j + c, y)
      BY <2>1 DEF OnWay
    <3> QED
      BY <2>1, <3>2, <3>3
  <2>2. CASE ~(b = u /\ u # 6)
    <3>1. (IF b = u THEN j + v ELSE j) = j
      BY <2>2
    <3>2. CASE b = 2
      <4>1. ViaLeader(n, o) /\ AtWorker("leader", t, o, j, y)'
        BY <1>11, <3>2 DEF OnWay, ViaLeader
      <4>2. p # "leader"
        BY <1>4, <2>2, <3>2, <4>1
      <4>3. AtWorker("leader", t, o, j, y)
        BY <1>4, <1>7, <4>1, <4>2
      <4> QED
        BY <2>2, <3>1, <3>2, <4>1, <4>3 DEF OnWay
    <3>3. CASE b = 5
      <4>1. AtWorker(o, t, o, j, y)' /\ p # o
        BY <1>11, <2>2, <3>3 DEF OnWay
      <4>2. AtWorker(o, t, o, j, y)
        BY <1>7, <4>1
      <4> QED
        BY <2>2, <3>1, <3>3, <4>2 DEF OnWay
    <3>4. CASE b # 2 /\ b # 5
      <4>1. OnWay(n, t, o, b, j, y)
        BY <1>2, <1>3, <1>11, <3>4 DEF OnWay, ViaLeader
      <4> QED
        BY <2>2, <3>1, <4>1
    <3> QED
      BY <3>2, <3>3, <3>4
  <2> QED
    BY <2>1, <2>2
<1>12. ASSUME NEW b \in {1, 4}, NEW j \in Nat, NEW y \in Nat, OnWay(n, t, o, b, j, y)',
              ~(b = 1 /\ n # p /\ ForMe(n, f) /\ AddedTo(n, f, t, o, j, y)),
              ~(b = 4 /\ ViaLeader(n, o) /\ "leader" # p /\ AddedTo("leader", f, t, o, j, y))
       PROVE  /\ OnWay(n, t, o, b, IF b = u THEN j + v ELSE j, y)
              /\ b = 1 => j <= Len(rx[n])
              /\ b = 4 => j <= Len(rx["leader"])
  <2>1. (IF b = u THEN j + v ELSE j) = j
    OBVIOUS
  <2>2. CASE b = 1
    <3>1. AtReceiver(n, t, o, j, y)'
      BY <1>12, <2>2 DEF OnWay
    <3>2. AtReceiver(n, t, o, j, y) /\ j <= Len(rx[n])
      BY <1>5, <1>12, <2>2, <3>1
    <3> QED
      BY <2>1, <2>2, <3>2 DEF OnWay
  <2>3. CASE b = 4
    <3>1. AtLeader(t, o, j, y)' /\ ViaLeader(n, o)
      BY <1>12, <2>3 DEF OnWay, ViaLeader
    <3>2. AtLeader(t, o, j, y) /\ j <= Len(rx["leader"])
      BY <1>5, <1>12, <2>3, <3>1
    <3> QED
      BY <2>1, <2>3, <3>1, <3>2 DEF OnWay
  <2> QED
    BY <2>2, <2>3
<1> HIDE DEF u, v
(* The stage d, if any, that the frame enters.                                        *)
<1> DEFINE Enters(d) == \/ d = 1 /\ n # p /\ ForMe(n, f) /\ Key(f) = <<t, o>>
                        \/ /\ d = 4 /\ ViaLeader(n, o) /\ "leader" # p
                           /\ Key(f) = <<t, o>>
<1>13. CASE ~Enters(1) /\ ~Enters(4)
  <2>1. ASSUME NEW b \in 0..8, NEW j \in Nat, NEW y \in Nat, OnWay(n, t, o, b, j, y)'
        PROVE  OnWay(n, t, o, b, IF b = u THEN j + v ELSE j, y)
    <3>1. CASE b # 1 /\ b # 4
      BY <1>11, <2>1, <3>1
    <3>2. CASE b \in {1, 4}
      BY <1>12, <1>13, <2>1, <3>2 DEF AddedTo
    <3> QED
      BY <3>1, <3>2
  <2> QED
    BY <1>10, <2>1, WayShortened
<1>14. ASSUME NEW d \in {1, 4}, Enters(d), ~Enters(5 - d)
       PROVE  WayInOrder(n, t, o)'
  <2> DEFINE e == (IF d = 1 THEN Len(rx[n]) ELSE Len(rx["leader"])) + 1
             s == IF p = o THEN 5 ELSE 2
  <2>1. Key(f) = <<t, o>> /\ f.source = o
    BY <1>9, <1>14
  <2>2. u = s /\ v = c /\ u # 6
    <3>1. p # o => p = "leader" /\ ViaLeader(n, o)
      BY <1>14, <2>1, <1>1 DEF SentBy, ViaLeader
    <3> QED
      BY <3>1 DEF u, v
  <2>3. AtWorker(p, t, o, k, f.number)
    BY <1>1, <2>1 DEF Written
  <2>4. OnWay(n, t, o, s, k, f.number)
    <3>1. p # o => p = "leader" /\ ViaLeader(n, o)
      BY <1>14, <2>1, <1>1 DEF SentBy, ViaLeader
    <3> QED
      BY <2>3, <3>1 DEF OnWay
  <2>5. d < s /\ (d = 4 => p = o)
    <3>1. d = 4 => p = o
      BY <1>1, <1>14, <2>1 DEF SentBy
    <3> QED
      BY <3>1
  <2>6. \A b \in 0..8 : \A j, y : OnWay(n, t, o, b, j, y)' => b <= d \/ b >= s
    <3> SUFFICES ASSUME NEW b \in 0..8, NEW j, NEW y, OnWay(n, t, o, b, j, y)', b > d, b < s
                 PROVE  FALSE
      BY <2>5
    <3>1. b \in {2, 3, 4} /\ d = 1 /\ p = o
      BY <2>5
    <3>2. ViaLeader(n, o)
      BY <3>1 DEF OnWay, ViaLeader
    <3>3. SentBy(o, f) /\ ForMe(n, f)
      BY <1>1, <1>14, <3>1
    <3> QED
      BY <2>1, <3>2, <3>3, SentToLeader
  <2>7. e \in Nat /\ s \in 0..8 /\ s \in Nat /\ s # 8 /\ d \in Nat /\ k \in Nat
    BY <1>8
  <2> HIDE DEF e, s
  <2>8. ASSUME NEW b \in 0..8, NEW j \in Nat, NEW y \in Nat, OnWay(n, t, o, b, j, y)'
        PROVE  \/ \E i \in Nat : /\ i = (IF b = u THEN j + v ELSE j)
                                 /\ OnWay(n, t, o, b, i, y)
                                 /\ Before(b, j, d, e) \/ Before(s, k, b, i)
               \/ s \in 0..8 /\ b = d /\ j = e /\ OnWay(n, t, o, s, k, y)
    <3> DEFINE i == IF b = u THEN j + v ELSE j
    <3>1. i \in Nat
      BY <1>10
    <3>2. CASE b # 1 /\ b # 4
      <4>1. OnWay(n, t, o, b, i, y) /\ (b = s => j + c > k)
        BY <1>11, <2>1, <2>2, <2>8, <3>2
      <4>2. b < d \/ b > s \/ b = s
        BY <2>6, <2>7, <2>8, <3>2
      <4>3. b = s => i = j + c
        BY <2>2
      <4>4. Before(b, j, d, e) \/ Before(s, k, b, i)
        BY <2>7, <4>1, <4>2, <4>3 DEF Before
      <4> QED
        BY <3>1, <4>1, <4>4
    <3>3. CASE b \in {1, 4} /\ b # d
      <4>1. OnWay(n, t, o, b, i, y)
        BY <1>12, <1>14, <2>8, <3>3 DEF AddedTo
      <4>2. b # s
        BY <3>3 DEF s
      <4>3. Before(b, j, d, e) \/ Before(s, k, b, i)
        BY <2>6, <2>7, <2>8, <3>3, <4>2 DEF Before
      <4> QED
        BY <3>1, <4>1, <4>3
    <3>4. CASE b = d
      <4>1. CASE \/ b = 1 /\ AddedTo(n, f, t, o, j, y)
                 \/ b = 4 /\ AddedTo("leader", f, t, o, j, y)
        <5>1. j = e /\ y = f.number
          BY <3>4, <4>1 DEF AddedTo, e
        <5> QED
          BY <2>4, <2>7, <3>4, <5>1
      <4>2. CASE ~(\/ b = 1 /\ AddedTo(n, f, t, o, j, y)
                   \/ b = 4 /\ AddedTo("leader", f, t, o, j, y))
        <5>1. /\ OnWay(n, t, o, b, i, y)
              /\ b = 1 => j <= Len(rx[n])
              /\ b = 4 => j <= Len(rx["leader"])
          BY <1>12, <2>8, <3>4, <4>2
        <5>2. j < e
          BY <1>8, <3>4, <5>1 DEF e
        <5>3. Before(b, j, d, e)
          BY <3>4, <5>2 DEF Before
        <5> QED
          BY <3>1, <5>1, <5>3
      <4> QED
        BY <4>1, <4>2
    <3> QED
      BY <3>2, <3>3, <3>4
  <2>9. Carries(n, t, o, u, v, d, e, s, k)
    BY <2>8 DEF Carries
  <2> QED
    BY <1>10, <2>5, <2>7, <2>9, WayKept
<1>15. ~(Enters(1) /\ Enters(4))
  <2> SUFFICES ASSUME Enters(1), Enters(4) PROVE FALSE
    OBVIOUS
  <2>1. p = o /\ f.source = o
    BY <1>1, <1>9 DEF SentBy
  <2> QED
    BY <1>1, <2>1, SentToLeader
<1> QED
  BY <1>13, <1>14, <1>15

(* A bridge that takes a frame from its queue.                                      *)
LEMMA RxTakes ==
    ASSUME Shape, NEW p \in Nodes, rx[p] # <<>>, rx' = [rx EXCEPT ![p] = Tail(@)],
           NEW n \in Nodes, NEW t, NEW o
    PROVE  /\ \A i \in Nat : \A x : AtReceiver(n, t, o, i, x)' =>
                 IF n = p THEN AtReceiver(n, t, o, i + 1, x) /\ i >= 1
                          ELSE AtReceiver(n, t, o, i, x)
           /\ \A i \in Nat : \A x : AtLeader(t, o, i, x)' =>
                 IF "leader" = p THEN AtLeader(t, o, i + 1, x) /\ i >= 1
                                 ELSE AtLeader(t, o, i, x)
<1> DEFINE s == rx[p]
           rest == Tail(s)
<1>1. \A i \in DOMAIN rest : i >= 1 /\ i + 1 \in DOMAIN s /\ rest[i] = s[i + 1]
  <2>1. s \in Seq(OwnFrame) /\ s # <<>>
    BY DEF Shape
  <2> QED
    BY <2>1
<1> HIDE DEF rest
<1>2. rx'[p] = rest /\ \A h \in Nodes : h # p => rx'[h] = rx[h]
  BY DEF Shape, rest
<1>3. "leader" \in Nodes
  BY DEF Nodes
<1>4. ASSUME NEW i \in Nat, NEW x, AtReceiver(n, t, o, i, x)'
      PROVE  IF n = p THEN AtReceiver(n, t, o, i + 1, x) /\ i >= 1
                      ELSE AtReceiver(n, t, o, i, x)
  <2>1. /\ i \in DOMAIN rx'[n] /\ Key(rx'[n][i]) = <<t, o>> /\ ForMe(n, rx'[n][i])
        /\ x = rx'[n][i].number
    BY <1>4 DEF AtReceiver, Key, ForMe, Accepts
  <2> QED
    BY <1>1, <1>2, <2>1 DEF AtReceiver
<1>5. ASSUME NEW i \in Nat, NEW x, AtLeader(t, o, i, x)'
      PROVE  IF "leader" = p THEN AtLeader(t, o, i + 1, x) /\ i >= 1
                             ELSE AtLeader(t, o, i, x)
  <2>1. /\ i \in DOMAIN rx'["leader"] /\ Key(rx'["leader"][i]) = <<t, o>>
        /\ x = rx'["leader"][i].number
    BY <1>5 DEF AtLeader, Key
  <2> QED
    BY <1>1, <1>2, <1>3, <2>1 DEF AtLeader
<1> QED
  BY <1>4, <1>5

(* What the relay of a frame puts on the way of a stream: the copy, at the end of the     *)
(* leader's queue or alone in its slot.                                              *)
Relaying(p, f, t, o) ==
    /\ p = "leader" /\ o \in Followers /\ Key(f) = <<t, o>>
    /\ \/ /\ Latest(t)
          /\ \A w \in Nodes : \A i, x : /\ AtWorker(w, t, o, i, x)' <=> AtWorker(w, t, o, i, x)
                                        /\ Waiting(w, t, o, i, x)' =>
                                              \/ Waiting(w, t, o, i, x) /\ w # p
                                              \/ w = p /\ i = 0 /\ x = f.number
       \/ /\ \A w \in Nodes : \A i, x : ~Waiting(w, t, o, i, x)'
          /\ \A w \in Nodes, i \in Nat : \A x : AtWorker(w, t, o, i, x)' =>
                 \/ AtWorker(w, t, o, i, x) /\ (w = p => i <= Len(fifo[p]))
                 \/ w = p /\ i = Len(fifo[p]) + 1 /\ x = f.number

NotRelaying(t, o) ==
    \A w \in Nodes, i \in Nat : \A x : /\ AtWorker(w, t, o, i, x)' => AtWorker(w, t, o, i, x)
                                       /\ Waiting(w, t, o, i, x)' => Waiting(w, t, o, i, x)

LEMMA RelayMoves ==
    ASSUME Shape, Routed, NEW p \in Nodes, NEW f \in OwnFrame, UNCHANGED latest,
           UNCHANGED <<pending, fifo>> \/ (ShouldRelay(p, f) /\ Relay(p, f)), NEW t, NEW o
    PROVE  NotRelaying(t, o) \/ Relaying(p, f, t, o)
<1>1. CASE UNCHANGED <<pending, fifo>>
  BY <1>1 DEF NotRelaying, AtWorker, Waiting
<1>2. CASE ShouldRelay(p, f) /\ Relay(p, f) /\ ~UNCHANGED <<pending, fifo>>
  <2> DEFINE copy == [f EXCEPT !.destination = "broadcast"]
  <2>1. copy \in OwnFrame /\ Key(copy) = Key(f) /\ copy.number = f.number
        /\ copy.topic = f.topic
    BY DEF OwnFrame, Key
  <2>2. \/ /\ Latest(f.topic) /\ pending' = [pending EXCEPT ![p] = ReplaceLatest(@, copy)]
           /\ UNCHANGED fifo
        \/ /\ ~Latest(f.topic) /\ UNCHANGED pending
           /\ fifo' = [fifo EXCEPT ![p] = Append(@, copy)]
    BY <1>2 DEF Relay
  <2>3. p = "leader" /\ f.source \in Followers /\ Key(f) = <<f.topic, f.source>>
    BY <1>2 DEF ShouldRelay, Key
  <2> HIDE DEF copy
  <2>4. CASE /\ Latest(f.topic) /\ pending' = [pending EXCEPT ![p] = ReplaceLatest(@, copy)]
             /\ UNCHANGED fifo
    <3>1. ReplacedBy(p, copy)
      BY <2>1, <2>4, ReplacedOnly
    <3>2. \A w \in Nodes : \A i, x : AtWorker(w, t, o, i, x)' <=> AtWorker(w, t, o, i, x)
      BY <2>4 DEF AtWorker
    <3>3. \A w \in Nodes : \A i, x : Waiting(w, t, o, i, x)' =>
              \/ Waiting(w, t, o, i, x) /\ (w = p => Key(f) # <<t, o>>)
              \/ w = p /\ i = 0 /\ Key(f) = <<t, o>> /\ x = f.number
      BY <2>1, <3>1 DEF ReplacedBy
    <3>4. CASE Key(f) = <<t, o>>
      <4>1. t = f.topic /\ o = f.source
        BY <2>3, <3>4
      <4> QED
        BY <2>3, <2>4, <3>2, <3>3, <3>4, <4>1 DEF Relaying
    <3>5. CASE Key(f) # <<t, o>>
      BY <3>2, <3>3, <3>5 DEF NotRelaying
    <3> QED
      BY <3>4, <3>5
  <2>5. CASE /\ ~Latest(f.topic) /\ UNCHANGED pending
             /\ fifo' = [fifo EXCEPT ![p] = Append(@, copy)]
    <3>1. AppendedTo(p, copy)
      BY <2>1, <2>5, AppendedLast
    <3>2. \A w \in Nodes : \A i, x : Waiting(w, t, o, i, x)' <=> Waiting(w, t, o, i, x)
      BY <2>5 DEF Waiting
    <3>3. \A w \in Nodes, i \in Nat : \A x : AtWorker(w, t, o, i, x)' =>
              \/ AtWorker(w, t, o, i, x) /\ (w = p => i <= Len(fifo[p]))
              \/ w = p /\ i = Len(fifo[p]) + 1 /\ Key(f) = <<t, o>> /\ x = f.number
      BY <2>1, <3>1 DEF AppendedTo
    <3>4. CASE Key(f) = <<t, o>>
      <4>1. t = f.topic /\ o = f.source
        BY <2>3, <3>4
      <4>2. \A w \in Nodes : \A i, x : ~Waiting(w, t, o, i, x)
        BY <2>5, <4>1 DEF Waiting, Routed, Key
      <4> QED
        BY <2>3, <3>2, <3>3, <3>4, <4>1, <4>2 DEF Relaying
    <3>5. CASE Key(f) # <<t, o>>
      BY <3>2, <3>3, <3>5 DEF NotRelaying
    <3> QED
      BY <3>4, <3>5
  <2> QED
    BY <2>2, <2>4, <2>5
<1> QED
  BY <1>1, <1>2

LEMMA ProcessRxWay ==
    ASSUME IInv, Routed, NEW p \in Nodes, ProcessRx(p),
           NEW n \in Nodes, NEW t \in Topics, NEW o \in Nodes, WayInOrder(n, t, o)
    PROVE  WayInOrder(n, t, o)'
<1> DEFINE f == Head(rx[p])
           published1 == ForMe(p, f) /\ Key(f) = <<t, o>>
<1>1. Shape /\ rx[p] # <<>> /\ rx' = [rx EXCEPT ![p] = Tail(@)] /\ rx[p] \in Seq(OwnFrame)
  BY DEF ProcessRx, IInv, Shape
<1>2. f \in OwnFrame /\ f = rx[p][1] /\ 1 \in DOMAIN rx[p]
  BY <1>1
<1>3. UNCHANGED <<made, latest>>
  BY DEF ProcessRx
<1>4. UNCHANGED <<pending, fifo>> \/ (ShouldRelay(p, f) /\ Relay(p, f))
  BY DEF ProcessRx
<1>5. Decoded(f).origin = f.source /\ Decoded(f).number = f.number /\ Decoded(f) \in LocalMessage
      /\ f.topic \in Topics /\ f.source \in Nodes
  BY <1>2 DEF Decoded, OwnFrame, LocalMessage
<1>6. \/ UNCHANGED <<subscribed, published>> /\ ~ForMe(p, f)
      \/ /\ ForMe(p, f)
         /\ published' = [published EXCEPT ![p] =
                              [published[p] EXCEPT ![<<f.topic, f.source>>] = f.number]]
         /\ UNCHANGED subscribed \/ Heard(p, f.topic, Decoded(f))
  BY <1>5 DEF ProcessRx
<1> HIDE DEF f
<1>7. published'[n][<<t, o>>] =
          IF n = p /\ published1 THEN f.number ELSE published[n][<<t, o>>]
  <2>1. published[n] \in [Topics \X Nodes -> Nat] /\ published \in [Nodes -> [Topics \X Nodes -> Nat]]
    BY <1>1 DEF Shape
  <2>2. Key(f) = <<f.topic, f.source>>
    BY DEF Key
  <2>3. CASE UNCHANGED published /\ ~ForMe(p, f)
    BY <2>3
  <2>4. CASE /\ ForMe(p, f)
             /\ published' = [published EXCEPT ![p] =
                                  [published[p] EXCEPT ![<<f.topic, f.source>>] = f.number]]
    <3>1. CASE n # p
      BY <2>1, <2>4, <3>1
    <3>2. CASE n = p
      <4>1. published'[n] = [published[n] EXCEPT ![<<f.topic, f.source>>] = f.number]
        BY <2>1, <2>4, <3>2
      <4> QED
        BY <2>1, <2>2, <2>4, <3>2, <4>1
    <3> QED
      BY <3>1, <3>2
  <2> QED
    BY <1>6, <2>3, <2>4
<1>8. /\ n = p /\ published1 => OnWay(n, t, o, 1, 1, f.number)
      /\ p = "leader" /\ ViaLeader(n, o) /\ Key(f) = <<t, o>> => OnWay(n, t, o, 4, 1, f.number)
  BY <1>2 DEF OnWay, AtReceiver, AtLeader
<1>9. /\ \A i \in Nat : \A x : AtReceiver(n, t, o, i, x)' =>
             IF n = p THEN AtReceiver(n, t, o, i + 1, x) /\ i >= 1
                      ELSE AtReceiver(n, t, o, i, x)
      /\ \A i \in Nat : \A x : AtLeader(t, o, i, x)' =>
             IF "leader" = p THEN AtLeader(t, o, i + 1, x) /\ i >= 1
                             ELSE AtLeader(t, o, i, x)
  BY <1>1, RxTakes
<1>10. NotRelaying(t, o) \/ Relaying(p, f, t, o)
  BY <1>1, <1>2, <1>3, <1>4, RelayMoves DEF IInv
<1>11. "leader" \in Nodes /\ (o \in Followers => o # "leader")
  BY RolesAssumption DEF Nodes
<1>12. CASE o = p
  <2>1. f.source # p \/ ~ForMe(p, f)
    BY DEF ForMe
  <2>2. \E c \in {0, 1} : \A j, y \in Nat : Untold(t, o, j, y)' => Untold(t, o, j + c, y)
    <3>1. CASE UNCHANGED subscribed
      <4>1. \A j \in Nat : j + 0 = j
        OBVIOUS
      <4> QED
        BY <3>1, <4>1 DEF Untold
    <3>2. CASE ForMe(p, f) /\ Heard(p, f.topic, Decoded(f)) /\ f.topic = t
      <4>1. PICK c \in {0, 1}, e \in Nat : HeardAt(t, p, Decoded(f), c, e)
        BY <1>1, <1>5, <3>2, HeardLast
      <4> QED
        BY <1>5, <1>12, <2>1, <3>2, <4>1 DEF HeardAt
    <3>3. CASE ForMe(p, f) /\ Heard(p, f.topic, Decoded(f)) /\ f.topic # t
      <4>1. \A j, y : Untold(t, o, j, y)' <=> Untold(t, o, j, y)
        BY <1>1, <1>5, <3>3, HeardLast
      <4>2. \A j \in Nat : j + 0 = j
        OBVIOUS
      <4> QED
        BY <4>1, <4>2
    <3> QED
      BY <1>6, <3>1, <3>2, <3>3
  <2>3. PICK c \in {0, 1} :
            \A j, y \in Nat : Untold(t, o, j, y)' => Untold(t, o, j + c, y)
    BY <2>2
  <2>4. NotRelaying(t, o)
    BY <1>10, <1>11, <1>12 DEF Relaying
  <2>5. published'[n][<<t, o>>] = published[n][<<t, o>>]
    BY <1>7, <1>12, <2>1 DEF Key
  <2>6. \A j, y : ~AtReceiver(p, t, o, j, y)
    BY <1>12 DEF AtReceiver, ForMe, Key
  <2>7. ASSUME NEW b \in 0..8, NEW j \in Nat, NEW y \in Nat, OnWay(n, t, o, b, j, y)'
        PROVE  OnWay(n, t, o, b, IF b = 7 THEN j + c ELSE j, y)
    <3>1. CASE b = 7
      BY <2>3, <2>7, <3>1 DEF OnWay
    <3>2. CASE b # 7
      <4>1. ViaLeader(n, o) => p # "leader"
        BY <1>11, <1>12 DEF ViaLeader
      <4>2. OnWay(n, t, o, b, j, y)
        BY <1>3, <1>9, <1>11, <2>4, <2>5, <2>6, <2>7, <3>2, <4>1
           DEF OnWay, NotRelaying, ViaLeader
      <4> QED
        BY <3>2, <4>2
    <3> QED
      BY <3>1, <3>2
  <2>8. 7 \in 0..7 /\ c \in Nat
    OBVIOUS
  <2> QED
    BY <2>7, <2>8, WayShortened
<1>13. ASSUME o # p PROVE \A j, y : Untold(t, o, j, y)' <=> Untold(t, o, j, y)
  <2>1. CASE UNCHANGED subscribed
    BY <2>1 DEF Untold
  <2>2. CASE Heard(p, f.topic, Decoded(f))
    <3>1. <<o, t>> # <<p, f.topic>>
      BY <1>13
    <3> QED
      BY <1>1, <1>5, <2>2, <3>1, HeardLast
  <2> QED
    BY <1>6, <2>1, <2>2
<1> HIDE DEF published1
<1>14. CASE o # p /\ n = p
  <2>1. ViaLeader(n, o) => p # "leader"
    BY <1>14 DEF ViaLeader
  <2>2. NotRelaying(t, o) \/ ~ViaLeader(n, o)
    BY <1>10, <2>1 DEF Relaying
  <2>3. \A i \in Nat : \A x : AtWorker(o, t, o, i, x)' => AtWorker(o, t, o, i, x)
    <3>1. CASE NotRelaying(t, o)
      BY <3>1 DEF NotRelaying
    <3>2. CASE Relaying(p, f, t, o)
      BY <1>14, <3>2 DEF Relaying
    <3> QED
      BY <1>10, <3>1, <3>2
  <2>4. \A i \in Nat : \A x : Waiting(o, t, o, i, x)' => Waiting(o, t, o, i, x)
    <3>1. CASE NotRelaying(t, o)
      BY <3>1 DEF NotRelaying
    <3>2. CASE Relaying(p, f, t, o)
      BY <1>14, <3>2 DEF Relaying
    <3> QED
      BY <1>10, <3>1, <3>2
  <2>5. \A b \in 0..8, j, y \in Nat : OnWay(n, t, o, b, j, y)' /\ b \notin {0, 1} =>
            OnWay(n, t, o, b, j, y)
    <3> SUFFICES ASSUME NEW b \in 0..8, NEW j \in Nat, NEW y \in Nat,
                        OnWay(n, t, o, b, j, y)', b \notin {0, 1}
                 PROVE  OnWay(n, t, o, b, j, y)
      OBVIOUS
    <3>1. CASE b \in {2, 3, 4}
      <4>1. ViaLeader(n, o)
        BY <3>1 DEF OnWay, ViaLeader
      <4> QED
        BY <1>9, <1>11, <2>1, <2>2, <3>1, <4>1 DEF OnWay, NotRelaying, ViaLeader
    <3>2. CASE b \notin {2, 3, 4}
      BY <1>3, <1>13, <1>14, <2>3, <2>4, <3>2 DEF OnWay
    <3> QED
      BY <3>1, <3>2
  <2>6. \A j, y \in Nat : OnWay(n, t, o, 1, j, y)' => OnWay(n, t, o, 1, j + 1, y) /\ j >= 1
    BY <1>9, <1>14 DEF OnWay
  <2>7. \A j, y : OnWay(n, t, o, 0, j, y)' =>
            j = 0 /\ y = IF published1 THEN f.number ELSE published[n][<<t, o>>]
    BY <1>7, <1>14 DEF OnWay
  <2>8. CASE published1
    <3>1. ASSUME NEW b \in 0..8, NEW j \in Nat, NEW y \in Nat, OnWay(n, t, o, b, j, y)'
          PROVE  \/ \E i \in Nat : /\ i = (IF b = 1 THEN j + 1 ELSE j)
                                   /\ OnWay(n, t, o, b, i, y)
                                   /\ Before(b, j, 0, 0) \/ Before(1, 1, b, i)
                 \/ 1 \in 0..8 /\ b = 0 /\ j = 0 /\ OnWay(n, t, o, 1, 1, y)
      <4>1. CASE b = 0
        BY <1>8, <1>14, <2>7, <2>8, <3>1, <4>1
      <4>2. CASE b = 1
        <5>1. OnWay(n, t, o, b, j + 1, y) /\ j >= 1
          BY <2>6, <3>1, <4>2
        <5>2. Before(1, 1, b, j + 1) /\ j + 1 \in Nat
          BY <4>2, <5>1 DEF Before
        <5> QED
          BY <4>2, <5>1, <5>2
      <4>3. CASE b \notin {0, 1}
        <5>1. OnWay(n, t, o, b, j, y)
          BY <2>5, <3>1, <4>3
        <5>2. Before(1, 1, b, j)
          BY <4>3 DEF Before
        <5> QED
          BY <4>3, <5>1, <5>2
      <4> QED
        BY <4>1, <4>2, <4>3
    <3>2. Carries(n, t, o, 1, 1, 0, 0, 1, 1)
      BY <3>1 DEF Carries
    <3>3. 1 \in 0..7 /\ 1 \in Nat /\ 0 \in Nat /\ 0 < 1 /\ 1 # 8
      OBVIOUS
    <3> QED
      BY <3>2, <3>3, WayKept
  <2>9. CASE ~published1
    <3>1. ASSUME NEW b \in 0..8, NEW j \in Nat, NEW y \in Nat, OnWay(n, t, o, b, j, y)'
          PROVE  OnWay(n, t, o, b, IF b = 1 THEN j + 1 ELSE j, y)
      <4>1. CASE b = 0
        BY <2>7, <2>9, <3>1, <4>1 DEF OnWay
      <4>2. CASE b = 1
        BY <2>6, <3>1, <4>2
      <4>3. CASE b \notin {0, 1}
        BY <2>5, <3>1, <4>3
      <4> QED
        BY <4>1, <4>2, <4>3
    <3> QED
      BY <3>1, WayShortened
  <2> QED
    BY <2>8, <2>9
<1>15. ASSUME o # p, n # p
       PROVE  /\ published'[n][<<t, o>>] = published[n][<<t, o>>]
              /\ \A b \in 0..8, j, y \in Nat :
                    OnWay(n, t, o, b, j, y)' /\ b \notin {2, 3, 4, 5, 6} =>
                        OnWay(n, t, o, b, j, y)
  <2>1. published'[n][<<t, o>>] = published[n][<<t, o>>]
    BY <1>7, <1>15
  <2> QED
    BY <1>3, <1>9, <1>13, <1>15, <2>1 DEF OnWay
<1>16. CASE o # p /\ n # p /\ ~Relaying(p, f, t, o)
  <2>1. NotRelaying(t, o)
    BY <1>10, <1>16
  <2> DEFINE c == IF p = "leader" THEN 1 ELSE 0
  <2>2. ASSUME NEW b \in 0..8, NEW j \in Nat, NEW y \in Nat, OnWay(n, t, o, b, j, y)'
        PROVE  OnWay(n, t, o, b, IF b = 4 THEN j + c ELSE j, y)
    <3>1. CASE b = 4
      <4>1. ViaLeader(n, o) /\ AtLeader(t, o, j, y)'
        BY <2>2, <3>1 DEF OnWay, ViaLeader
      <4>2. AtLeader(t, o, j + c, y)
        <5>1. p # "leader" => j + c = j
          OBVIOUS
        <5> QED
          BY <1>9, <4>1, <5>1
      <4> QED
        BY <3>1, <4>1, <4>2 DEF OnWay
    <3>2. CASE b \in {2, 3, 5, 6}
      BY <1>11, <2>1, <2>2, <3>2 DEF OnWay, NotRelaying, ViaLeader
    <3>3. CASE b \notin {2, 3, 4, 5, 6}
      BY <1>15, <1>16, <2>2, <3>3
    <3> QED
      BY <3>1, <3>2, <3>3
  <2>3. 4 \in 0..7 /\ c \in Nat
    OBVIOUS
  <2> QED
    BY <2>2, <2>3, WayShortened
<1>17. CASE o # p /\ n # p /\ Relaying(p, f, t, o)
  <2>1. p = "leader" /\ ViaLeader(n, o) /\ Key(f) = <<t, o>>
    BY <1>17 DEF Relaying, ViaLeader
  <2>2. OnWay(n, t, o, 4, 1, f.number)
    BY <1>8, <2>1
  <2>3. \A j, y \in Nat : OnWay(n, t, o, 4, j, y)' => OnWay(n, t, o, 4, j + 1, y) /\ j >= 1
    BY <1>9, <2>1 DEF OnWay
  <2>4. Len(fifo[p]) \in Nat
    BY <1>1 DEF Shape
  <2>5. \E d \in {2, 3}, e \in Nat : \A b \in {2, 3, 5, 6}, j, y \in Nat :
            OnWay(n, t, o, b, j, y)' =>
                \/ OnWay(n, t, o, b, j, y) /\ (b \in {2, 3} => Before(b, j, d, e))
                \/ b = d /\ j = e /\ y = f.number
    <3>1. CASE /\ Latest(t)
               /\ \A w \in Nodes : \A i, x :
                     /\ AtWorker(w, t, o, i, x)' <=> AtWorker(w, t, o, i, x)
                     /\ Waiting(w, t, o, i, x)' => \/ Waiting(w, t, o, i, x) /\ w # p
                                                   \/ w = p /\ i = 0 /\ x = f.number
      <4>1. \A b \in {2, 3, 5, 6}, j, y \in Nat :
                OnWay(n, t, o, b, j, y)' =>
                    \/ OnWay(n, t, o, b, j, y) /\ (b \in {2, 3} => Before(b, j, 3, 0))
                    \/ b = 3 /\ j = 0 /\ y = f.number
        BY <1>11, <1>17, <2>1, <3>1 DEF OnWay, Before, ViaLeader
      <4>2. 3 \in {2, 3} /\ 0 \in Nat
        OBVIOUS
      <4> QED
        BY <4>1, <4>2
    <3>2. CASE /\ \A w \in Nodes : \A i, x : ~Waiting(w, t, o, i, x)'
               /\ \A w \in Nodes, i \in Nat : \A x : AtWorker(w, t, o, i, x)' =>
                      \/ AtWorker(w, t, o, i, x) /\ (w = p => i <= Len(fifo[p]))
                      \/ w = p /\ i = Len(fifo[p]) + 1 /\ x = f.number
      <4> DEFINE e == Len(fifo[p]) + 1
      <4>1. \A b \in {2, 3, 5, 6}, j, y \in Nat :
                OnWay(n, t, o, b, j, y)' =>
                    \/ OnWay(n, t, o, b, j, y) /\ (b \in {2, 3} => Before(b, j, 2, e))
                    \/ b = 2 /\ j = e /\ y = f.number
        <5> SUFFICES ASSUME NEW b \in {2, 3, 5, 6}, NEW j \in Nat, NEW y \in Nat,
                            OnWay(n, t, o, b, j, y)'
                     PROVE  \/ OnWay(n, t, o, b, j, y) /\ (b \in {2, 3} => Before(b, j, 2, e))
                            \/ b = 2 /\ j = e /\ y = f.number
          OBVIOUS
        <5>1. CASE b = 2
          <6>1. AtWorker(p, t, o, j, y)'
            BY <2>1, <5>1 DEF OnWay
          <6>2. CASE AtWorker(p, t, o, j, y) /\ j <= Len(fifo[p])
            BY <2>1, <2>4, <5>1, <6>2 DEF OnWay, Before
          <6>3. CASE j = Len(fifo[p]) + 1 /\ y = f.number
            BY <5>1, <6>3
          <6> QED
            BY <3>2, <6>1, <6>2, <6>3
        <5>2. CASE b = 5
          BY <1>17, <3>2, <5>2 DEF OnWay
        <5>3. CASE b \in {3, 6}
          BY <1>11, <3>2, <5>3 DEF OnWay
        <5> QED
          BY <5>1, <5>2, <5>3
      <4>2. 2 \in {2, 3} /\ e \in Nat
        BY <2>4
      <4> HIDE DEF e
      <4> QED
        BY <4>1, <4>2
    <3> QED
      BY <1>17, <3>1, <3>2 DEF Relaying
  <2>6. PICK d \in {2, 3}, e \in Nat : \A b \in {2, 3, 5, 6}, j, y \in Nat :
            OnWay(n, t, o, b, j, y)' =>
                \/ OnWay(n, t, o, b, j, y) /\ (b \in {2, 3} => Before(b, j, d, e))
                \/ b = d /\ j = e /\ y = f.number
    BY <2>5
  <2>7. ASSUME NEW b \in 0..8, NEW j \in Nat, NEW y \in Nat, OnWay(n, t, o, b, j, y)'
        PROVE  \/ \E i \in Nat : /\ i = (IF b = 4 THEN j + 1 ELSE j)
                                 /\ OnWay(n, t, o, b, i, y)
                                 /\ Before(b, j, d, e) \/ Before(4, 1, b, i)
               \/ 4 \in 0..8 /\ b = d /\ j = e /\ OnWay(n, t, o, 4, 1, y)
    <3>1. CASE b = 4
      <4>1. OnWay(n, t, o, b, j + 1, y) /\ j >= 1
        BY <2>3, <2>7, <3>1
      <4>2. Before(4, 1, b, j + 1) /\ j + 1 \in Nat
        BY <3>1, <4>1 DEF Before
      <4> QED
        BY <3>1, <4>1, <4>2
    <3>2. CASE b \in {2, 3, 5, 6}
      <4>1. CASE OnWay(n, t, o, b, j, y) /\ (b \in {2, 3} => Before(b, j, d, e))
        <5>1. Before(b, j, d, e) \/ Before(4, 1, b, j)
          BY <3>2, <4>1 DEF Before
        <5> QED
          BY <3>2, <4>1, <5>1
      <4>2. CASE b = d /\ j = e /\ y = f.number
        BY <2>2, <4>2
      <4> QED
        BY <2>6, <2>7, <3>2, <4>1, <4>2
    <3>3. CASE b \notin {2, 3, 4, 5, 6}
      <4>1. OnWay(n, t, o, b, j, y)
        BY <1>15, <1>17, <2>7, <3>3
      <4>2. Before(b, j, d, e) \/ Before(4, 1, b, j)
        BY <3>3 DEF Before
      <4> QED
        BY <3>3, <4>1, <4>2
    <3> QED
      BY <3>1, <3>2, <3>3
  <2>8. Carries(n, t, o, 4, 1, d, e, 4, 1)
    BY <2>7 DEF Carries
  <2>9. 4 \in 0..7 /\ 1 \in Nat /\ d \in Nat /\ 4 \in Nat /\ d < 4 /\ 4 # 8
    OBVIOUS
  <2> QED
    BY <2>8, <2>9, WayKept
<1> QED
  BY <1>12, <1>14, <1>16, <1>17
-----------------------------------------------------------------------------
(* Where a frame may be sent from is kept by all that a bridge does with it.             *)
Outgoing(m, f) == SentBy(m, f) /\ Latest(f.topic)
Queued(m, s) == \A i \in DOMAIN s : SentBy(m, s[i]) /\ ~Latest(s[i].topic)

RoutedAt(m, waiting, newest, queue) ==
    /\ \A f \in waiting \cup newest : Outgoing(m, f)
    /\ Queued(m, queue) /\ OneEach(waiting) /\ OneEach(newest)

LEMMA RoutedEverywhere ==
    Routed <=> \A m \in Nodes : RoutedAt(m, pending[m], latest[m], fifo[m])
  BY DEF Routed, RoutedAt, Outgoing, Queued

LEMMA StillRouted ==
    ASSUME Routed, NEW p \in Nodes, RoutedAt(p, pending'[p], latest'[p], fifo'[p]),
           \A m \in Nodes \ {p} : /\ pending'[m] = pending[m] /\ latest'[m] = latest[m]
                                  /\ fifo'[m] = fifo[m]
    PROVE  Routed'
<1>1. \A m \in Nodes : RoutedAt(m, pending'[m], latest'[m], fifo'[m])
  BY RoutedEverywhere
<1> QED
  BY <1>1 DEF Routed, RoutedAt, Outgoing, Queued, SentBy, Sends, Destination, Key, OneEach

LEMMA QueuedAppend ==
    ASSUME NEW m, NEW s \in Seq(OwnFrame), Queued(m, s), NEW f \in OwnFrame, SentBy(m, f),
           ~Latest(f.topic)
    PROVE  Queued(m, Append(s, f))
<1> DEFINE longer == Append(s, f)
<1>1. /\ DOMAIN longer = 1..Len(s) + 1 /\ longer[Len(s) + 1] = f /\ Len(s) \in Nat
      /\ DOMAIN s = 1..Len(s) /\ \A i \in 1..Len(s) : longer[i] = s[i]
  OBVIOUS
<1> HIDE DEF longer
<1>2. Queued(m, longer)
  BY <1>1 DEF Queued
<1> QED
  BY <1>2 DEF longer

LEMMA QueuedTail ==
    ASSUME NEW m, NEW s \in Seq(OwnFrame), Queued(m, s), s # <<>>
    PROVE  Queued(m, Tail(s))
  BY Popped DEF Queued

LEMMA ReplaceOne ==
    ASSUME NEW m, NEW s, \A g \in s : Outgoing(m, g), OneEach(s), NEW f, Outgoing(m, f)
    PROVE  (\A g \in ReplaceLatest(s, f) : Outgoing(m, g)) /\ OneEach(ReplaceLatest(s, f))
  BY DEF ReplaceLatest, OneEach

LEMMA TransmitRouted ==
    ASSUME IInv, Routed, NEW p \in Nodes, NEW q \in Topics, Transmit(p, q)
    PROVE  Routed'
<1> DEFINE m == Head(subscribed[p][q])
           f == [topic |-> q, source |-> p, destination |-> Destination(p, q),
                 sequence |-> IF Latest(q) THEN Unsent ELSE next_sequence[p][q],
                 origin |-> m.origin, number |-> m.number]
<1>1. Shape /\ subscribed[p][q] # <<>> /\ Sends(p, q) /\ UNCHANGED latest
  BY DEF Transmit, IInv
<1>2. m \in LocalMessage /\ (m.origin = p \/ Relayed(q))
  <2>1. subscribed[p][q] \in Seq(LocalMessage)
    BY DEF IInv, Shape
  <2> QED
    BY <1>1, <2>1, Popped DEF IInv, OwnOrRelayed
<1>3. \/ UNCHANGED <<pending, fifo>>
      \/ /\ m.origin = p /\ Latest(q) /\ UNCHANGED fifo
         /\ pending' = [pending EXCEPT ![p] = ReplaceLatest(@, f)]
      \/ /\ m.origin = p /\ ~Latest(q) /\ UNCHANGED pending
         /\ fifo' = [fifo EXCEPT ![p] = Append(@, f)]
  BY <1>2 DEF Transmit, LocalOrigin
<1>4. m.origin = p => f \in OwnFrame
  <2>1. Destination(p, q) \in Nodes \cup {"broadcast"}
    BY <1>1, DestinationType
  <2>2. Unsent \in Nat /\ next_sequence[p][q] \in Nat
    BY BoundsAssumption DEF Unsent, IInv, Shape
  <2> HIDE DEF m
  <2> QED
    BY <1>2, <2>1, <2>2 DEF OwnFrame, LocalMessage
<1>5. SentBy(p, f) /\ f.topic = q
  BY <1>1 DEF SentBy
<1>6. RoutedAt(p, pending[p], latest[p], fifo[p]) /\ fifo[p] \in Seq(OwnFrame)
  BY <1>1, RoutedEverywhere DEF Shape
<1> HIDE DEF f, m
<1>7. CASE UNCHANGED <<pending, fifo>>
  BY <1>1, <1>6, <1>7, StillRouted
<1>8. CASE /\ m.origin = p /\ Latest(q) /\ UNCHANGED fifo
           /\ pending' = [pending EXCEPT ![p] = ReplaceLatest(@, f)]
  <2>1. pending'[p] = ReplaceLatest(pending[p], f)
        /\ \A w \in Nodes : w # p => pending'[w] = pending[w]
    BY <1>1, <1>8 DEF Shape
  <2>2. Outgoing(p, f)
    BY <1>5, <1>8 DEF Outgoing
  <2>3. (\A g \in pending'[p] : Outgoing(p, g)) /\ OneEach(pending'[p])
    BY <1>6, <2>1, <2>2, ReplaceOne DEF RoutedAt
  <2>4. RoutedAt(p, pending'[p], latest'[p], fifo'[p])
    BY <1>1, <1>6, <1>8, <2>3 DEF RoutedAt
  <2> QED
    BY <1>1, <1>8, <2>1, <2>4, StillRouted
<1>9. CASE /\ m.origin = p /\ ~Latest(q) /\ UNCHANGED pending
           /\ fifo' = [fifo EXCEPT ![p] = Append(@, f)]
  <2>1. fifo'[p] = Append(fifo[p], f) /\ \A w \in Nodes : w # p => fifo'[w] = fifo[w]
    BY <1>1, <1>9 DEF Shape
  <2>2. f \in OwnFrame /\ ~Latest(f.topic)
    BY <1>4, <1>5, <1>9
  <2>3. Queued(p, fifo[p])
    BY <1>6 DEF RoutedAt
  <2>4. Queued(p, Append(fifo[p], f))
    BY <1>5, <1>6, <2>2, <2>3, QueuedAppend
  <2>5. RoutedAt(p, pending'[p], latest'[p], fifo'[p])
    BY <1>1, <1>6, <1>9, <2>1, <2>4 DEF RoutedAt
  <2> QED
    BY <1>1, <1>9, <2>1, <2>5, StillRouted
<1> QED
  BY <1>3, <1>7, <1>8, <1>9

LEMMA FlushRouted ==
    ASSUME IInv, Routed, NEW p \in Nodes, Flush(p)
    PROVE  Routed'
<1>1. PICK ready \in SUBSET pending[p] \ {{}} :
          LET own == {f \in ready : f.sequence = Unsent}
              sent == {IF f \in own THEN [f EXCEPT !.sequence = next_sequence[p][f.topic]]
                       ELSE f : f \in ready} IN
          /\ pending' = [pending EXCEPT ![p] = @ \ ready]
          /\ \/ /\ connected[p]
                /\ latest' = [latest EXCEPT ![p] =
                                 {g \in @ : \A f \in ready : Key(g) # Key(f)} \cup sent]
                /\ \/ own = {} /\ UNCHANGED next_sequence
                   \/ \E f \in own : NumberTaken(p, f.topic)
             \/ ~connected[p] /\ UNCHANGED <<latest, next_sequence>>
          /\ UNCHANGED <<ros, fifo, connected, rx, published, drops>>
  BY DEF Flush, TakenOut
<1> DEFINE own == {f \in ready : f.sequence = Unsent}
           numbered(f) == IF f \in own
                          THEN [f EXCEPT !.sequence = next_sequence[p][f.topic]] ELSE f
           sent == {numbered(f) : f \in ready}
<1>2. RoutedAt(p, pending[p], latest[p], fifo[p]) /\ ready \subseteq OwnFrame
  BY RoutedEverywhere DEF IInv, Shape
<1>3. \A f \in ready : Key(numbered(f)) = Key(f) /\ Outgoing(p, numbered(f))
  <2> SUFFICES ASSUME NEW f \in ready
               PROVE  LET g == [f EXCEPT !.sequence = next_sequence[p][f.topic]]
                      IN  Key(g) = Key(f) /\ Outgoing(p, g) /\ Outgoing(p, f)
    OBVIOUS
  <2>1. f \in OwnFrame /\ Outgoing(p, f)
    BY <1>2 DEF RoutedAt
  <2> DEFINE g == [f EXCEPT !.sequence = next_sequence[p][f.topic]]
  <2>2. g.topic = f.topic /\ g.source = f.source /\ g.destination = f.destination
    BY <2>1 DEF OwnFrame
  <2> HIDE DEF g
  <2>3. Key(g) = Key(f) /\ Outgoing(p, g)
    BY <2>1, <2>2 DEF Key, Outgoing, SentBy
  <2> QED
    BY <2>1, <2>3 DEF g
<1>4. \A f, g \in ready : Key(f) = Key(g) => f = g
  BY <1>2 DEF RoutedAt, OneEach
<1>5. \A g, h \in sent : Outgoing(p, g) /\ (Key(g) = Key(h) => g = h)
  <2> HIDE DEF numbered
  <2> QED
    BY <1>3, <1>4
<1>6. \A g \in sent : \E f \in ready : Key(g) = Key(f)
  <2> HIDE DEF numbered
  <2> QED
    BY <1>3
<1>7. /\ pending' = [pending EXCEPT ![p] = @ \ ready]
      /\ \/ UNCHANGED latest
         \/ latest' = [latest EXCEPT ![p] =
                          {g \in @ : \A f \in ready : Key(g) # Key(f)} \cup sent]
      /\ UNCHANGED fifo
  BY <1>1
<1> HIDE DEF sent
<1>8. /\ pending'[p] = pending[p] \ ready
      /\ \/ latest'[p] = latest[p]
         \/ latest'[p] = {g \in latest[p] : \A f \in ready : Key(g) # Key(f)} \cup sent
      /\ \A w \in Nodes : w # p => pending'[w] = pending[w] /\ latest'[w] = latest[w]
  BY <1>7 DEF IInv, Shape
<1>9. OneEach(pending'[p]) /\ OneEach(latest'[p])
  BY <1>2, <1>5, <1>6, <1>8 DEF RoutedAt, OneEach
<1>10. \A g \in pending'[p] \cup latest'[p] : Outgoing(p, g)
  BY <1>2, <1>5, <1>8 DEF RoutedAt
<1>11. RoutedAt(p, pending'[p], latest'[p], fifo'[p])
  BY <1>2, <1>7, <1>9, <1>10 DEF RoutedAt
<1> QED
  BY <1>7, <1>8, <1>11, StillRouted

LEMMA SerialRouted ==
    ASSUME IInv, Routed, NEW p \in Nodes, Write(p) \/ Disconnect(p) \/ Reconnect(p)
    PROVE  Routed'
<1>1. RoutedAt(p, pending[p], latest[p], fifo[p]) /\ fifo[p] \in Seq(OwnFrame)
  BY RoutedEverywhere DEF IInv, Shape
<1>2. UNCHANGED pending
  BY DEF Write, Disconnect, Reconnect
<1>3. /\ \A w \in Nodes : w # p => latest'[w] = latest[w] /\ fifo'[w] = fifo[w]
      /\ latest'[p] \subseteq latest[p]
      /\ fifo'[p] \in {fifo[p], <<>>} \/ (fifo[p] # <<>> /\ fifo'[p] = Tail(fifo[p]))
  BY DEF Write, Disconnect, Reconnect, IInv, Shape
<1>4. Queued(p, fifo'[p])
  <2>1. Queued(p, fifo[p]) /\ Queued(p, <<>>)
    BY <1>1 DEF RoutedAt, Queued
  <2> QED
    BY <1>1, <1>3, <2>1, QueuedTail
<1>5. RoutedAt(p, pending'[p], latest'[p], fifo'[p])
  BY <1>1, <1>2, <1>3, <1>4 DEF RoutedAt, OneEach
<1> QED
  BY <1>2, <1>3, <1>5, StillRouted

LEMMA ProcessRxRouted ==
    ASSUME IInv, Routed, NEW p \in Nodes, ProcessRx(p)
    PROVE  Routed'
<1> DEFINE f == Head(rx[p])
           copy == [f EXCEPT !.destination = "broadcast"]
<1>1. Shape /\ rx[p] # <<>> /\ rx[p] \in Seq(OwnFrame) /\ UNCHANGED latest
  BY DEF ProcessRx, IInv, Shape
<1>2. f \in OwnFrame
  BY <1>1
<1>3. UNCHANGED <<pending, fifo>> \/ (ShouldRelay(p, f) /\ Relay(p, f))
  BY DEF ProcessRx
<1> HIDE DEF f
<1>4. /\ copy \in OwnFrame /\ copy.topic = f.topic
      /\ ShouldRelay(p, f) => SentBy(p, copy)
  BY <1>2 DEF OwnFrame, ShouldRelay, SentBy
<1>5. \/ UNCHANGED <<pending, fifo>>
      \/ /\ ShouldRelay(p, f) /\ Latest(f.topic) /\ UNCHANGED fifo
         /\ pending' = [pending EXCEPT ![p] = ReplaceLatest(@, copy)]
      \/ /\ ShouldRelay(p, f) /\ ~Latest(f.topic) /\ UNCHANGED pending
         /\ fifo' = [fifo EXCEPT ![p] = Append(@, copy)]
  BY <1>3 DEF Relay
<1>6. RoutedAt(p, pending[p], latest[p], fifo[p]) /\ fifo[p] \in Seq(OwnFrame)
  BY <1>1, RoutedEverywhere DEF Shape
<1> HIDE DEF copy
<1>7. CASE UNCHANGED <<pending, fifo>>
  BY <1>1, <1>6, <1>7, StillRouted
<1>8. CASE /\ ShouldRelay(p, f) /\ Latest(f.topic) /\ UNCHANGED fifo
           /\ pending' = [pending EXCEPT ![p] = ReplaceLatest(@, copy)]
  <2>1. pending'[p] = ReplaceLatest(pending[p], copy)
        /\ \A w \in Nodes : w # p => pending'[w] = pending[w]
    BY <1>1, <1>8 DEF Shape
  <2>2. Outgoing(p, copy)
    BY <1>4, <1>8 DEF Outgoing
  <2>3. (\A g \in pending'[p] : Outgoing(p, g)) /\ OneEach(pending'[p])
    BY <1>6, <2>1, <2>2, ReplaceOne DEF RoutedAt
  <2>4. RoutedAt(p, pending'[p], latest'[p], fifo'[p])
    BY <1>1, <1>6, <1>8, <2>3 DEF RoutedAt
  <2> QED
    BY <1>1, <1>8, <2>1, <2>4, StillRouted
<1>9. CASE /\ ShouldRelay(p, f) /\ ~Latest(f.topic) /\ UNCHANGED pending
           /\ fifo' = [fifo EXCEPT ![p] = Append(@, copy)]
  <2>1. fifo'[p] = Append(fifo[p], copy) /\ \A w \in Nodes : w # p => fifo'[w] = fifo[w]
    BY <1>1, <1>9 DEF Shape
  <2>2. copy \in OwnFrame /\ ~Latest(copy.topic) /\ SentBy(p, copy)
    BY <1>4, <1>9
  <2>3. Queued(p, fifo[p])
    BY <1>6 DEF RoutedAt
  <2>4. Queued(p, Append(fifo[p], copy))
    BY <1>6, <2>2, <2>3, QueuedAppend
  <2>5. RoutedAt(p, pending'[p], latest'[p], fifo'[p])
    BY <1>1, <1>6, <1>9, <2>1, <2>4 DEF RoutedAt
  <2> QED
    BY <1>1, <1>9, <2>1, <2>5, StillRouted
<1> QED
  BY <1>5, <1>7, <1>8, <1>9

LEMMA RoutedUnchanged == ASSUME Routed, UNCHANGED <<pending, fifo, latest>> PROVE Routed'
<1>1. "leader" \in Nodes
  BY DEF Nodes
<1>2. RoutedAt("leader", pending'["leader"], latest'["leader"], fifo'["leader"])
  BY <1>1, RoutedEverywhere
<1> QED
  BY <1>1, <1>2, StillRouted

LEMMA StutterWay ==
    ASSUME UNCHANGED vars, NEW n \in Nodes, NEW t \in Topics, NEW o \in Nodes,
           WayInOrder(n, t, o)
    PROVE  WayInOrder(n, t, o)'
<1>1. UNCHANGED <<made, subscribed, rx, published, pending, fifo, latest>>
  BY DEF vars, ros, serial
<1>2. \A i, x : /\ AtReceiver(n, t, o, i, x)' <=> AtReceiver(n, t, o, i, x)
                /\ AtLeader(t, o, i, x)' <=> AtLeader(t, o, i, x)
                /\ Untold(t, o, i, x)' <=> Untold(t, o, i, x)
                /\ \A w : Waiting(w, t, o, i, x)' <=> Waiting(w, t, o, i, x)
                /\ \A w : AtWorker(w, t, o, i, x)' <=> AtWorker(w, t, o, i, x)
  BY <1>1 DEF AtReceiver, AtLeader, Untold, Waiting, AtWorker
<1>3. ASSUME NEW b \in 0..8, NEW j \in Nat, NEW y \in Nat, OnWay(n, t, o, b, j, y)'
      PROVE  OnWay(n, t, o, b, IF b = 0 THEN j + 0 ELSE j, y)
  <2>1. (IF b = 0 THEN j + 0 ELSE j) = j
    OBVIOUS
  <2> QED
    BY <1>1, <1>2, <1>3, <2>1 DEF OnWay, ViaLeader
<1> QED
  BY <1>3, WayShortened

(* The inductive invariant of the order of the streams.                              *)
WayInv == IInv /\ Routed /\ InOrder

LEMMA InitWayInv == Init => WayInv
<1> SUFFICES ASSUME Init PROVE WayInv
  OBVIOUS
<1>1. Routed
  BY DEF Init, Routed, OneEach
<1>2. ASSUME NEW n \in Nodes, NEW o \in Nodes, NEW t \in Topics PROVE WayInOrder(n, t, o)
  <2>1. \A a \in 0..8, i, x \in Nat : OnWay(n, t, o, a, i, x) =>
            (a = 0 /\ i = 0 /\ x = 0) \/ (a = 8 /\ i = 0 /\ x = 1)
    <3> SUFFICES ASSUME NEW a \in 0..8, NEW i \in Nat, NEW x \in Nat, OnWay(n, t, o, a, i, x)
                 PROVE  (a = 0 /\ i = 0 /\ x = 0) \/ (a = 8 /\ i = 0 /\ x = 1)
      OBVIOUS
    <3>1. "leader" \in Nodes
      BY DEF Nodes
    <3>2. a = 0 \/ a = 8
      BY <3>1 DEF Init, OnWay, AtReceiver, AtLeader, AtWorker, Waiting, Untold
    <3>3. a = 0 => i = 0 /\ x = 0
      BY DEF Init, OnWay
    <3>4. a = 8 => i = 0 /\ x = 1
      BY DEF Init, OnWay
    <3> QED
      BY <3>2, <3>3, <3>4
  <2> QED
    BY <2>1 DEF WayInOrder, Before
<1> QED
  BY <1>1, <1>2, InitIInv DEF WayInv, InOrder

LEMMA NextWayInv == WayInv /\ [Next]_vars => WayInv'
<1> SUFFICES ASSUME WayInv, [Next]_vars PROVE WayInv'
  OBVIOUS
<1> USE DEF WayInv
<1>1. CASE UNCHANGED vars
  <2>1. IInv'
    BY <1>1, StutterStep
  <2>2. Routed'
    BY <1>1, RoutedUnchanged DEF vars, serial
  <2>3. InOrder'
    BY <1>1, StutterWay DEF InOrder
  <2> QED
    BY <2>1, <2>2, <2>3
<1>2. ASSUME NEW p \in Nodes, NEW q \in Topics, Publish(p, q) PROVE WayInv'
  <2>1. IInv'
    BY <1>2, PublishStep
  <2>2. Routed'
    BY <1>2, RoutedUnchanged DEF Publish, serial
  <2>3. InOrder'
    BY <1>2, PublishWay DEF InOrder
  <2> QED
    BY <2>1, <2>2, <2>3
<1>3. ASSUME NEW p \in Nodes, NEW q \in Topics, Transmit(p, q) PROVE WayInv'
  BY <1>3, TransmitStep, TransmitRouted, TransmitWay DEF InOrder
<1>4. ASSUME NEW p \in Nodes, Flush(p) PROVE WayInv'
  BY <1>4, FlushStep, FlushRouted, FlushWay DEF InOrder
<1>5. ASSUME NEW p \in Nodes, Write(p) \/ Disconnect(p) \/ Reconnect(p) PROVE WayInv'
  BY <1>5, SerialStep, SerialRouted, WriteWay, LineWay DEF InOrder
<1>6. ASSUME NEW p \in Nodes, ProcessRx(p) PROVE WayInv'
  BY <1>6, ProcessRxStep, ProcessRxRouted, ProcessRxWay DEF InOrder
<1> QED
  BY <1>1, <1>2, <1>3, <1>4, <1>5, <1>6 DEF Next

LEMMA WaysAlwaysInOrder == Spec => []WayInv
  BY InitWayInv, NextWayInv, PTL DEF Spec

(* What a bridge is about to publish is newer than what it published of the stream, relayed    *)
(* or not, for any number of followers, losses, disconnections, and queues that are full      *)
(* (_publish_frame, _relay_frame, _flush_latest_frames).                          *)
THEOREM StreamsAlwaysGoForward == Spec => []StreamsGoForward
<1>1. WayInv => StreamsGoForward
  <2> SUFFICES ASSUME WayInv, NEW n \in Nodes, NEW i \in DOMAIN rx[n], ForMe(n, rx[n][i])
               PROVE  rx[n][i].number > published[n][<<rx[n][i].topic, Decoded(rx[n][i]).origin>>]
    BY DEF StreamsGoForward
  <2> DEFINE f == rx[n][i]
  <2>1. f \in OwnFrame /\ i \in Nat
    BY DEF WayInv, IInv, Shape
  <2> HIDE DEF f
  <2>2. f.topic \in Topics /\ f.source \in Nodes /\ f.number \in Nat
        /\ Decoded(f).origin = f.source
    BY <2>1 DEF OwnFrame, Decoded
  <2>3. OnWay(n, f.topic, f.source, 1, i, f.number)
    BY DEF OnWay, AtReceiver, Key, f
  <2>4. OnWay(n, f.topic, f.source, 0, 0, published[n][<<f.topic, f.source>>])
    BY DEF OnWay
  <2>5. published[n][<<f.topic, f.source>>] \in Nat
    BY <2>2 DEF WayInv, IInv, Shape
  <2>6. Before(0, 0, 1, i) /\ 0 \in 0..8 /\ 1 \in 0..8 /\ 0 \in Nat
    BY DEF Before
  <2>7. published[n][<<f.topic, f.source>>] < f.number
    BY <2>1, <2>2, <2>3, <2>4, <2>5, <2>6 DEF WayInv, InOrder, WayInOrder
  <2> QED
    BY <2>2, <2>5, <2>7 DEF f
<1> QED
  BY <1>1, WaysAlwaysInOrder, PTL
-----------------------------------------------------------------------------
(* As long as the messages of a stream are fewer than the numbers, none is taken twice: a    *)
(* stream's next number is behind its messages that wait for one, and ahead of its frames.  *)
FewerThanNumbers == MaxSamples < SeqModulo

MadeBounded == \A s \in Sources : made[s] <= MaxSamples

OwnUnsent == \A m \in Nodes : \A f \in pending[m] : f.sequence = Unsent => f.source = m

Numberless(o, t, i, x) == Waiting(o, t, o, i, x) \/ Untold(t, o, i, x)

AheadOf(o, t) ==
    /\ next_sequence[o][t] <= MaxSamples
    /\ <<o, t>> \in Sources => next_sequence[o][t] <= made[<<o, t>>]
    /\ \A i, x \in Nat : Numberless(o, t, i, x) => <<o, t>> \in Sources /\ next_sequence[o][t] < x

Ahead == \A o \in Nodes, t \in Topics : AheadOf(o, t)

Numbered(f) == f.sequence < next_sequence[f.source][f.topic]

AllNumbered == \A m \in Nodes : \A f \in Frames(m) : Numbered(f)

Alike(f, g) == Key(f) = Key(g) /\ f.sequence = g.sequence => f.number = g.number

AllAlike == \A m, w \in Nodes : \A f \in Frames(m), g \in Frames(w) : Alike(f, g)

NumInv == WayInv /\ MadeBounded /\ OwnUnsent /\ Ahead /\ AllNumbered /\ AllAlike

InFrames(m, f) ==
    \/ f \in pending[m] /\ f.sequence # Unsent
    \/ \E i \in DOMAIN fifo[m] : f = fifo[m][i]
    \/ f \in latest[m]
    \/ \E i \in DOMAIN rx[m] : f = rx[m][i]

LEMMA FramesAre ==
    \A m, f : /\ f \in Frames(m) <=> InFrames(m, f)
              /\ f \in Frames(m)' <=> InFrames(m, f)'
  BY DEF Frames, InFrames, Range, Unsent

LEMMA FramesTyped == Shape => \A m \in Nodes : Frames(m) \subseteq OwnFrame
<1> SUFFICES ASSUME Shape, NEW m \in Nodes, NEW f, InFrames(m, f) PROVE f \in OwnFrame
  BY FramesAre
<1>1. fifo[m] \in Seq(OwnFrame) /\ rx[m] \in Seq(OwnFrame)
  BY DEF Shape
<1> QED
  BY <1>1 DEF InFrames, Shape

(* A frame that was already there, up to where it goes, and one that takes a number.     *)
Copied(f) ==
    \E w \in Nodes : \E g \in Frames(w) :
        Key(f) = Key(g) /\ f.sequence = g.sequence /\ f.number = g.number

TakesNumber(p, q, z, f) ==
    Key(f) = <<q, p>> /\ f.sequence = next_sequence[p][q] /\ f.number = z

OnlyCopied == \A m \in Nodes : \A f : InFrames(m, f)' => Copied(f)

LEMMA CopiedAlike ==
    ASSUME AllAlike, NEW f, NEW g, Copied(f), Copied(g) PROVE Alike(f, g)
<1>1. PICK w, h : w \in Nodes /\ h \in Frames(w) /\
               Key(f) = Key(h) /\ f.sequence = h.sequence /\ f.number = h.number
  BY DEF Copied
<1>2. PICK v, k : v \in Nodes /\ k \in Frames(v) /\
               Key(g) = Key(k) /\ g.sequence = k.sequence /\ g.number = k.number
  BY DEF Copied
<1>3. Alike(h, k)
  BY <1>1, <1>2 DEF AllAlike
<1> QED
  BY <1>1, <1>2, <1>3 DEF Alike

LEMMA CopiesAlike ==
    ASSUME AllNumbered, AllAlike, UNCHANGED next_sequence, OnlyCopied
    PROVE  AllNumbered' /\ AllAlike'
<1>1. \A m \in Nodes : \A f \in Frames(m)' : Copied(f)
  BY FramesAre DEF OnlyCopied
<1>2. ASSUME NEW f, Copied(f) PROVE f.sequence < next_sequence'[f.source][f.topic]
  BY <1>2 DEF Copied, AllNumbered, Numbered, Key
<1> QED
  BY <1>1, <1>2, CopiedAlike DEF AllNumbered, AllAlike, Numbered, Alike, Key

LEMMA NewNumberAlike ==
    ASSUME Shape, Shape', AllNumbered, AllAlike, NEW p \in Nodes, NEW q \in Topics, NEW z,
           next_sequence'[p][q] = next_sequence[p][q] + 1,
           \A o \in Nodes, t \in Topics :
               <<o, t>> # <<p, q>> => next_sequence'[o][t] = next_sequence[o][t],
           \A m \in Nodes : \A f : InFrames(m, f)' => Copied(f) \/ TakesNumber(p, q, z, f)
    PROVE  AllNumbered' /\ AllAlike'
<1>1. \A m \in Nodes : \A f \in Frames(m)' : Copied(f) \/ TakesNumber(p, q, z, f)
  BY FramesAre
<1>2. \A m \in Nodes : \A f \in Frames(m)' : f \in OwnFrame
  <2> SUFFICES ASSUME NEW m \in Nodes, NEW f, InFrames(m, f)' PROVE f \in OwnFrame
    BY FramesAre
  <2>1. fifo'[m] \in Seq(OwnFrame) /\ rx'[m] \in Seq(OwnFrame)
    BY DEF Shape
  <2> QED
    BY <2>1, SMTT(30) DEF InFrames, Shape
<1>3. \A o \in Nodes, t \in Topics : /\ next_sequence[o][t] \in Nat
                                     /\ next_sequence'[o][t] \in Nat
                                     /\ next_sequence[o][t] <= next_sequence'[o][t]
  <2> SUFFICES ASSUME NEW o \in Nodes, NEW t \in Topics
               PROVE  /\ next_sequence[o][t] \in Nat
                      /\ next_sequence'[o][t] \in Nat
                      /\ next_sequence[o][t] <= next_sequence'[o][t]
    OBVIOUS
  <2>1. next_sequence[o][t] \in Nat /\ next_sequence'[o][t] \in Nat
    BY DEF Shape
  <2>2. CASE <<o, t>> # <<p, q>>
    BY <2>1, <2>2
  <2>3. CASE o = p /\ t = q
    BY <2>1, <2>3
  <2> QED
    BY <2>2, <2>3
<1>4. ASSUME NEW f \in OwnFrame, Copied(f)
      PROVE  f.sequence < next_sequence[f.source][f.topic]
  BY <1>4 DEF Copied, AllNumbered, Numbered, Key
<1>5. ASSUME NEW f \in OwnFrame, TakesNumber(p, q, z, f)
      PROVE  f.sequence < next_sequence'[f.source][f.topic]
  BY <1>3, <1>5 DEF TakesNumber, Key
<1>6. ASSUME NEW f \in OwnFrame, Copied(f)
      PROVE  f.sequence < next_sequence'[f.source][f.topic]
  <2>1. f.source \in Nodes /\ f.topic \in Topics /\ f.sequence \in Nat
    BY DEF OwnFrame
  <2> QED
    BY <1>3, <1>4, <1>6, <2>1
<1>7. ASSUME NEW f \in OwnFrame, NEW g \in OwnFrame, Copied(f), TakesNumber(p, q, z, g),
             Key(f) = Key(g)
      PROVE  f.sequence # g.sequence
  <2>1. f.source = p /\ f.topic = q /\ g.sequence = next_sequence[p][q] /\ f.sequence \in Nat
    BY <1>7 DEF TakesNumber, Key, OwnFrame
  <2> QED
    BY <1>3, <1>4, <1>7, <2>1
<1>8. ASSUME NEW f \in OwnFrame, NEW g \in OwnFrame,
             Copied(f) \/ TakesNumber(p, q, z, f), Copied(g) \/ TakesNumber(p, q, z, g)
      PROVE  Alike(f, g)
  <2>1. CASE Copied(f) /\ Copied(g)
    BY <2>1, CopiedAlike
  <2>2. CASE TakesNumber(p, q, z, f) /\ TakesNumber(p, q, z, g)
    BY <2>2 DEF TakesNumber, Alike
  <2>3. CASE Copied(f) /\ TakesNumber(p, q, z, g)
    BY <1>7, <2>3 DEF Alike
  <2>4. CASE TakesNumber(p, q, z, f) /\ Copied(g)
    BY <1>7, <2>4 DEF Alike
  <2> QED
    BY <1>8, <2>1, <2>2, <2>3, <2>4
<1> QED
  BY <1>1, <1>2, <1>5, <1>6, <1>8 DEF AllNumbered, AllAlike, Numbered, Alike, Key

LEMMA StillThere == ASSUME NEW m \in Nodes, NEW f, InFrames(m, f) PROVE Copied(f)
  BY FramesAre DEF Copied

LEMMA TakenUp ==
    ASSUME FewerThanNumbers, Shape, NEW p \in Nodes, NEW q \in Topics, NumberTaken(p, q),
           next_sequence[p][q] < MaxSamples
    PROVE  /\ next_sequence'[p][q] = next_sequence[p][q] + 1
           /\ \A o \in Nodes, t \in Topics :
                 <<o, t>> # <<p, q>> => next_sequence'[o][t] = next_sequence[o][t]
<1> DEFINE v == (next_sequence[p][q] + 1) % SeqModulo
<1>1. next_sequence[p][q] \in Nat /\ MaxSamples \in Nat /\ SeqModulo \in Nat \ {0}
  BY BoundsAssumption DEF Shape
<1>2. v = next_sequence[p][q] + 1
  BY <1>1 DEF FewerThanNumbers
<1>3. next_sequence' = [next_sequence EXCEPT ![p] = [next_sequence[p] EXCEPT ![q] = v]]
  BY DEF NumberTaken
<1> HIDE DEF v
<1>4. next_sequence'[p][q] = v
  BY <1>3 DEF Shape
<1>5. ASSUME NEW o \in Nodes, NEW t \in Topics, <<o, t>> # <<p, q>>
      PROVE  next_sequence'[o][t] = next_sequence[o][t]
  BY <1>3, <1>5 DEF Shape
<1> QED
  BY <1>2, <1>4, <1>5

LEMMA AheadStill ==
    ASSUME NEW o \in Nodes, NEW t \in Topics, AheadOf(o, t),
           next_sequence'[o][t] = next_sequence[o][t],
           <<o, t>> \in Sources => made'[<<o, t>>] = made[<<o, t>>],
           \A i, x \in Nat : Numberless(o, t, i, x)' => \E j \in Nat : Numberless(o, t, j, x)
    PROVE  AheadOf(o, t)'
  BY DEF AheadOf

(* What waits for a number was published already, and is newer than what went before.      *)
LEMMA UntoldBounds ==
    ASSUME NumInv, NEW o \in Nodes, NEW t \in Topics, NEW i \in Nat, NEW x \in Nat,
           Numberless(o, t, i, x)
    PROVE  next_sequence[o][t] < x /\ <<o, t>> \in Sources /\ x <= made[<<o, t>>]
           /\ x <= MaxSamples
<1>1. next_sequence[o][t] < x /\ <<o, t>> \in Sources
  BY DEF NumInv, Ahead, AheadOf
<1>2. made[<<o, t>>] \in Nat /\ made[<<o, t>>] <= MaxSamples /\ MaxSamples \in Nat
  BY <1>1, BoundsAssumption DEF NumInv, MadeBounded, WayInv, IInv, Shape
<1>3. PICK a \in {6, 7} : OnWay(o, t, o, a, i, x)
  <2>1. Waiting(o, t, o, i, x) => OnWay(o, t, o, 6, i, x)
    BY DEF OnWay
  <2>2. Untold(t, o, i, x) => OnWay(o, t, o, 7, i, x)
    BY DEF OnWay
  <2> QED
    BY <2>1, <2>2 DEF Numberless
<1>4. OnWay(o, t, o, 8, 0, made[<<o, t>>] + 1) /\ Before(a, i, 8, 0)
  BY <1>1 DEF OnWay, Before
<1>5. a \in 0..8 /\ 8 \in 0..8 /\ 0 \in Nat /\ made[<<o, t>>] + 1 \in Nat
  BY <1>2
<1>6. WayInOrder(o, t, o)
  BY DEF NumInv, WayInv, InOrder
<1>7. x < made[<<o, t>>] + 1
  BY <1>3, <1>4, <1>5, <1>6 DEF WayInOrder
<1> QED
  BY <1>1, <1>2, <1>7

NumSteps == MadeBounded' /\ OwnUnsent' /\ Ahead' /\ AllNumbered' /\ AllAlike'

LEMMA TransmitNumbers ==
    ASSUME FewerThanNumbers, NumInv, Shape', NEW p \in Nodes, NEW q \in Topics, Transmit(p, q)
    PROVE  NumSteps
<1> USE DEF NumInv
<1> DEFINE m == Head(subscribed[p][q])
           f == [topic |-> q, source |-> p, destination |-> Destination(p, q),
                 sequence |-> IF Latest(q) THEN Unsent ELSE next_sequence[p][q],
                 origin |-> m.origin, number |-> m.number]
           suppressed == UNCHANGED <<pending, fifo, next_sequence>>
           replaced == /\ m.origin = p /\ Latest(q) /\ UNCHANGED <<fifo, next_sequence>>
                       /\ pending' = [pending EXCEPT ![p] = ReplaceLatest(@, f)]
           queued == /\ m.origin = p /\ ~Latest(q) /\ UNCHANGED pending
                     /\ fifo' = [fifo EXCEPT ![p] = Append(@, f)]
                     /\ NumberTaken(p, q)
<1>1. Shape /\ subscribed[p][q] # <<>> /\ Sends(p, q) /\ subscribed[p][q] \in Seq(LocalMessage)
      /\ subscribed' = [subscribed EXCEPT ![p][q] = Tail(@)]
  <2>1. Shape
    BY DEF WayInv, IInv
  <2>2. subscribed[p][q] \in Seq(LocalMessage)
    BY <2>1 DEF Shape
  <2> QED
    BY <2>1, <2>2 DEF Transmit
<1>2. UNCHANGED <<made, latest, rx>>
  BY DEF Transmit
<1>3. m \in LocalMessage /\ (m.origin = p \/ Relayed(q))
  BY <1>1, Popped DEF WayInv, IInv, OwnOrRelayed
<1>4. suppressed \/ replaced \/ queued
  BY <1>3 DEF Transmit, LocalOrigin
<1>5. m.origin = p => f \in OwnFrame
  <2>1. Destination(p, q) \in Nodes \cup {"broadcast"}
    BY <1>1, DestinationType
  <2>2. Unsent \in Nat /\ next_sequence[p][q] \in Nat
    BY <1>1, BoundsAssumption DEF Unsent, Shape
  <2> HIDE DEF m
  <2> QED
    BY <1>3, <2>1, <2>2 DEF OwnFrame, LocalMessage
<1>6. /\ Key(f) = <<q, p>> /\ f.number = m.number /\ f.source = p
      /\ f.sequence = IF Latest(q) THEN Unsent ELSE next_sequence[p][q]
  BY DEF Key
<1>7. /\ \A j, y \in Nat : Untold(q, p, j, y)' => Untold(q, p, j + 1, y) /\ j >= 1
      /\ m.origin = p => Untold(q, p, 1, m.number)
      /\ \A o \in Nodes, u \in Topics : <<o, u>> # <<p, q>> =>
            \A j, y : Untold(u, o, j, y)' <=> Untold(u, o, j, y)
  BY <1>1, FirstUntold
<1>8. m.number \in Nat
  BY <1>3 DEF LocalMessage
<1> HIDE DEF f, m
<1>9. m.origin = p => /\ Numberless(p, q, 1, m.number) /\ <<p, q>> \in Sources
                      /\ next_sequence[p][q] < m.number
                      /\ m.number <= made[<<p, q>>] /\ m.number <= MaxSamples
  <2>1. 1 \in Nat
    OBVIOUS
  <2> QED
    BY <1>7, <1>8, <2>1, UntoldBounds DEF Numberless
<1>10. \A o \in Nodes, t \in Topics : AheadOf(o, t)
  BY DEF Ahead
<1>11. MadeBounded'
  BY <1>2 DEF MadeBounded
<1>12. CASE suppressed
  <2>1. OwnUnsent'
    BY <1>12 DEF OwnUnsent, Unsent
  <2>2. OnlyCopied
    BY <1>2, <1>12, StillThere DEF OnlyCopied, InFrames, Unsent
  <2>3. ASSUME NEW o \in Nodes, NEW t \in Topics PROVE AheadOf(o, t)'
    <3>1. ASSUME NEW i \in Nat, NEW x \in Nat, Numberless(o, t, i, x)'
          PROVE  \E j \in Nat : Numberless(o, t, j, x)
      <4>1. i + 1 \in Nat /\ (Waiting(o, t, o, i, x)' <=> Waiting(o, t, o, i, x))
        BY <1>12 DEF Waiting
      <4>2. Untold(t, o, i, x)' => Untold(t, o, i, x) \/ Untold(t, o, i + 1, x)
        BY <1>7
      <4> QED
        BY <3>1, <4>1, <4>2 DEF Numberless
    <3> QED
      BY <1>2, <1>10, <1>12, <3>1, AheadStill
  <2> QED
    BY <1>11, <1>12, <2>1, <2>2, <2>3, CopiesAlike DEF Ahead, NumSteps
<1>13. CASE replaced
  <2>1. f \in OwnFrame /\ ReplacedBy(p, f)
    BY <1>1, <1>5, <1>13, ReplacedOnly
  <2>2. \A w \in Nodes : \A g \in pending'[w] : g \in pending[w] \/ (w = p /\ g = f)
    BY <1>1, <1>13 DEF Shape, ReplaceLatest
  <2>3. OwnUnsent'
    BY <1>6, <2>2 DEF OwnUnsent, Unsent
  <2>4. f.sequence = Unsent
    BY <1>6, <1>13
  <2>5. OnlyCopied
    BY <1>2, <1>13, <2>2, <2>4, StillThere DEF OnlyCopied, InFrames, Unsent
  <2>6. ASSUME NEW o \in Nodes, NEW t \in Topics PROVE AheadOf(o, t)'
    <3>1. ASSUME NEW i \in Nat, NEW x \in Nat, Numberless(o, t, i, x)'
          PROVE  \E j \in Nat : Numberless(o, t, j, x)
      <4>1. i + 1 \in Nat /\ 1 \in Nat
        OBVIOUS
      <4>2. Untold(t, o, i, x)' => Untold(t, o, i, x) \/ Untold(t, o, i + 1, x)
        BY <1>7
      <4>3. CASE Waiting(o, t, o, i, x)'
        <5>1. \/ Waiting(o, t, o, i, x)
              \/ o = p /\ Key(f) = <<t, o>> /\ x = f.number
          BY <2>1, <4>3 DEF ReplacedBy
        <5>2. Key(f) = <<t, o>> => t = q
          BY <1>6
        <5> QED
          BY <1>6, <1>9, <1>13, <4>1, <5>1, <5>2 DEF Numberless
      <4> QED
        BY <3>1, <4>1, <4>2, <4>3 DEF Numberless
    <3> QED
      BY <1>2, <1>10, <1>13, <3>1, AheadStill
  <2> QED
    BY <1>11, <1>13, <2>3, <2>5, <2>6, CopiesAlike DEF Ahead, NumSteps
<1>14. CASE queued
  <2>1. OwnUnsent'
    BY <1>14 DEF OwnUnsent, Unsent
  <2>2. next_sequence[p][q] \in Nat /\ MaxSamples \in Nat
    BY <1>1, BoundsAssumption DEF Shape
  <2>3. next_sequence[p][q] < MaxSamples
    BY <1>8, <1>9, <1>14, <2>2
  <2>4. /\ next_sequence'[p][q] = next_sequence[p][q] + 1
        /\ \A o \in Nodes, t \in Topics :
              <<o, t>> # <<p, q>> => next_sequence'[o][t] = next_sequence[o][t]
    BY <1>1, <1>14, <2>3, TakenUp
  <2>5. ASSUME NEW w \in Nodes, NEW g, InFrames(w, g)'
        PROVE  Copied(g) \/ TakesNumber(p, q, m.number, g)
    <3>1. \A i \in DOMAIN fifo'[w] : fifo'[w][i] = f \/ \E j \in DOMAIN fifo[w] :
                                                            fifo'[w][i] = fifo[w][j]
      <4>1. CASE w # p
        BY <1>1, <1>14, <4>1 DEF Shape
      <4>2. CASE w = p
        <5>1. fifo[p] \in Seq(OwnFrame) /\ fifo'[p] = Append(fifo[p], f)
          BY <1>1, <1>14 DEF Shape
        <5> QED
          BY <4>2, <5>1
      <4> QED
        BY <4>1, <4>2
    <3>2. InFrames(w, g) \/ g = f
      BY <1>2, <1>14, <2>5, <3>1 DEF InFrames, Unsent
    <3>3. TakesNumber(p, q, m.number, f)
      BY <1>6, <1>14 DEF TakesNumber
    <3> QED
      BY <3>2, <3>3, StillThere
  <2>6. AllNumbered' /\ AllAlike'
    BY <1>1, <2>4, <2>5, NewNumberAlike
  <2>7. ASSUME NEW o \in Nodes, NEW t \in Topics PROVE AheadOf(o, t)'
    <3>1. ASSUME NEW i, NEW x PROVE Waiting(o, t, o, i, x)' <=> Waiting(o, t, o, i, x)
      BY <1>14 DEF Waiting
    <3>2. CASE <<o, t>> # <<p, q>>
      <4>1. \A i, x \in Nat : Numberless(o, t, i, x)' => \E j \in Nat : Numberless(o, t, j, x)
        BY <1>7, <3>1, <3>2 DEF Numberless
      <4> QED
        BY <1>2, <1>10, <2>4, <3>2, <4>1, AheadStill
    <3>3. CASE o = p /\ t = q
      <4>1. made[<<p, q>>] \in Nat /\ <<p, q>> \in Sources /\ made[<<p, q>>] <= MaxSamples
        BY <1>1, <1>9, <1>14 DEF Shape, MadeBounded
      <4>2. /\ next_sequence'[o][t] <= MaxSamples /\ next_sequence'[o][t] <= made'[<<o, t>>]
            /\ next_sequence'[o][t] <= m.number
        BY <1>2, <1>8, <1>9, <1>14, <2>2, <2>4, <3>3, <4>1
      <4>3. ASSUME NEW i \in Nat, NEW x \in Nat, Numberless(o, t, i, x)'
            PROVE  next_sequence'[o][t] < x
        <5>1. \A g \in pending[p] : g.topic # q
          BY <1>14 DEF WayInv, Routed
        <5>2. ~Waiting(o, t, o, i, x)
          BY <3>3, <5>1 DEF Waiting, Key
        <5>3. Untold(q, p, i + 1, x) /\ i >= 1
          BY <1>7, <3>1, <3>3, <4>3, <5>2 DEF Numberless
        <5>4. OnWay(p, q, p, 7, i + 1, x) /\ OnWay(p, q, p, 7, 1, m.number)
          BY <1>7, <1>14, <5>3 DEF OnWay
        <5>5. Before(7, 1, 7, i + 1) /\ 7 \in 0..8 /\ 1 \in Nat /\ i + 1 \in Nat
          BY <5>3 DEF Before
        <5>6. WayInOrder(p, q, p)
          BY DEF WayInv, InOrder
        <5>7. m.number < x
          BY <1>8, <5>4, <5>5, <5>6 DEF WayInOrder
        <5>8. next_sequence'[o][t] \in Nat
          BY <2>2, <2>4, <3>3
        <5> QED
          BY <1>8, <4>2, <5>7, <5>8
      <4> QED
        BY <3>3, <4>1, <4>2, <4>3 DEF AheadOf
    <3> QED
      BY <3>2, <3>3
  <2> QED
    BY <1>11, <2>1, <2>6, <2>7 DEF Ahead, NumSteps
<1> QED
  BY <1>4, <1>12, <1>13, <1>14

LEMMA PublishNumbers ==
    ASSUME FewerThanNumbers, NumInv, NEW p \in Nodes, NEW q \in Topics, Publish(p, q)
    PROVE  NumSteps
<1> USE DEF NumInv
<1> DEFINE m == [origin |-> p, number |-> made'[<<p, q>>]]
<1>1. Shape
  BY DEF WayInv, IInv
<1>2. /\ <<p, q>> \in Sources /\ made[<<p, q>>] < MaxSamples
      /\ made' = [made EXCEPT ![<<p, q>>] = @ + 1]
      /\ Heard(p, q, m)
  BY DEF Publish
<1>3. UNCHANGED <<next_sequence, pending, fifo, latest, rx>>
  BY DEF Publish, serial
<1>4. /\ made[<<p, q>>] \in Nat /\ MaxSamples \in Nat
      /\ made'[<<p, q>>] = made[<<p, q>>] + 1
      /\ \A s \in Sources : s # <<p, q>> => made'[s] = made[s]
  BY <1>1, <1>2, BoundsAssumption DEF Shape
<1>5. m \in LocalMessage /\ m.number = made[<<p, q>>] + 1
  BY <1>4 DEF LocalMessage
<1> HIDE DEF m
<1>6. MadeBounded'
  BY <1>2, <1>4 DEF MadeBounded
<1>7. OwnUnsent'
  BY <1>3 DEF OwnUnsent, Unsent
<1>8. OnlyCopied
  BY <1>3, StillThere DEF OnlyCopied, InFrames, Unsent
<1>9. \A o \in Nodes, t \in Topics : \A i, x : Waiting(o, t, o, i, x)' <=> Waiting(o, t, o, i, x)
  BY <1>3 DEF Waiting
<1>10. ASSUME NEW o \in Nodes, NEW t \in Topics PROVE AheadOf(o, t)'
  <2>1. AheadOf(o, t)
    BY DEF Ahead
  <2>2. CASE <<o, t>> # <<p, q>>
    <3>1. \A j, y : Untold(t, o, j, y)' <=> Untold(t, o, j, y)
      BY <1>1, <1>2, <1>5, <2>2, HeardLast
    <3>2. \A i, x \in Nat : Numberless(o, t, i, x)' => \E j \in Nat : Numberless(o, t, j, x)
      BY <1>9, <3>1 DEF Numberless
    <3> QED
      BY <1>3, <1>4, <2>1, <2>2, <3>2, AheadStill
  <2>3. CASE o = p /\ t = q
    <3>1. PICK c \in {0, 1}, e \in Nat : HeardAt(q, p, m, c, e)
      BY <1>1, <1>2, <1>5, HeardLast
    <3>2. /\ next_sequence[p][q] \in Nat /\ next_sequence[p][q] <= MaxSamples
          /\ next_sequence[p][q] <= made[<<p, q>>]
      BY <1>1, <1>2, <2>1, <2>3 DEF Shape, AheadOf
    <3>3. ASSUME NEW i \in Nat, NEW x \in Nat, Numberless(o, t, i, x)'
          PROVE  next_sequence[p][q] < x
      <4>1. CASE Untold(q, p, i, x)'
        <5>1. Untold(q, p, i + c, x) \/ x = m.number
          BY <3>1, <4>1 DEF HeardAt
        <5>2. i + c \in Nat
          BY <3>1
        <5>3. Untold(q, p, i + c, x) => next_sequence[p][q] < x
          BY <2>1, <2>3, <5>2 DEF AheadOf, Numberless
        <5> QED
          BY <1>4, <1>5, <3>2, <5>1, <5>3
      <4>2. CASE Waiting(p, q, p, i, x)'
        BY <1>9, <2>1, <2>3, <4>2 DEF AheadOf, Numberless
      <4> QED
        BY <2>3, <3>3, <4>1, <4>2 DEF Numberless
    <3>4. next_sequence[p][q] <= made'[<<p, q>>]
      BY <1>4, <3>2
    <3> QED
      BY <1>2, <1>3, <2>3, <3>2, <3>3, <3>4 DEF AheadOf
  <2> QED
    BY <2>2, <2>3
<1>11. AllNumbered' /\ AllAlike'
  BY <1>3, <1>8, CopiesAlike
<1> QED
  BY <1>6, <1>7, <1>10, <1>11 DEF Ahead, NumSteps

LEMMA SerialNumbers ==
    ASSUME NumInv, NEW p \in Nodes, Write(p) \/ Disconnect(p) \/ Reconnect(p) \/ UNCHANGED vars
    PROVE  NumSteps
<1> USE DEF NumInv
<1>1. Shape /\ UNCHANGED <<made, subscribed, next_sequence, pending>>
  BY DEF WayInv, IInv, Write, Disconnect, Reconnect, vars, ros, serial
<1>2. MadeBounded' /\ OwnUnsent'
  BY <1>1 DEF MadeBounded, OwnUnsent, Unsent
<1>3. ASSUME NEW o \in Nodes, NEW t \in Topics PROVE AheadOf(o, t)'
  <2>1. AheadOf(o, t)
    BY DEF Ahead
  <2>2. \A i, x : Numberless(o, t, i, x)' <=> Numberless(o, t, i, x)
    BY <1>1 DEF Numberless, Waiting, Untold
  <2> QED
    BY <1>1, <2>1, <2>2, AheadStill
<1>4. CASE Disconnect(p) \/ Reconnect(p) \/ UNCHANGED vars
  <2>1. \A w \in Nodes : /\ fifo'[w] = fifo[w] \/ fifo'[w] = <<>>
                         /\ latest'[w] = latest[w] \/ latest'[w] = {}
                         /\ rx'[w] = rx[w]
    BY <1>1, <1>4 DEF Disconnect, Reconnect, Shape, vars, serial
  <2>2. OnlyCopied
    BY <1>1, <2>1, StillThere DEF OnlyCopied, InFrames, Unsent
  <2> QED
    BY <1>1, <1>2, <1>3, <2>2, CopiesAlike DEF Ahead, NumSteps
<1>5. CASE Write(p)
  <2>1. PICK f : OnAir(p, f) /\ InFrames(p, f)
    <3>1. CASE fifo[p] # <<>>
      <4>1. fifo[p] \in Seq(OwnFrame)
        BY <1>1 DEF Shape
      <4>2. Head(fifo[p]) = fifo[p][1] /\ 1 \in DOMAIN fifo[p]
        BY <3>1, <4>1
      <4> QED
        BY <1>5, <3>1, <4>2 DEF Write, InFrames
    <3>2. CASE fifo[p] = <<>>
      BY <1>5, <3>2 DEF Write, InFrames
    <3> QED
      BY <3>1, <3>2
  <2>2. ASSUME NEW w \in Nodes, NEW i \in DOMAIN rx'[w]
        PROVE  rx'[w][i] = f \/ \E j \in DOMAIN rx[w] : rx'[w][i] = rx[w][j]
    <3>1. rx'[w] = rx[w] \/ rx'[w] = Append(rx[w], f)
      BY <2>1 DEF OnAir
    <3>2. rx[w] \in Seq(OwnFrame)
      BY <1>1 DEF Shape
    <3> QED
      BY <2>2, <3>1, <3>2
  <2>3. ASSUME NEW w \in Nodes, NEW i \in DOMAIN fifo'[w]
        PROVE  \E j \in DOMAIN fifo[w] : fifo'[w][i] = fifo[w][j]
    <3>1. \/ fifo'[w] = fifo[w]
          \/ fifo[w] # <<>> /\ fifo'[w] = Tail(fifo[w])
      BY <1>1, <1>5 DEF Write, Shape
    <3>2. fifo[w] \in Seq(OwnFrame)
      BY <1>1 DEF Shape
    <3>3. CASE fifo[w] # <<>> /\ fifo'[w] = Tail(fifo[w])
      BY <2>3, <3>2, <3>3, Popped
    <3> QED
      BY <2>3, <3>1, <3>3
  <2>4. \A w \in Nodes : latest'[w] \subseteq latest[w]
    BY <1>1, <1>5 DEF Write, Shape
  <2>5. ASSUME NEW w \in Nodes, NEW g, InFrames(w, g)' PROVE InFrames(w, g) \/ g = f
    BY <1>1, <2>2, <2>3, <2>4, <2>5 DEF InFrames, Unsent
  <2>6. OnlyCopied
    BY <2>1, <2>5, StillThere DEF OnlyCopied
  <2> QED
    BY <1>1, <1>2, <1>3, <2>6, CopiesAlike DEF Ahead, NumSteps
<1> QED
  BY <1>4, <1>5

LEMMA FlushNumbers ==
    ASSUME FewerThanNumbers, NumInv, Shape', NEW p \in Nodes, Flush(p)
    PROVE  NumSteps
<1> USE DEF NumInv
<1>1. PICK ready \in SUBSET pending[p] \ {{}} :
          LET own == {f \in ready : f.sequence = Unsent}
              sent == {IF f \in own THEN [f EXCEPT !.sequence = next_sequence[p][f.topic]]
                       ELSE f : f \in ready} IN
          /\ pending' = [pending EXCEPT ![p] = @ \ ready]
          /\ \/ /\ connected[p]
                /\ latest' = [latest EXCEPT ![p] =
                                 {g \in @ : \A f \in ready : Key(g) # Key(f)} \cup sent]
                /\ \/ own = {} /\ UNCHANGED next_sequence
                   \/ \E f \in own : NumberTaken(p, f.topic)
             \/ ~connected[p] /\ UNCHANGED <<latest, next_sequence>>
          /\ UNCHANGED <<ros, fifo, connected, rx, published, drops>>
  BY DEF Flush, TakenOut
<1> DEFINE own == {f \in ready : f.sequence = Unsent}
           numbered(f) == IF f \in own
                          THEN [f EXCEPT !.sequence = next_sequence[p][f.topic]] ELSE f
           sent == {numbered(f) : f \in ready}
<1>2. Shape /\ Routed
  BY DEF WayInv, IInv
<1>3. ready \subseteq pending[p] /\ pending[p] \subseteq OwnFrame
  BY <1>2 DEF Shape
<1>4. ASSUME NEW f \in own
      PROVE  LET g == [f EXCEPT !.sequence = next_sequence[p][f.topic]]
             IN  TakesNumber(p, f.topic, f.number, g)
  <2>1. f \in OwnFrame /\ f.source = p
    BY <1>3, <1>4 DEF OwnUnsent
  <2> QED
    BY <2>1 DEF TakesNumber, OwnFrame, Key
<1>5. \A f \in ready : \/ f \in own /\ TakesNumber(p, f.topic, f.number, numbered(f))
                       \/ f \notin own /\ numbered(f) = f
  BY <1>4
<1>6. \A g \in sent : \/ \E f \in own : TakesNumber(p, f.topic, f.number, g)
                      \/ g \in ready \ own
  <2> HIDE DEF numbered, own
  <2> QED
    BY <1>5
<1>7. /\ pending' = [pending EXCEPT ![p] = @ \ ready]
      /\ \/ /\ latest' = [latest EXCEPT ![p] =
                             {g \in @ : \A f \in ready : Key(g) # Key(f)} \cup sent]
            /\ \/ own = {} /\ UNCHANGED next_sequence
               \/ \E f \in own : NumberTaken(p, f.topic)
         \/ UNCHANGED <<latest, next_sequence>>
      /\ UNCHANGED <<made, subscribed, fifo, rx>>
  BY <1>1 DEF ros
<1>8. \A f \in own : /\ f \in ready /\ f \in OwnFrame /\ f.source = p /\ f.topic = "local_state"
                     /\ f.topic \in Topics /\ f.number \in Nat
  <2> SUFFICES ASSUME NEW f \in own
               PROVE  /\ f \in ready /\ f \in OwnFrame /\ f.source = p /\ f.topic = "local_state"
                      /\ f.topic \in Topics /\ f.number \in Nat
    OBVIOUS
  <2>1. f \in OwnFrame /\ f.source = p /\ f \in pending[p]
    BY <1>3 DEF OwnUnsent
  <2>2. Latest(f.topic)
    BY <1>2, <2>1 DEF Routed
  <2> QED
    BY <2>1, <2>2 DEF OwnFrame, Latest
<1>9. OneEach(pending[p])
  BY <1>2 DEF Routed
<1>10. \A f, g \in own : f = g
  BY <1>3, <1>8, <1>9 DEF OneEach, Key
<1> HIDE DEF sent, numbered
<1>11. /\ pending'[p] = pending[p] \ ready
       /\ latest'[p] \subseteq latest[p] \cup sent
       /\ UNCHANGED latest \/ own = {} \/ \E f \in own : NumberTaken(p, f.topic)
       /\ \A w \in Nodes : w # p => pending'[w] = pending[w] /\ latest'[w] = latest[w]
  BY <1>2, <1>7 DEF Shape
<1>12. \A o \in Nodes, t \in Topics : \A i, x :
          Numberless(o, t, i, x)' =>
              /\ Numberless(o, t, i, x)
              /\ Untold(t, o, i, x) \/ \E f \in pending'[o] : Key(f) = <<t, o>> /\ x = f.number
  BY <1>7, <1>11 DEF Numberless, Waiting, Untold, Key
<1>13. MadeBounded' /\ OwnUnsent'
  BY <1>7, <1>11 DEF MadeBounded, OwnUnsent, Unsent
<1>14. CASE UNCHANGED next_sequence /\ (UNCHANGED latest \/ own = {})
  <2>1. \A w \in Nodes : \A g : InFrames(w, g)' =>
            InFrames(w, g) \/ (w = p /\ g \in sent /\ own = {})
    BY <1>7, <1>11, <1>14 DEF InFrames, Unsent
  <2>2. own = {} => \A g \in sent : InFrames(p, g)
    BY <1>3, <1>6 DEF InFrames
  <2>3. OnlyCopied
    BY <2>1, <2>2, StillThere DEF OnlyCopied
  <2>4. \A o \in Nodes, t \in Topics : AheadOf(o, t)'
    BY <1>7, <1>12, <1>14, AheadStill DEF Ahead
  <2> QED
    BY <1>13, <1>14, <2>3, <2>4, CopiesAlike DEF Ahead, NumSteps
<1>15. ASSUME NEW f \in own, NumberTaken(p, f.topic) PROVE NumSteps
  <2> DEFINE q == f.topic
  <2>1. q \in Topics /\ f.number \in Nat /\ f \in pending[p] /\ Key(f) = <<q, p>>
    BY <1>3, <1>8 DEF Key
  <2>2. Waiting(p, q, p, 0, f.number)
    BY <2>1 DEF Waiting
  <2>3. /\ next_sequence[p][q] < f.number /\ <<p, q>> \in Sources
        /\ f.number <= made[<<p, q>>] /\ f.number <= MaxSamples
    <3>1. 0 \in Nat
      OBVIOUS
    <3> QED
      BY <2>1, <2>2, <3>1, UntoldBounds DEF Numberless
  <2>4. next_sequence[p][q] \in Nat /\ MaxSamples \in Nat /\ made[<<p, q>>] \in Nat
    BY <1>2, <2>1, <2>3, BoundsAssumption DEF Shape
  <2> HIDE DEF q
  <2>5. /\ next_sequence'[p][q] = next_sequence[p][q] + 1
        /\ \A o \in Nodes, t \in Topics :
              <<o, t>> # <<p, q>> => next_sequence'[o][t] = next_sequence[o][t]
    BY <1>2, <1>15, <2>1, <2>3, <2>4, TakenUp DEF q
  <2>6. ASSUME NEW w \in Nodes, NEW g, InFrames(w, g)'
        PROVE  Copied(g) \/ TakesNumber(p, q, f.number, g)
    <3>1. InFrames(w, g) \/ (w = p /\ g \in sent)
      BY <1>7, <1>11, <2>6 DEF InFrames, Unsent
    <3>2. ASSUME g \in sent PROVE InFrames(p, g) \/ TakesNumber(p, q, f.number, g)
      <4>1. g \in ready \ own => InFrames(p, g)
        BY <1>3 DEF InFrames
      <4> QED
        BY <1>6, <1>10, <3>2, <4>1 DEF q
    <3> QED
      BY <3>1, <3>2, StillThere
  <2>7. AllNumbered' /\ AllAlike'
    BY <1>2, <2>1, <2>5, <2>6, NewNumberAlike
  <2>8. ASSUME NEW o \in Nodes, NEW t \in Topics PROVE AheadOf(o, t)'
    <3>1. AheadOf(o, t)
      BY DEF Ahead
    <3>2. CASE <<o, t>> # <<p, q>>
      BY <1>7, <1>12, <2>5, <3>1, <3>2, AheadStill
    <3>3. CASE o = p /\ t = q
      <4>1. ASSUME NEW i \in Nat, NEW x \in Nat, Numberless(o, t, i, x)'
            PROVE  next_sequence'[o][t] < x
        <5>1. ~\E g \in pending'[p] : Key(g) = <<q, p>>
          BY <1>8, <1>9, <1>11, <2>1 DEF OneEach
        <5>2. Untold(q, p, i, x)
          BY <1>12, <3>3, <4>1, <5>1
        <5>3. OnWay(p, q, p, 6, 0, f.number) /\ OnWay(p, q, p, 7, i, x)
          BY <2>2, <5>2 DEF OnWay
        <5>4. Before(6, 0, 7, i) /\ 6 \in 0..8 /\ 7 \in 0..8 /\ 0 \in Nat
          BY DEF Before
        <5>5. WayInOrder(p, q, p)
          BY <2>1 DEF WayInv, InOrder
        <5>6. f.number < x
          BY <2>1, <5>3, <5>4, <5>5 DEF WayInOrder
        <5> QED
          BY <2>1, <2>3, <2>4, <2>5, <3>3, <5>6
      <4>2. /\ next_sequence'[o][t] <= MaxSamples /\ next_sequence'[o][t] <= made'[<<o, t>>]
        BY <1>7, <2>1, <2>3, <2>4, <2>5, <3>3
      <4> QED
        BY <2>3, <3>3, <4>1, <4>2 DEF AheadOf
    <3> QED
      BY <3>2, <3>3
  <2> QED
    BY <1>13, <2>7, <2>8 DEF Ahead, NumSteps
<1> QED
  BY <1>7, <1>14, <1>15

LEMMA ProcessRxNumbers ==
    ASSUME FewerThanNumbers, NumInv, NEW p \in Nodes, ProcessRx(p)
    PROVE  NumSteps
<1> USE DEF NumInv
<1> DEFINE f == Head(rx[p])
<1>1. Shape /\ Routed
  BY DEF WayInv, IInv
<1>2. rx[p] # <<>> /\ rx' = [rx EXCEPT ![p] = Tail(@)] /\ rx[p] \in Seq(OwnFrame)
  BY <1>1 DEF ProcessRx, Shape
<1>3. f \in OwnFrame /\ InFrames(p, f)
  BY <1>2, Popped DEF InFrames
<1>4. UNCHANGED <<made, next_sequence, latest>>
  BY DEF ProcessRx
<1>5. UNCHANGED <<pending, fifo>> \/ (ShouldRelay(p, f) /\ Relay(p, f))
  BY DEF ProcessRx
<1>6. Decoded(f).origin = f.source /\ Decoded(f) \in LocalMessage /\ f.topic \in Topics
  BY <1>3 DEF Decoded, OwnFrame, LocalMessage
<1>7. UNCHANGED subscribed \/ (f.source # p /\ Heard(p, f.topic, Decoded(f)))
  BY DEF ProcessRx, ForMe
<1> HIDE DEF f
<1> DEFINE copy == [f EXCEPT !.destination = "broadcast"]
<1>8. /\ copy.topic = f.topic /\ copy.source = f.source /\ copy.sequence = f.sequence
      /\ copy.number = f.number /\ copy \in OwnFrame
  BY <1>3 DEF OwnFrame
<1>9. /\ UNCHANGED pending \/ pending' = [pending EXCEPT ![p] = ReplaceLatest(@, copy)]
      /\ UNCHANGED fifo \/ fifo' = [fifo EXCEPT ![p] = Append(@, copy)]
      /\ UNCHANGED <<pending, fifo>> \/ ShouldRelay(p, f)
  BY <1>5 DEF Relay
<1> HIDE DEF copy
<1>10. Copied(copy)
  BY <1>3, <1>8, FramesAre DEF Copied, Key
<1>11. f.sequence # Unsent
  <2>1. f.sequence < next_sequence[f.source][f.topic]
    BY <1>3, FramesAre DEF AllNumbered, Numbered
  <2>2. next_sequence[f.source][f.topic] <= MaxSamples
    BY <1>3 DEF OwnFrame, Ahead, AheadOf
  <2>3. next_sequence[f.source][f.topic] \in Nat /\ f.sequence \in Nat
    BY <1>1, <1>3 DEF OwnFrame, Shape
  <2> QED
    BY <2>1, <2>2, <2>3, BoundsAssumption DEF FewerThanNumbers, Unsent
<1>12. \A w \in Nodes : \A g \in pending'[w] :
          g \in pending[w] \/ (w = p /\ g = copy /\ ShouldRelay(p, f))
  BY <1>1, <1>9 DEF Shape, ReplaceLatest
<1>13. MadeBounded'
  BY <1>4 DEF MadeBounded
<1>14. OwnUnsent'
  BY <1>8, <1>11, <1>12 DEF OwnUnsent, Unsent
<1>15. ASSUME NEW w \in Nodes, NEW i \in DOMAIN rx'[w]
       PROVE  \E j \in DOMAIN rx[w] : rx'[w][i] = rx[w][j]
  <2>1. CASE w = p
    <3>1. rx'[w] = Tail(rx[w])
      BY <1>1, <1>2, <2>1 DEF Shape
    <3> QED
      BY <1>2, <1>15, <2>1, <3>1, Popped
  <2>2. CASE w # p
    BY <1>1, <1>2, <1>15, <2>2 DEF Shape
  <2> QED
    BY <2>1, <2>2
<1>16. ASSUME NEW w \in Nodes, NEW i \in DOMAIN fifo'[w]
       PROVE  fifo'[w][i] = copy \/ \E j \in DOMAIN fifo[w] : fifo'[w][i] = fifo[w][j]
  <2>1. fifo'[w] = fifo[w] \/ fifo'[w] = Append(fifo[w], copy)
    BY <1>1, <1>9 DEF Shape
  <2>2. fifo[w] \in Seq(OwnFrame)
    BY <1>1 DEF Shape
  <2> QED
    BY <1>16, <2>1, <2>2
<1>17. ASSUME NEW w \in Nodes, NEW g, InFrames(w, g)' PROVE InFrames(w, g) \/ g = copy
  BY <1>4, <1>12, <1>15, <1>16, <1>17 DEF InFrames, Unsent
<1>18. AllNumbered' /\ AllAlike'
  <2>1. OnlyCopied
    BY <1>10, <1>17, StillThere DEF OnlyCopied
  <2> QED
    BY <1>4, <2>1, CopiesAlike
<1>19. ASSUME NEW o \in Nodes, NEW t \in Topics PROVE AheadOf(o, t)'
  <2>1. AheadOf(o, t)
    BY DEF Ahead
  <2>2. ASSUME NEW i \in Nat, NEW x \in Nat, Waiting(o, t, o, i, x)' PROVE Waiting(o, t, o, i, x)
    <3>1. ShouldRelay(p, f) => f.source # p
      BY RolesAssumption DEF ShouldRelay
    <3>2. Key(copy) = <<t, o>> => f.source = o
      BY <1>8 DEF Key
    <3> QED
      BY <1>12, <2>2, <3>1, <3>2 DEF Waiting, Key
  <2>3. ASSUME NEW i \in Nat, NEW x \in Nat, Untold(t, o, i, x)'
        PROVE  \E j \in Nat : Untold(t, o, j, x)
    <3>1. CASE UNCHANGED subscribed
      BY <2>3, <3>1 DEF Untold
    <3>2. CASE f.source # p /\ Heard(p, f.topic, Decoded(f)) /\ o = p /\ f.topic = t
      <4>1. PICK c \in {0, 1}, e \in Nat : HeardAt(t, p, Decoded(f), c, e)
        BY <1>1, <1>6, <3>2, HeardLast
      <4>2. Untold(t, o, i + c, x) /\ i + c \in Nat
        BY <1>6, <2>3, <3>2, <4>1 DEF HeardAt
      <4> QED
        BY <4>2
    <3>3. CASE f.source # p /\ Heard(p, f.topic, Decoded(f)) /\ ~(o = p /\ f.topic = t)
      <4>1. Untold(t, o, i, x)' <=> Untold(t, o, i, x)
        BY <1>1, <1>6, <3>3, HeardLast
      <4> QED
        BY <2>3, <4>1
    <3> QED
      BY <1>7, <3>1, <3>2, <3>3
  <2>4. \A i, x \in Nat : Numberless(o, t, i, x)' => \E j \in Nat : Numberless(o, t, j, x)
    BY <2>2, <2>3 DEF Numberless
  <2> QED
    BY <1>4, <2>1, <2>4, AheadStill
<1> QED
  BY <1>13, <1>14, <1>18, <1>19 DEF Ahead, NumSteps
-----------------------------------------------------------------------------
LEMMA InitNumInv == Init => NumInv
<1> SUFFICES ASSUME Init PROVE NumInv
  OBVIOUS
<1>1. MaxSamples \in Nat
  BY BoundsAssumption
<1>2. MadeBounded /\ OwnUnsent
  BY <1>1 DEF Init, MadeBounded, OwnUnsent
<1>3. \A m \in Nodes : \A f : ~InFrames(m, f)
  BY DEF Init, InFrames
<1>4. AllNumbered /\ AllAlike
  BY <1>3, FramesAre DEF AllNumbered, AllAlike
<1>5. \A o \in Nodes, t \in Topics : \A i, x : ~Numberless(o, t, i, x)
  BY DEF Init, Numberless, Waiting, Untold
<1>6. \A o \in Nodes, t \in Topics : AheadOf(o, t)
  BY <1>1, <1>5 DEF Init, AheadOf
<1> QED
  BY <1>2, <1>4, <1>6, InitWayInv DEF NumInv, Ahead

LEMMA NextNumInv == FewerThanNumbers /\ NumInv /\ [Next]_vars => NumInv'
<1> SUFFICES ASSUME FewerThanNumbers, NumInv, [Next]_vars PROVE NumInv'
  OBVIOUS
<1>1. WayInv' /\ Shape'
  BY NextWayInv DEF NumInv, WayInv, IInv
<1>2. NumSteps
  <2>1. CASE \E n \in Nodes, t \in Topics : Publish(n, t) \/ Transmit(n, t)
    BY <1>1, <2>1, PublishNumbers, TransmitNumbers
  <2>2. CASE \E n \in Nodes : \/ Flush(n) \/ Write(n) \/ Disconnect(n) \/ Reconnect(n)
                              \/ ProcessRx(n)
    BY <1>1, <2>2, FlushNumbers, SerialNumbers, ProcessRxNumbers
  <2>3. CASE UNCHANGED vars
    <3>1. "leader" \in Nodes
      BY DEF Nodes
    <3> QED
      BY <2>3, <3>1, SerialNumbers
  <2> QED
    BY <2>1, <2>2, <2>3 DEF Next
<1> QED
  BY <1>1, <1>2 DEF NumInv, NumSteps

(* A number stands for one message of its source and topic as long as the numbers last,    *)
(* for any number of followers, over refused sends, replacements, losses and relays         *)
(* (_send_payload, which counts up only what was accepted, and _relay_frame).          *)
THEOREM NumbersAlwaysIdentify == FewerThanNumbers /\ Spec => []NumbersIdentify
<1>1. ASSUME NumInv PROVE NumbersIdentify
  <2>1. Shape
    BY <1>1 DEF NumInv, WayInv, IInv
  <2>2. ASSUME NEW m \in Nodes, NEW w \in Nodes, NEW f \in Frames(m), NEW g \in Frames(w),
               Key(f) = Key(g), f.sequence = g.sequence
        PROVE  f.number = g.number /\ f.origin = g.origin
    <3>1. f \in OwnFrame /\ g \in OwnFrame
      BY <2>1, FramesTyped
    <3>2. f.origin = f.source /\ g.origin = g.source /\ f.source = g.source
      BY <2>2, <3>1 DEF OwnFrame, Key
    <3> QED
      BY <1>1, <2>2, <3>2 DEF NumInv, AllAlike, Alike
  <2> QED
    BY <2>2 DEF NumbersIdentify
<1>2. FewerThanNumbers /\ Spec => []NumInv
  <2> SUFFICES ASSUME FewerThanNumbers PROVE Spec => []NumInv
    OBVIOUS
  <2>1. NumInv /\ [Next]_vars => NumInv'
    BY NextNumInv
  <2> QED
    BY <2>1, InitNumInv, PTL DEF Spec
<1> QED
  BY <1>1, <1>2, PTL
=============================================================================
