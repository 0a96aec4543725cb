-------------------------- MODULE SerialTransportProofs --------------------------
(***************************************************************************)
(* The safety of the serial transport for any queue size, any number of      *)
(* streams, frames and connections, and that its commands implement          *)
(* FrameChannel.  The inductive invariant says where the worker and the      *)
(* node's thread are when the port, the queues and the events have a value;  *)
(* the rest of it counts, orders and dates the frames.                      *)
(***************************************************************************)
EXTENDS SerialTransport, SequenceTheorems, FiniteSetTheorems, TLAPS

(* The worker's places where it believes in a connection, and where it has none. *)
Online  == {"take", "take_latest", "write", "read"}
Offline == {"open", "announce", "discard", "discard_latest", "wait", "done"}

(* What the two threads know at each place.  A connection is missing where the     *)
(* worker believes in one only after stop() has taken it away.                 *)
Places ==
    /\ hand # <<>> <=> pc = "write"
    /\ held # <<>> <=> main = "storing"
    /\ stopping <=> main \in {"joining", "clearing", "stopped"}
    /\ connected => connections >= 1
    /\ pc = "announce" => connections < MaxSessions
    /\ pc \in Offline => ~connected
    /\ pc \in Online \cup {"close", "clear"} => connected \/ stopping
    /\ pc = "announce" \/ (pc \in Online \cup {"loop"} /\ connected) => device \/ stopping
    /\ pc \in {"close_exit", "clear_exit", "done"} => stopping
    /\ pc \in {"clear_exit", "done"} => ~device

Base == TypeOK /\ Places

LEMMA NonEmpty == \A x : <<x>> # <<>> /\ Len(<<x>>) = 1 /\ <<x>>[1] = x
    OBVIOUS

LEMMA QueueTail ==
    ASSUME NEW S, NEW s \in Seq(S), s # <<>>
    PROVE  /\ Head(s) = s[1] /\ Head(s) \in S /\ Tail(s) \in Seq(S)
           /\ Len(s) \in Nat /\ Len(s) >= 1 /\ Len(Tail(s)) = Len(s) - 1
           /\ \A i \in 1..(Len(s) - 1) : Tail(s)[i] = s[i + 1]
    BY HeadTailProperties, EmptySeq, LenProperties

(* A frame that leaves the dictionary.                                        *)
LEMMA Removed ==
    ASSUME NEW S, NEW s \in Seq(S), NEW k \in DOMAIN s
    PROVE  /\ RemoveAt(s, k) \in Seq(S) /\ k \in 1..Len(s) /\ Len(s) \in Nat
           /\ Len(RemoveAt(s, k)) = Len(s) - 1
           /\ \A i \in 1..(Len(s) - 1) :
                 RemoveAt(s, k)[i] = IF i < k THEN s[i] ELSE s[i + 1]
<1> DEFINE before == SubSeq(s, 1, k - 1)
<1> DEFINE after == SubSeq(s, k + 1, Len(s))
<1>1. k \in 1..Len(s) /\ Len(s) \in Nat /\ \A i \in 1..Len(s) : s[i] \in S
    BY LenProperties
<1>2. /\ before \in Seq(S) /\ Len(before) = k - 1
      /\ \A i \in 1..(k - 1) : before[i] = s[i]
  <2>1. 1 \in Int /\ k - 1 \in Int /\ \A i \in 1..(k - 1) : s[i] \in S
      BY <1>1
  <2>2. /\ before \in Seq(S) /\ Len(before) = IF 1 <= k - 1 THEN (k - 1) - 1 + 1 ELSE 0
        /\ \A i \in 1..((k - 1) - 1 + 1) : before[i] = s[1 + i - 1]
      BY <2>1, SubSeqProperties
  <2>3. QED  BY <1>1, <2>2
<1>3. /\ after \in Seq(S) /\ Len(after) = Len(s) - k
      /\ \A i \in 1..(Len(s) - k) : after[i] = s[i + k]
  <2>1. k + 1 \in Int /\ Len(s) \in Int /\ \A i \in (k + 1)..Len(s) : s[i] \in S
      BY <1>1
  <2>2. /\ after \in Seq(S)
        /\ Len(after) = IF k + 1 <= Len(s) THEN Len(s) - (k + 1) + 1 ELSE 0
        /\ \A i \in 1..(Len(s) - (k + 1) + 1) : after[i] = s[(k + 1) + i - 1]
      BY <2>1, SubSeqProperties
  <2>3. QED  BY <1>1, <2>2
<1> HIDE DEF before, after
<1>4. RemoveAt(s, k) = before \o after
    BY DEF RemoveAt, before, after
<1>5. /\ before \o after \in Seq(S) /\ Len(before \o after) = Len(s) - 1
      /\ \A i \in 1..(Len(s) - 1) :
            (before \o after)[i] = IF i <= k - 1 THEN before[i] ELSE after[i - (k - 1)]
  <2>1. /\ before \o after \in Seq(S) /\ Len(before \o after) = Len(before) + Len(after)
        /\ \A i \in 1..(Len(before) + Len(after)) :
              (before \o after)[i] = IF i <= Len(before) THEN before[i]
                                                     ELSE after[i - Len(before)]
      BY <1>2, <1>3, ConcatProperties
  <2>2. Len(before) + Len(after) = Len(s) - 1
      BY <1>1, <1>2, <1>3
  <2>3. QED  BY <1>2, <2>1, <2>2
<1>6. ASSUME NEW i \in 1..(Len(s) - 1)
      PROVE  (before \o after)[i] = IF i < k THEN s[i] ELSE s[i + 1]
  <2>1. CASE i < k
      BY <1>1, <1>2, <1>5, <2>1
  <2>2. CASE ~(i < k)
    <3>1. i - (k - 1) \in 1..(Len(s) - k) /\ (i - (k - 1)) + k = i + 1
        BY <1>1, <2>2
    <3>2. (before \o after)[i] = after[i - (k - 1)]
        BY <1>1, <1>5, <2>2
    <3>3. QED  BY <1>3, <2>2, <3>1, <3>2
  <2>3. QED  BY <2>1, <2>2
<1>7. QED  BY <1>1, <1>4, <1>5, <1>6
-----------------------------------------------------------------------------
LEMMA InitBase == Init => Base
<1> SUFFICES ASSUME Init PROVE Base
    OBVIOUS
<1>1. ThreadsTyped /\ Places
    BY DEF Init, ThreadsTyped, Places, Offline, Online
<1>2. CountsTyped
    BY BoundsAssumption DEF Init, CountsTyped
<1>3. FramesTyped
    BY QueueAssumption DEF Init, FramesTyped
<1>4. QED  BY <1>1, <1>2, <1>3 DEF Base, TypeOK

(* The places of the threads, step by step.  What the steps of the node's thread do     *)
(* with the queues does not matter here.                                       *)
LEMMA MainPlaces == Base /\ Main => ThreadsTyped' /\ Places'
<1> SUFFICES ASSUME Base, Main PROVE ThreadsTyped' /\ Places'
    OBVIOUS
<1> USE DEF Base, TypeOK, ThreadsTyped, Places, worker, port, stats, sender
<1>1. ASSUME NEW stream \in Streams, Offer(stream) PROVE ThreadsTyped' /\ Places'
    BY <1>1 DEF Offer
<1>2. ASSUME StoreCommand \/ StoreLatest PROVE ThreadsTyped' /\ Places'
    BY <1>2 DEF StoreCommand, StoreLatest
<1>3. ASSUME Stop \/ StopCloses \/ StopClears PROVE ThreadsTyped' /\ Places'
  <2>1. ASSUME Stop PROVE ThreadsTyped' /\ Places'
      BY <2>1 DEF Stop, Online
  <2>2. ASSUME StopCloses PROVE ThreadsTyped' /\ Places'
      BY <2>2 DEF StopCloses, Online
  <2>3. ASSUME StopClears PROVE ThreadsTyped' /\ Places'
      BY <2>3 DEF StopClears, Online
  <2>4. QED  BY <1>3, <2>1, <2>2, <2>3
<1>4. QED  BY <1>1, <1>2, <1>3 DEF Main

LEMMA WorkerPlaces == Base /\ Worker => ThreadsTyped' /\ Places'
<1> SUFFICES ASSUME Base, Worker PROVE ThreadsTyped' /\ Places'
    OBVIOUS
<1> USE DEF Base, TypeOK, ThreadsTyped, Places, sender, port, stats, Goto, Online, Offline
<1>1. ASSUME Loop \/ Read \/ Wait PROVE ThreadsTyped' /\ Places'
  <2>1. ASSUME Loop PROVE ThreadsTyped' /\ Places'
      BY <2>1 DEF Loop
  <2>2. ASSUME Read PROVE ThreadsTyped' /\ Places'
      BY <2>2 DEF Read
  <2>3. ASSUME Wait PROVE ThreadsTyped' /\ Places'
      BY <2>3 DEF Wait
  <2>4. QED  BY <1>1, <2>1, <2>2, <2>3
<1>2. ASSUME OpenSerial PROVE ThreadsTyped' /\ Places'
    BY <1>2 DEF OpenSerial
<1>3. ASSUME Announce PROVE ThreadsTyped' /\ Places'
    BY <1>3 DEF Announce, CountsTyped
<1>4. ASSUME TakeCommand PROVE ThreadsTyped' /\ Places'
  <2>1. CASE tx_queue # <<>>
    <3>1. hand' # <<>>
        BY <1>4, <2>1, NonEmpty DEF TakeCommand, TakeFirst
    <3>2. QED  BY <1>4, <2>1, <3>1 DEF TakeCommand
  <2>2. CASE tx_queue = <<>>
      BY <1>4, <2>2 DEF TakeCommand
  <2>3. QED  BY <2>1, <2>2
<1>5. ASSUME TakeLatest PROVE ThreadsTyped' /\ Places'
  <2>1. CASE latest # <<>>
    <3>1. hand' # <<>>
        BY <1>5, <2>1, NonEmpty DEF TakeLatest
    <3>2. QED  BY <1>5, <2>1, <3>1 DEF TakeLatest
  <2>2. CASE latest = <<>>
      BY <1>5, <2>2 DEF TakeLatest
  <2>3. QED  BY <2>1, <2>2
<1>6. ASSUME Write PROVE ThreadsTyped' /\ Places'
    BY <1>6 DEF Write
<1>7. ASSUME CloseDevice \/ ClearConnected PROVE ThreadsTyped' /\ Places'
  <2>1. ASSUME CloseDevice PROVE ThreadsTyped' /\ Places'
      BY <2>1 DEF CloseDevice
  <2>2. ASSUME ClearConnected PROVE ThreadsTyped' /\ Places'
      BY <2>2 DEF ClearConnected
  <2>3. QED  BY <1>7, <2>1, <2>2
<1>8. ASSUME DiscardCommand \/ DiscardLatest PROVE ThreadsTyped' /\ Places'
    BY <1>8 DEF DiscardCommand, DiscardLatest
<1>9. QED  BY <1>1, <1>2, <1>3, <1>4, <1>5, <1>6, <1>7, <1>8 DEF Worker

(* One frame at most is held or in hand.                                       *)
LEMMA OneHeld ==
    ASSUME NEW s \in Seq(Frames), Len(s) <= 1, s # <<>>
    PROVE  Len(s) = 1 /\ s[1] \in Frames
<1>1. Len(s) \in Nat \ {0}
    BY EmptySeq
<1>2. Len(s) = 1
    BY <1>1
<1>3. s[1] \in Frames
    BY <1>2, ElementOfSeq
<1>4. QED  BY <1>2, <1>3

LEMMA MainFrames == Base /\ Main => FramesTyped' /\ CountsTyped'
<1> DEFINE Goal == FramesTyped /\ CountsTyped
<1> SUFFICES ASSUME Base, Main PROVE Goal'
    OBVIOUS
<1> USE QueueAssumption, BoundsAssumption, KeysAssumption
        DEF Base, TypeOK, FramesTyped, CountsTyped, worker, port
<1>1. ASSUME NEW stream \in Streams, Offer(stream) PROVE Goal'
  <2> DEFINE frame == [id |-> offered + 1, stream |-> stream, session |-> connections]
  <2>1. CASE connected
    <3>1. frame \in Frames
        BY <1>1, <2>1 DEF Offer, Places, Frames
    <3>2. held' = <<frame>> /\ UNCHANGED <<hand, tx_queue, latest, sent, dropped>>
          /\ offered' = offered + 1 /\ UNCHANGED <<connections, replaced>> /\ offered < MaxFrames
        BY <1>1, <2>1 DEF Offer, queues
    <3> HIDE DEF frame
    <3>3. QED  BY <3>1, <3>2 DEF sent
  <2>2. CASE ~connected
      BY <1>1, <2>2 DEF Offer, sender, queues, sent
  <2>3. QED  BY <2>1, <2>2
<1>2. ASSUME StoreCommand PROVE Goal'
  <2> DEFINE longer == Append(tx_queue, held[1])
  <2>1. held[1] \in Commands
      BY <1>2, OneHeld DEF StoreCommand, Places, Commands
  <2>2. longer \in Seq(Commands) /\ Len(longer) = Len(tx_queue) + 1 /\ Len(tx_queue) \in Nat
      BY <2>1, AppendProperties, LenProperties
  <2>3. /\ \/ tx_queue' = longer /\ Len(tx_queue) < QueueSize
           \/ tx_queue' = tx_queue
        /\ held' = <<>> /\ dropped' \in {dropped, dropped + 1}
        /\ UNCHANGED <<hand, latest, sent, connections, replaced, offered>>
      BY <1>2 DEF StoreCommand
  <2> HIDE DEF longer
  <2>4. tx_queue' \in Seq(Commands) /\ Len(tx_queue') <= QueueSize
      BY <2>2, <2>3
  <2>5. QED  BY <2>3, <2>4 DEF sent
<1>3. ASSUME StoreLatest PROVE Goal'
  <2>1. held[1] \in States
      BY <1>3, OneHeld DEF StoreLatest, Places, Commands, States
  <2>2. latest' \in Seq(States)
    <3>1. ASSUME NEW i \in Unsent, latest' = LatestReplaced(i) PROVE latest' \in Seq(States)
      <4>1. RemoveAt(latest, i) \in Seq(States)
          BY Removed DEF Unsent
      <4>2. QED  BY <2>1, <3>1, <4>1, AppendProperties DEF LatestReplaced
    <3>2. ASSUME latest' = Append(latest, held[1]) PROVE latest' \in Seq(States)
        BY <2>1, <3>2, AppendProperties
    <3>3. QED  BY <1>3, <3>1, <3>2 DEF StoreLatest
  <2>3. replaced' \in Nat
      BY <1>3 DEF StoreLatest
  <2>4. QED  BY <1>3, <2>2, <2>3 DEF StoreLatest, sent
<1>4. ASSUME Stop \/ StopCloses \/ StopClears PROVE Goal'
    BY <1>4 DEF Stop, StopCloses, StopClears, queues, stats, sent
<1>5. QED  BY <1>1, <1>2, <1>3, <1>4 DEF Main

LEMMA WorkerFrames == Base /\ Worker => FramesTyped' /\ CountsTyped'
<1> DEFINE Goal == FramesTyped /\ CountsTyped
<1> SUFFICES ASSUME Base, Worker PROVE Goal'
    OBVIOUS
<1> USE QueueAssumption, BoundsAssumption
        DEF Base, TypeOK, FramesTyped, CountsTyped, sender
<1>1. ASSUME Loop \/ Read \/ Wait \/ OpenSerial \/ CloseDevice \/ ClearConnected PROVE Goal'
    BY <1>1 DEF Loop, Read, Wait, OpenSerial, CloseDevice, ClearConnected, queues, stats, sent
<1>2. ASSUME Announce PROVE Goal'
    BY <1>2 DEF Announce, Places, Goto, queues, sent
<1>3. ASSUME TakeCommand PROVE Goal'
  <2>1. CASE tx_queue # <<>>
    <3>1. hand' = <<Head(tx_queue)>> /\ tx_queue' = Tail(tx_queue)
          /\ UNCHANGED <<held, latest, stats, offered>>
        BY <1>3, <2>1 DEF TakeCommand, TakeFirst
    <3>2. Head(tx_queue) \in Commands /\ Tail(tx_queue) \in Seq(Commands)
          /\ Len(Tail(tx_queue)) = Len(tx_queue) - 1 /\ Len(tx_queue) \in Nat
        BY <2>1, QueueTail
    <3>3. hand' \in Seq(Frames) /\ Len(hand') <= 1
        BY <3>1, <3>2 DEF Commands
    <3>4. QED  BY <3>1, <3>2, <3>3 DEF stats, sent
  <2>2. CASE tx_queue = <<>>
      BY <1>3, <2>2 DEF TakeCommand, stats, sent
  <2>3. QED  BY <2>1, <2>2
<1>4. ASSUME TakeLatest PROVE Goal'
  <2>1. CASE latest # <<>>
    <3>1. hand' = <<Head(latest)>> /\ latest' = Tail(latest)
          /\ UNCHANGED <<held, tx_queue, stats, offered>>
        BY <1>4, <2>1 DEF TakeLatest
    <3>2. Head(latest) \in States /\ Tail(latest) \in Seq(States)
        BY <2>1, QueueTail
    <3>3. hand' \in Seq(Frames) /\ Len(hand') <= 1
        BY <3>1, <3>2 DEF States
    <3>4. QED  BY <3>1, <3>2, <3>3 DEF stats, sent
  <2>2. CASE latest = <<>>
      BY <1>4, <2>2 DEF TakeLatest, stats, sent
  <2>3. QED  BY <2>1, <2>2
<1>5. ASSUME Write PROVE Goal'
  <2>1. hand # <<>> /\ hand[1] \in Frames
      BY <1>5, OneHeld DEF Write, Goto, Places
  <2>2. /\ hand' = <<>> /\ dropped' \in {dropped, dropped + 1}
        /\ UNCHANGED <<held, queues, connections, replaced, offered>>
      BY <1>5 DEF Write, sent
  <2>3. commands_sent' \in Seq([frame : Commands, session : Nat])
    <3>1. CASE IsCommand(hand[1]) /\ commands_sent' = Append(commands_sent, Written)
      <4>1. Written \in [frame : Commands, session : Nat]
          BY <2>1, <3>1 DEF Written, Commands
      <4>2. QED  BY <3>1, <4>1, AppendProperties
    <3>2. CASE UNCHANGED commands_sent
        BY <3>2
    <3>3. QED  BY <1>5, <3>1, <3>2 DEF Write, sent
  <2>4. states_sent' \in Seq([frame : States, session : Nat])
    <3>1. CASE ~IsCommand(hand[1]) /\ states_sent' = Append(states_sent, Written)
      <4>1. Written \in [frame : States, session : Nat]
          BY <2>1, <3>1 DEF Written, Commands, States
      <4>2. QED  BY <3>1, <4>1, AppendProperties
    <3>2. CASE UNCHANGED states_sent
        BY <3>2
    <3>3. QED  BY <1>5, <3>1, <3>2 DEF Write, sent
  <2>5. QED  BY <2>2, <2>3, <2>4 DEF queues
<1>6. ASSUME DiscardCommand PROVE Goal'
  <2> DEFINE shorter == Tail(tx_queue)
  <2>1. tx_queue # <<>> => /\ shorter \in Seq(Commands) /\ Len(tx_queue) \in Nat
                           /\ Len(shorter) = Len(tx_queue) - 1
      BY QueueTail
  <2>2. /\ \/ tx_queue # <<>> /\ tx_queue' = shorter
           \/ UNCHANGED tx_queue
        /\ dropped' \in {dropped, dropped + 1}
        /\ UNCHANGED <<hand, held, latest, sent, connections, replaced, offered>>
      BY <1>6 DEF DiscardCommand
  <2> HIDE DEF shorter
  <2>3. tx_queue' \in Seq(Commands) /\ Len(tx_queue') <= QueueSize
      BY <2>1, <2>2
  <2>4. QED  BY <2>2, <2>3 DEF sent
<1>7. ASSUME DiscardLatest PROVE Goal'
    BY <1>7 DEF DiscardLatest, sent
<1>8. QED  BY <1>1, <1>2, <1>3, <1>4, <1>5, <1>6, <1>7 DEF Worker

LEMMA StepBase == Base /\ [Next]_vars => Base'
<1>1. ASSUME Base, UNCHANGED vars PROVE Base'
    BY <1>1 DEF vars, worker, sender, queues, port, stats, sent, Base, TypeOK, ThreadsTyped,
       FramesTyped, CountsTyped, Places
<1>2. QED
    BY <1>1, MainPlaces, WorkerPlaces, MainFrames, WorkerFrames DEF Next, Base, TypeOK

LEMMA InductiveBase == Spec => []Base
    BY InitBase, StepBase, PTL DEF Spec
-----------------------------------------------------------------------------
LEMMA Lengths ==
    ASSUME Base
    PROVE  /\ Len(commands_sent) \in Nat /\ Len(states_sent) \in Nat /\ Len(tx_queue) \in Nat
           /\ Len(latest) \in Nat
           /\ Len(hand) = IF pc = "write" THEN 1 ELSE 0
           /\ Len(held) = IF main = "storing" THEN 1 ELSE 0
<1> USE DEF Base, TypeOK, FramesTyped
<1>1. Len(hand) \in Nat /\ Len(held) \in Nat
    BY LenProperties
<1>2. (hand # <<>> => Len(hand) >= 1) /\ (held # <<>> => Len(held) >= 1)
    BY EmptySeq
<1>3. (hand = <<>> => Len(hand) = 0) /\ (held = <<>> => Len(held) = 0)
    BY EmptySeq
<1>4. /\ Len(commands_sent) \in Nat /\ Len(states_sent) \in Nat /\ Len(tx_queue) \in Nat
      /\ Len(latest) \in Nat
    BY LenProperties
<1>5. (hand # <<>> <=> pc = "write") /\ (held # <<>> <=> main = "storing")
    BY DEF Places
<1>6. Len(hand) <= 1 /\ Len(held) <= 1
    OBVIOUS
<1> HIDE DEF FramesTyped, TypeOK, Base
<1> DEFINE n == Len(hand)
<1> DEFINE m == Len(held)
<1>7. (pc = "write" => n >= 1) /\ (pc # "write" => n = 0) /\ n \in Nat /\ n <= 1
    BY <1>1, <1>2, <1>3, <1>5, <1>6
<1>8. (main = "storing" => m >= 1) /\ (main # "storing" => m = 0) /\ m \in Nat /\ m <= 1
    BY <1>1, <1>2, <1>3, <1>5, <1>6
<1> HIDE DEF n, m
<1>10. n = (IF pc = "write" THEN 1 ELSE 0) /\ m = (IF main = "storing" THEN 1 ELSE 0)
    BY <1>7, <1>8
<1>11. QED  BY <1>4, <1>10 DEF n, m

(* What a write makes of the sequences of written frames.                        *)
LEMMA WriteGrows ==
    ASSUME Base, Write
    PROVE  /\ hand # <<>> /\ hand[1] \in Frames /\ Len(hand) = 1
           /\ Written \in [frame : Frames, session : Nat] /\ Written.frame = hand[1]
           /\ \/ /\ commands_sent' = Append(commands_sent, Written)
                 /\ IsCommand(hand[1]) /\ Written \in [frame : Commands, session : Nat]
                 /\ Len(commands_sent') = Len(commands_sent) + 1
                 /\ \A i \in 1..Len(commands_sent) : commands_sent'[i] = commands_sent[i]
                 /\ commands_sent'[Len(commands_sent) + 1] = Written
                 /\ UNCHANGED <<states_sent, dropped>>
              \/ /\ ~IsCommand(hand[1])
                 /\ Len(states_sent') = Len(states_sent) + 1
                 /\ \A i \in 1..Len(states_sent) : states_sent'[i] = states_sent[i]
                 /\ states_sent'[Len(states_sent) + 1] = Written
                 /\ UNCHANGED <<commands_sent, dropped>>
              \/ dropped' = dropped + 1 /\ UNCHANGED sent
              \/ ~device /\ UNCHANGED <<sent, dropped>>
<1> USE DEF Base, TypeOK, FramesTyped, CountsTyped
<1>1. hand # <<>> /\ hand[1] \in Frames /\ Len(hand) = 1
    BY OneHeld DEF Write, Goto, Places
<1>2. Written \in [frame : Frames, session : Nat] /\ Written.frame = hand[1]
    BY <1>1, BoundsAssumption DEF Written
<1>3. CASE IsCommand(hand[1]) /\ commands_sent' = Append(commands_sent, Written)
           /\ UNCHANGED <<states_sent, dropped>>
  <2>1. Written \in [frame : Commands, session : Nat]
      BY <1>1, <1>3, BoundsAssumption DEF Written, Commands
  <2>2. QED  BY <1>1, <1>2, <1>3, <2>1, AppendProperties
<1>4. CASE ~IsCommand(hand[1]) /\ states_sent' = Append(states_sent, Written)
           /\ UNCHANGED <<commands_sent, dropped>>
  <2>1. Written \in [frame : States, session : Nat]
      BY <1>1, <1>4, BoundsAssumption DEF Written, States, Commands
  <2>2. QED  BY <1>1, <1>2, <1>4, <2>1, AppendProperties
<1>5. CASE dropped' = dropped + 1 /\ UNCHANGED sent
    BY <1>1, <1>2, <1>5
<1>6. CASE ~device /\ UNCHANGED <<sent, dropped>>
    BY <1>1, <1>2, <1>6
<1>7. QED  BY <1>3, <1>4, <1>5, <1>6 DEF Write

(* What a stored state makes of the dictionary.                                  *)
LEMMA StoreLatestGrows ==
    ASSUME Base, StoreLatest
    PROVE  /\ held # <<>> /\ held[1] \in States /\ held' = <<>> /\ latest' \in Seq(States)
           /\ \/ \E k \in 1..Len(latest) :
                    /\ latest[k].stream = held[1].stream
                    /\ Len(latest') = Len(latest) /\ latest'[Len(latest)] = held[1]
                    /\ \A i \in 1..(Len(latest) - 1) :
                          latest'[i] = IF i < k THEN latest[i] ELSE latest[i + 1]
                    /\ replaced' = replaced + 1
              \/ /\ Len(latest') = Len(latest) + 1 /\ latest'[Len(latest) + 1] = held[1]
                 /\ \A i \in 1..Len(latest) : latest'[i] = latest[i]
                 /\ Unsent = {} /\ UNCHANGED replaced
<1> USE DEF Base, TypeOK, FramesTyped
<1>1. held # <<>> /\ held[1] \in States /\ held' = <<>>
    BY OneHeld DEF StoreLatest, Places, Commands, States
<1>2. ASSUME NEW k \in Unsent, latest' = LatestReplaced(k), replaced' = replaced + 1
      PROVE  /\ latest' \in Seq(States) /\ k \in 1..Len(latest)
             /\ latest[k].stream = held[1].stream
             /\ Len(latest') = Len(latest) /\ latest'[Len(latest)] = held[1]
             /\ \A i \in 1..(Len(latest) - 1) :
                   latest'[i] = IF i < k THEN latest[i] ELSE latest[i + 1]
  <2> DEFINE rest == RemoveAt(latest, k)
  <2>1. k \in DOMAIN latest /\ latest[k].stream = held[1].stream
      BY DEF Unsent
  <2>2. /\ rest \in Seq(States) /\ k \in 1..Len(latest) /\ Len(latest) \in Nat
        /\ Len(rest) = Len(latest) - 1
        /\ \A i \in 1..(Len(latest) - 1) :
              rest[i] = IF i < k THEN latest[i] ELSE latest[i + 1]
      BY <2>1, Removed
  <2>3. latest' = Append(rest, held[1])
      BY <1>2 DEF LatestReplaced
  <2> HIDE DEF rest
  <2>4. /\ latest' \in Seq(States) /\ Len(latest') = Len(rest) + 1
        /\ \A i \in 1..Len(rest) : latest'[i] = rest[i]
        /\ latest'[Len(rest) + 1] = held[1]
      BY <1>1, <2>2, <2>3, AppendProperties
  <2>5. QED  BY <2>1, <2>2, <2>4
<1>3. ASSUME latest' = Append(latest, held[1]), UNCHANGED replaced
      PROVE  /\ latest' \in Seq(States)
             /\ Len(latest') = Len(latest) + 1 /\ latest'[Len(latest) + 1] = held[1]
             /\ \A i \in 1..Len(latest) : latest'[i] = latest[i]
    BY <1>1, <1>3, AppendProperties
<1>4. QED  BY <1>1, <1>2, <1>3 DEF StoreLatest
-----------------------------------------------------------------------------
(* Every frame offered before a stop is written, dropped, replaced or under way.      *)
LEMMA MainCounts == Base /\ EveryFrameCounted /\ Main => EveryFrameCounted'
<1> SUFFICES ASSUME Base, EveryFrameCounted, Main PROVE EveryFrameCounted'
    OBVIOUS
<1> USE DEF EveryFrameCounted
<1>0. /\ dropped \in Nat /\ replaced \in Nat /\ offered \in Nat
      /\ Len(commands_sent) \in Nat /\ Len(states_sent) \in Nat /\ Len(tx_queue) \in Nat
      /\ Len(latest) \in Nat /\ Len(hand) \in Nat
    BY BoundsAssumption, Lengths DEF Base, TypeOK, CountsTyped
<1>1. ASSUME NEW stream \in Streams, Offer(stream) PROVE EveryFrameCounted'
  <2>1. main = "idle" /\ offered' = offered + 1 /\ Len(held) = 0
        /\ UNCHANGED <<commands_sent, states_sent, tx_queue, latest, hand, replaced, stopping>>
      BY <1>1, Lengths DEF Offer, sent, queues, worker
  <2>2. \/ Len(held') = 1 /\ dropped' = dropped
        \/ Len(held') = 0 /\ dropped' = dropped + 1
      BY <1>1, <2>1, NonEmpty DEF Offer, sender
  <2>3. /\ Len(commands_sent') = Len(commands_sent) /\ Len(states_sent') = Len(states_sent)
        /\ Len(tx_queue') = Len(tx_queue) /\ Len(latest') = Len(latest)
        /\ Len(hand') = Len(hand) /\ (stopping' <=> stopping) /\ replaced' = replaced
        /\ offered' = offered + 1 /\ Len(held) = 0
      BY <2>1
  <2>4. QED
    <3>1. CASE Len(held') = 1 /\ dropped' = dropped
        BY <1>0, <2>3, <3>1
    <3>2. CASE Len(held') = 0 /\ dropped' = dropped + 1
        BY <1>0, <2>3, <3>2
    <3>3. QED  BY <2>2, <3>1, <3>2
<1>2. ASSUME StoreCommand PROVE EveryFrameCounted'
  <2>1. main = "storing" /\ Len(held) = 1 /\ Len(held') = 0
        /\ UNCHANGED <<commands_sent, states_sent, latest, hand, replaced, stopping, offered>>
      BY <1>2, Lengths DEF StoreCommand, sent, worker
  <2>2. \/ Len(tx_queue') = Len(tx_queue) + 1 /\ dropped' = dropped
        \/ Len(tx_queue') = Len(tx_queue) /\ dropped' = dropped + 1
    <3>1. held[1] \in Commands
        BY <1>2, OneHeld DEF StoreCommand, Places, Commands, Base, TypeOK, FramesTyped
    <3>2. Len(Append(tx_queue, held[1])) = Len(tx_queue) + 1
        BY <3>1, AppendProperties DEF Base, TypeOK, FramesTyped
    <3>3. QED  BY <1>2, <3>2 DEF StoreCommand
  <2>3. /\ Len(commands_sent') = Len(commands_sent) /\ Len(states_sent') = Len(states_sent)
        /\ Len(latest') = Len(latest) /\ Len(hand') = Len(hand) /\ (stopping' <=> stopping)
        /\ replaced' = replaced /\ offered' = offered /\ Len(held) = 1 /\ Len(held') = 0
      BY <2>1
  <2>4. QED
    <3>1. CASE Len(tx_queue') = Len(tx_queue) + 1 /\ dropped' = dropped
        BY <1>0, <2>3, <3>1
    <3>2. CASE Len(tx_queue') = Len(tx_queue) /\ dropped' = dropped + 1
        BY <1>0, <2>3, <3>2
    <3>3. QED  BY <2>2, <3>1, <3>2
<1>3. ASSUME StoreLatest PROVE EveryFrameCounted'
  <2>1. main = "storing" /\ Len(held) = 1 /\ Len(held') = 0
        /\ UNCHANGED <<commands_sent, states_sent, tx_queue, hand, dropped, stopping, offered>>
      BY <1>3, Lengths DEF StoreLatest, sent, worker
  <2>2. \/ Len(latest') = Len(latest) + 1 /\ replaced' = replaced
        \/ Len(latest') = Len(latest) /\ replaced' = replaced + 1
      BY <1>3, StoreLatestGrows
  <2>3. /\ Len(commands_sent') = Len(commands_sent) /\ Len(states_sent') = Len(states_sent)
        /\ Len(tx_queue') = Len(tx_queue) /\ Len(hand') = Len(hand) /\ (stopping' <=> stopping)
        /\ dropped' = dropped /\ offered' = offered /\ Len(held) = 1 /\ Len(held') = 0
      BY <2>1
  <2>4. QED
    <3>1. CASE Len(latest') = Len(latest) + 1 /\ replaced' = replaced
        BY <1>0, <2>3, <3>1
    <3>2. CASE Len(latest') = Len(latest) /\ replaced' = replaced + 1
        BY <1>0, <2>3, <3>2
    <3>3. QED  BY <2>2, <3>1, <3>2
<1>4. ASSUME Stop \/ StopCloses \/ StopClears PROVE EveryFrameCounted'
  <2>1. stopping'
      BY <1>4 DEF Stop, StopCloses, StopClears, Base, Places
  <2>2. QED  BY <2>1
<1>5. QED  BY <1>1, <1>2, <1>3, <1>4 DEF Main

LEMMA WorkerCounts == Base /\ EveryFrameCounted /\ Worker => EveryFrameCounted'
<1> SUFFICES ASSUME Base, EveryFrameCounted, Worker PROVE EveryFrameCounted'
    OBVIOUS
<1> USE DEF EveryFrameCounted
<1>0. /\ dropped \in Nat /\ replaced \in Nat /\ offered \in Nat
      /\ tx_queue \in Seq(Commands) /\ latest \in Seq(States)
    BY BoundsAssumption DEF Base, TypeOK, CountsTyped, FramesTyped
<1>1. ASSUME Loop \/ Read \/ Wait \/ OpenSerial \/ CloseDevice \/ ClearConnected \/ Announce
      PROVE  EveryFrameCounted'
  <2>1. UNCHANGED <<commands_sent, states_sent, tx_queue, latest, hand, held, replaced, dropped,
                    offered, stopping>>
      BY <1>1 DEF Loop, Read, Wait, OpenSerial, CloseDevice, ClearConnected, Announce, sent,
         queues, stats, sender
  <2>2. QED  BY <2>1
<1>2. ASSUME TakeCommand PROVE EveryFrameCounted'
  <2>1. CASE tx_queue # <<>>
    <3>1. Len(tx_queue') = Len(tx_queue) - 1
        BY <1>0, <1>2, <2>1, QueueTail DEF TakeCommand, TakeFirst
    <3>2. Len(hand') = 1 /\ Len(hand) = 0
        BY <1>2, <2>1, NonEmpty, Lengths DEF TakeCommand, TakeFirst, Goto
    <3>3. UNCHANGED <<commands_sent, states_sent, latest, held, replaced, dropped, offered,
                      stopping>>
        BY <1>2 DEF TakeCommand, stats, sent, sender
    <3>4. QED  BY <1>0, <3>1, <3>2, <3>3, Lengths
  <2>2. CASE tx_queue = <<>>
      BY <1>2, <2>2 DEF TakeCommand, stats, sent, sender
  <2>3. QED  BY <2>1, <2>2
<1>3. ASSUME TakeLatest PROVE EveryFrameCounted'
  <2>1. CASE latest # <<>>
    <3>1. Len(latest') = Len(latest) - 1
        BY <1>0, <1>3, <2>1, QueueTail DEF TakeLatest
    <3>2. Len(hand') = 1 /\ Len(hand) = 0
        BY <1>3, <2>1, NonEmpty, Lengths DEF TakeLatest, Goto
    <3>3. UNCHANGED <<commands_sent, states_sent, tx_queue, held, replaced, dropped, offered,
                      stopping>>
        BY <1>3 DEF TakeLatest, stats, sent, sender
    <3>4. QED  BY <1>0, <3>1, <3>2, <3>3, Lengths
  <2>2. CASE latest = <<>>
      BY <1>3, <2>2 DEF TakeLatest, stats, sent, sender
  <2>3. QED  BY <2>1, <2>2
<1>4. ASSUME Write PROVE EveryFrameCounted'
  <2>1. UNCHANGED <<tx_queue, latest, held, replaced, offered, stopping>>
      BY <1>4 DEF Write, queues, sender
  <2>2. /\ Len(tx_queue') = Len(tx_queue) /\ Len(latest') = Len(latest)
        /\ Len(held') = Len(held) /\ (stopping' <=> stopping) /\ replaced' = replaced
        /\ offered' = offered /\ Len(hand) = 1 /\ Len(hand') = 0
    <3>1. Len(hand) = 1
        BY <1>4, WriteGrows
    <3>2. hand' = <<>>
        BY <1>4 DEF Write
    <3>3. QED  BY <2>1, <3>1, <3>2
  <2>3. /\ Len(commands_sent) \in Nat /\ Len(states_sent) \in Nat /\ Len(tx_queue) \in Nat
        /\ Len(latest) \in Nat /\ Len(held) \in Nat
      BY Lengths
  <2>4. ~stopping => device
      BY <1>4 DEF Write, Base, Places, Online, Goto
  <2>5. CASE /\ Len(commands_sent') = Len(commands_sent) + 1
             /\ Len(states_sent') = Len(states_sent) /\ dropped' = dropped
      BY <1>0, <2>2, <2>3, <2>5
  <2>6. CASE /\ Len(commands_sent') = Len(commands_sent)
             /\ Len(states_sent') = Len(states_sent) + 1 /\ dropped' = dropped
      BY <1>0, <2>2, <2>3, <2>6
  <2>7. CASE /\ Len(commands_sent') = Len(commands_sent)
             /\ Len(states_sent') = Len(states_sent) /\ dropped' = dropped + 1
      BY <1>0, <2>2, <2>3, <2>7
  <2>8. CASE stopping
      BY <2>2, <2>8
  <2>9. \/ /\ Len(commands_sent') = Len(commands_sent) + 1
           /\ Len(states_sent') = Len(states_sent) /\ dropped' = dropped
        \/ /\ Len(commands_sent') = Len(commands_sent)
           /\ Len(states_sent') = Len(states_sent) + 1 /\ dropped' = dropped
        \/ /\ Len(commands_sent') = Len(commands_sent)
           /\ Len(states_sent') = Len(states_sent) /\ dropped' = dropped + 1
        \/ ~device
      BY <1>4, WriteGrows DEF sent
  <2>10. QED  BY <2>4, <2>5, <2>6, <2>7, <2>8, <2>9
<1>5. ASSUME DiscardCommand PROVE EveryFrameCounted'
  <2>1. UNCHANGED <<commands_sent, states_sent, latest, hand, held, replaced, offered, stopping>>
      BY <1>5 DEF DiscardCommand, sent, sender
  <2>2. CASE tx_queue # <<>>
    <3>1. Len(tx_queue') = Len(tx_queue) - 1 /\ dropped' = dropped + 1
        BY <1>0, <1>5, <2>2, QueueTail DEF DiscardCommand
    <3>2. QED  BY <1>0, <2>1, <3>1, Lengths
  <2>3. CASE tx_queue = <<>>
      BY <1>5, <2>1, <2>3 DEF DiscardCommand
  <2>4. QED  BY <2>2, <2>3
<1>6. ASSUME DiscardLatest PROVE EveryFrameCounted'
  <2>1. UNCHANGED <<commands_sent, states_sent, tx_queue, hand, held, replaced, offered, stopping>>
        /\ Len(latest') = 0 /\ dropped' = dropped + Len(latest)
      BY <1>6 DEF DiscardLatest, sent, sender
  <2>2. QED  BY <1>0, <2>1, Lengths
<1>7. QED  BY <1>1, <1>2, <1>3, <1>4, <1>5, <1>6 DEF Worker

(* Until the transport is stopped its statistics account for every frame offered,       *)
(* for any size of its queue and any number of streams, frames and connections.          *)
THEOREM EveryFrameAlwaysCounted == Spec => []EveryFrameCounted
<1>1. Init => EveryFrameCounted
    BY DEF Init, EveryFrameCounted
<1>2. Base /\ EveryFrameCounted /\ [Next]_vars => EveryFrameCounted'
  <2>1. ASSUME EveryFrameCounted, UNCHANGED vars PROVE EveryFrameCounted'
      BY <2>1 DEF EveryFrameCounted, vars, worker, sender, queues, stats, sent
  <2>2. QED  BY <2>1, MainCounts, WorkerCounts DEF Next
<1>3. QED  BY <1>1, <1>2, InductiveBase, PTL DEF Spec

(* The types of the transport's variables.                                      *)
THEOREM TypeCorrect == Spec => []TypeOK
<1>1. Base => TypeOK
    BY DEF Base
<1>2. QED  BY <1>1, InductiveBase, PTL

(* A stopped transport without a worker holds no port and announces no connection,        *)
(* whoever closed it, or opened it, last.                                      *)
THEOREM PortAlwaysReleased == Spec => []PortReleased
<1>1. Base => PortReleased
    BY DEF Base, Places, PortReleased, Offline
<1>2. QED  BY <1>1, InductiveBase, PTL
-----------------------------------------------------------------------------
(* The frames at each place, as sets: a step of a thread moves a frame from one to the    *)
(* next or loses it.                                                            *)
In(s)    == {s[i] : i \in 1..Len(s)}
SentOnes == {commands_sent[i].frame : i \in 1..Len(commands_sent)}
                \cup {states_sent[i].frame : i \in 1..Len(states_sent)}
Queued   == In(tx_queue) \cup In(latest)

Older(f, g) == f.stream = g.stream => f.id < g.id

(* What is written is older than what is in hand, that older than what is queued, and      *)
(* that older than what is held, stream by stream.                                *)
Ranked ==
    /\ \A f \in SentOnes, g \in In(hand) \cup Queued \cup In(held) : Older(f, g)
    /\ \A f \in In(hand), g \in Queued \cup In(held) : Older(f, g)
    /\ \A f \in Queued, g \in In(held) : Older(f, g)
    /\ \A f \in SentOnes \cup In(hand) \cup Queued \cup In(held) : f.id <= offered

(* The commands are queued in order, and a key has one frame in the dictionary.           *)
QueueInOrder == \A i, j \in 1..Len(tx_queue) : i < j => tx_queue[i].id < tx_queue[j].id
OneEach      == \A i, j \in 1..Len(latest) : latest[i].stream = latest[j].stream => i = j

Order == Ranked /\ QueueInOrder /\ OneEach /\ StreamsGoForward

LEMMA InEmpty == In(<<>>) = {}
    BY DEF In

LEMMA InOne == \A x : In(<<x>>) = {x}
    BY NonEmpty DEF In

LEMMA InTail ==
    ASSUME NEW S, NEW s \in Seq(S), s # <<>>
    PROVE  In(Tail(s)) \subseteq In(s) /\ Head(s) \in In(s)
    BY QueueTail DEF In

LEMMA InAppend ==
    ASSUME NEW S, NEW s \in Seq(S), NEW x \in S
    PROVE  In(Append(s, x)) = In(s) \cup {x}
<1> DEFINE longer == Append(s, x)
<1>1. /\ Len(longer) = Len(s) + 1 /\ Len(s) \in Nat
      /\ \A i \in 1..Len(s) : longer[i] = s[i]
      /\ longer[Len(s) + 1] = x
    BY AppendProperties, LenProperties
<1> HIDE DEF longer
<1>2. In(longer) = In(s) \cup {x}
    BY <1>1 DEF In
<1>3. QED  BY <1>2 DEF longer

(* What the threads move.                                                       *)
LEMMA OfferMoves ==
    ASSUME Base, NEW stream \in Streams, Offer(stream)
    PROVE  /\ offered' = offered + 1
           /\ UNCHANGED <<tx_queue, latest, hand, commands_sent, states_sent>>
           /\ \/ UNCHANGED held
              \/ /\ connected
                 /\ \E f : In(held') = {f} /\ f.id = offered + 1 /\ f.session = connections
<1>1. offered' = offered + 1 /\ UNCHANGED <<tx_queue, latest, hand, commands_sent, states_sent>>
    BY DEF Offer, worker, queues, sent
<1>2. CASE connected
  <2> DEFINE frame == [id |-> offered + 1, stream |-> stream, session |-> connections]
  <2>1. held' = <<frame>>
      BY <1>2 DEF Offer
  <2>2. In(held') = {frame}
      BY <2>1, InOne
  <2>3. frame.id = offered + 1 /\ frame.session = connections
      OBVIOUS
  <2> HIDE DEF frame
  <2>4. QED  BY <1>1, <1>2, <2>2, <2>3
<1>3. CASE ~connected
    BY <1>1, <1>3 DEF Offer, sender
<1>4. QED  BY <1>2, <1>3

LEMMA StoreCommandMoves ==
    ASSUME Base, StoreCommand
    PROVE  /\ In(held) = {held[1]} /\ In(held') = {} /\ held[1] \in Commands
           /\ UNCHANGED <<latest, hand, commands_sent, states_sent, offered>>
           /\ \/ UNCHANGED tx_queue
              \/ /\ In(tx_queue') = In(tx_queue) \cup {held[1]}
                 /\ Len(tx_queue') = Len(tx_queue) + 1 /\ Len(tx_queue) \in Nat
                 /\ \A i \in 1..Len(tx_queue) : tx_queue'[i] = tx_queue[i]
                 /\ tx_queue'[Len(tx_queue) + 1] = held[1]
<1>1. held[1] \in Commands /\ Len(held) = 1
    BY OneHeld DEF StoreCommand, Places, Commands, Base, TypeOK, FramesTyped
<1>2. In(held) = {held[1]} /\ In(held') = {}
    BY <1>1, InEmpty DEF In, StoreCommand
<1>3. UNCHANGED <<latest, hand, commands_sent, states_sent, offered>>
    BY DEF StoreCommand, worker, sent
<1>4. ASSUME tx_queue' = Append(tx_queue, held[1])
      PROVE  /\ In(tx_queue') = In(tx_queue) \cup {held[1]}
             /\ Len(tx_queue') = Len(tx_queue) + 1 /\ Len(tx_queue) \in Nat
             /\ \A i \in 1..Len(tx_queue) : tx_queue'[i] = tx_queue[i]
             /\ tx_queue'[Len(tx_queue) + 1] = held[1]
  <2>1. tx_queue \in Seq(Commands)
      BY DEF Base, TypeOK, FramesTyped
  <2>2. QED  BY <1>1, <1>4, <2>1, InAppend, AppendProperties, LenProperties
<1>5. QED  BY <1>1, <1>2, <1>3, <1>4 DEF StoreCommand

LEMMA StoreLatestMoves ==
    ASSUME Base, StoreLatest
    PROVE  /\ In(held) = {held[1]} /\ In(held') = {} /\ held[1] \in States
           /\ UNCHANGED <<tx_queue, hand, commands_sent, states_sent, offered>>
           /\ In(latest') \subseteq In(latest) \cup {held[1]}
<1>1. held[1] \in States /\ Len(held) = 1
    BY OneHeld DEF StoreLatest, Places, Commands, States, Base, TypeOK, FramesTyped
<1>2. In(held) = {held[1]} /\ In(held') = {}
    BY <1>1, InEmpty DEF In, StoreLatest
<1>3. UNCHANGED <<tx_queue, hand, commands_sent, states_sent, offered>>
    BY DEF StoreLatest, worker, sent
<1>4. Len(latest) \in Nat
    BY Lengths
<1>5. ASSUME NEW n \in 1..Len(latest')
      PROVE  latest'[n] \in In(latest) \cup {held[1]}
  <2>1. CASE \E k \in 1..Len(latest) :
                /\ Len(latest') = Len(latest) /\ latest'[Len(latest)] = held[1]
                /\ \A i \in 1..(Len(latest) - 1) :
                      latest'[i] = IF i < k THEN latest[i] ELSE latest[i + 1]
      BY <1>4, <2>1 DEF In
  <2>2. CASE /\ Len(latest') = Len(latest) + 1 /\ latest'[Len(latest) + 1] = held[1]
             /\ \A i \in 1..Len(latest) : latest'[i] = latest[i]
      BY <1>4, <2>2 DEF In
  <2>3. QED  BY <2>1, <2>2, StoreLatestGrows
<1>6. QED  BY <1>1, <1>2, <1>3, <1>5 DEF In

LEMMA TakeCommandMoves ==
    ASSUME Base, TakeCommand
    PROVE  /\ UNCHANGED <<latest, held, commands_sent, states_sent, offered>>
           /\ hand = <<>>
           /\ \/ UNCHANGED <<tx_queue, hand>>
              \/ /\ tx_queue # <<>> /\ tx_queue' = Tail(tx_queue)
                 /\ In(tx_queue') \subseteq In(tx_queue)
                 /\ In(hand') = {tx_queue[1]} /\ tx_queue[1] \in In(tx_queue)
<1>1. UNCHANGED <<latest, held, commands_sent, states_sent, offered>> /\ hand = <<>>
    BY DEF TakeCommand, sender, stats, sent, Goto, Base, Places
<1>2. CASE tx_queue # <<>>
  <2>1. tx_queue' = Tail(tx_queue) /\ hand' = <<Head(tx_queue)>>
      BY <1>2 DEF TakeCommand, TakeFirst
  <2>2. In(hand') = {Head(tx_queue)}
      BY <2>1, InOne
  <2>3. tx_queue \in Seq(Commands)
      BY DEF Base, TypeOK, FramesTyped
  <2>4. Head(tx_queue) = tx_queue[1]
      BY <1>2, <2>3, QueueTail
  <2>5. In(Tail(tx_queue)) \subseteq In(tx_queue) /\ Head(tx_queue) \in In(tx_queue)
      BY <1>2, <2>3, InTail
  <2>6. QED  BY <1>1, <1>2, <2>1, <2>2, <2>4, <2>5
<1>3. CASE tx_queue = <<>>
    BY <1>1, <1>3 DEF TakeCommand
<1>4. QED  BY <1>2, <1>3

LEMMA TakeLatestMoves ==
    ASSUME Base, TakeLatest
    PROVE  /\ UNCHANGED <<tx_queue, held, commands_sent, states_sent, offered>>
           /\ hand = <<>>
           /\ \/ UNCHANGED <<latest, hand>>
              \/ /\ latest # <<>> /\ latest' = Tail(latest)
                 /\ In(latest') \subseteq In(latest)
                 /\ In(hand') = {latest[1]} /\ latest[1] \in In(latest)
<1>1. UNCHANGED <<tx_queue, held, commands_sent, states_sent, offered>> /\ hand = <<>>
    BY DEF TakeLatest, sender, stats, sent, Goto, Base, Places
<1>2. CASE latest # <<>>
  <2>1. latest' = Tail(latest) /\ hand' = <<Head(latest)>>
      BY <1>2 DEF TakeLatest
  <2>2. In(hand') = {Head(latest)}
      BY <2>1, InOne
  <2>3. latest \in Seq(States)
      BY DEF Base, TypeOK, FramesTyped
  <2>4. Head(latest) = latest[1]
      BY <1>2, <2>3, QueueTail
  <2>5. In(Tail(latest)) \subseteq In(latest) /\ Head(latest) \in In(latest)
      BY <1>2, <2>3, InTail
  <2>6. QED  BY <1>1, <1>2, <2>1, <2>2, <2>4, <2>5
<1>3. CASE latest = <<>>
    BY <1>1, <1>3 DEF TakeLatest
<1>4. QED  BY <1>2, <1>3

LEMMA WriteMoves ==
    ASSUME Base, Write
    PROVE  /\ UNCHANGED <<tx_queue, latest, held, offered, connections>>
           /\ In(hand) = {hand[1]} /\ In(hand') = {}
           /\ \A f \in SentOnes' : f \in SentOnes \cup {hand[1]}
<1>1. UNCHANGED <<tx_queue, latest, held, offered, connections>> /\ hand' = <<>>
    BY DEF Write, queues, sender
<1>2. Len(hand) = 1 /\ Written.frame = hand[1]
    BY WriteGrows
<1>3. In(hand) = {hand[1]} /\ In(hand') = {}
    BY <1>1, <1>2, InEmpty DEF In
<1>4. Len(commands_sent) \in Nat /\ Len(states_sent) \in Nat
    BY Lengths
<1>5. ASSUME NEW i \in 1..Len(commands_sent')
      PROVE  commands_sent'[i].frame \in SentOnes \cup {hand[1]}
  <2>1. CASE /\ Len(commands_sent') = Len(commands_sent) + 1
             /\ \A j \in 1..Len(commands_sent) : commands_sent'[j] = commands_sent[j]
             /\ commands_sent'[Len(commands_sent) + 1] = Written
      BY <1>2, <1>4, <2>1 DEF SentOnes
  <2>2. CASE UNCHANGED commands_sent
      BY <2>2 DEF SentOnes
  <2>3. QED  BY <2>1, <2>2, WriteGrows DEF sent
<1>6. ASSUME NEW i \in 1..Len(states_sent')
      PROVE  states_sent'[i].frame \in SentOnes \cup {hand[1]}
  <2>1. CASE /\ Len(states_sent') = Len(states_sent) + 1
             /\ \A j \in 1..Len(states_sent) : states_sent'[j] = states_sent[j]
             /\ states_sent'[Len(states_sent) + 1] = Written
      BY <1>2, <1>4, <2>1 DEF SentOnes
  <2>2. CASE UNCHANGED states_sent
      BY <2>2 DEF SentOnes
  <2>3. QED  BY <2>1, <2>2, WriteGrows DEF sent
<1>7. QED  BY <1>1, <1>3, <1>5, <1>6 DEF SentOnes

LEMMA DiscardMoves ==
    ASSUME Base, DiscardCommand \/ DiscardLatest
    PROVE  /\ UNCHANGED <<hand, held, commands_sent, states_sent, offered>>
           /\ \/ UNCHANGED tx_queue
              \/ /\ tx_queue # <<>> /\ tx_queue' = Tail(tx_queue)
                 /\ In(tx_queue') \subseteq In(tx_queue)
           /\ \/ UNCHANGED latest
              \/ latest' = <<>> /\ In(latest') = {}
<1>1. tx_queue # <<>> => In(Tail(tx_queue)) \subseteq In(tx_queue)
    BY InTail DEF Base, TypeOK, FramesTyped
<1>2. QED  BY <1>1, InEmpty DEF DiscardCommand, DiscardLatest, sender, sent

LEMMA InitOrder == Init => Order
<1> SUFFICES ASSUME Init PROVE Order
    OBVIOUS
<1>1. /\ Len(commands_sent) = 0 /\ Len(states_sent) = 0 /\ Len(tx_queue) = 0
      /\ Len(latest) = 0 /\ Len(hand) = 0 /\ Len(held) = 0
    BY DEF Init
<1>2. In(hand) = {} /\ In(held) = {} /\ Queued = {} /\ SentOnes = {}
    BY <1>1 DEF In, Queued, SentOnes
<1>3. Ranked
    BY <1>2 DEF Ranked
<1>4. QueueInOrder /\ OneEach /\ StreamsGoForward
    BY <1>1 DEF QueueInOrder, OneEach, StreamsGoForward
<1>5. QED  BY <1>3, <1>4 DEF Order

(* The identifiers compared are numbers.                                        *)
LEMMA Numbered ==
    ASSUME Base
    PROVE  /\ SentOnes \cup In(hand) \cup Queued \cup In(held) \subseteq Frames
           /\ \A f \in Frames : f.id \in Nat /\ f.stream \in Streams
           /\ \A f \in In(tx_queue) : IsCommand(f)
           /\ \A f \in In(latest) : ~IsCommand(f)
           /\ offered \in Nat
<1> USE DEF Base, TypeOK, FramesTyped
<1>1. In(hand) \subseteq Frames /\ In(held) \subseteq Frames /\ In(tx_queue) \subseteq Commands
      /\ In(latest) \subseteq States
    BY ElementOfSeq DEF In
<1>2. /\ \A i \in 1..Len(commands_sent) : commands_sent[i].frame \in Commands
      /\ \A i \in 1..Len(states_sent) : states_sent[i].frame \in States
  <2>1. \A i \in 1..Len(commands_sent) : commands_sent[i] \in [frame : Commands, session : Nat]
      BY ElementOfSeq
  <2>2. \A i \in 1..Len(states_sent) : states_sent[i] \in [frame : States, session : Nat]
      BY ElementOfSeq
  <2>3. QED  BY <2>1, <2>2
<1>3. Commands \subseteq Frames /\ States \subseteq Frames
    BY DEF Commands, States
<1>4. SentOnes \subseteq Frames
    BY <1>2, <1>3 DEF SentOnes
<1>5. \A f \in Frames : f.id \in Nat /\ f.stream \in Streams
    BY BoundsAssumption DEF Frames
<1>6. offered \in Nat
    BY BoundsAssumption DEF CountsTyped
<1>7. QED  BY <1>1, <1>3, <1>4, <1>5, <1>6 DEF Queued, Commands, States

LEMMA MainRanked == Base /\ Order /\ Main => Ranked'
<1> SUFFICES ASSUME Base, Order, Main PROVE Ranked'
    OBVIOUS
<1> USE DEF Order, Ranked
<1>1. ASSUME NEW stream \in Streams, Offer(stream) PROVE Ranked'
  <2>1. UNCHANGED <<SentOnes, In(hand), Queued>> /\ offered' = offered + 1
      BY <1>1, OfferMoves DEF SentOnes, Queued, In
  <2>2. CASE UNCHANGED held
    <3>1. UNCHANGED In(held)
        BY <2>2 DEF In
    <3>2. \A f \in SentOnes \cup In(hand) \cup Queued \cup In(held) : f.id <= offered + 1
        BY Numbered
    <3>3. QED  BY <2>1, <3>1, <3>2 DEF Older
  <2>3. ASSUME NEW f, In(held') = {f}, f.id = offered + 1 PROVE Ranked'
    <3>1. \A g \in SentOnes \cup In(hand) \cup Queued : g.id < f.id
        BY <2>3, Numbered
    <3>2. \A g \in SentOnes \cup In(hand) \cup Queued \cup {f} : g.id <= offered + 1
        BY <2>3, Numbered
    <3>3. QED  BY <2>1, <2>3, <3>1, <3>2 DEF Older
  <2>4. QED  BY <1>1, <2>2, <2>3, OfferMoves
<1>2. ASSUME StoreCommand PROVE Ranked'
  <2>1. UNCHANGED <<SentOnes, In(hand), offered>> /\ In(held') = {}
        /\ Queued' \subseteq Queued \cup In(held)
      BY <1>2, StoreCommandMoves DEF SentOnes, Queued
  <2>2. QED  BY <2>1
<1>3. ASSUME StoreLatest PROVE Ranked'
  <2>1. UNCHANGED <<SentOnes, In(hand), offered>> /\ In(held') = {}
        /\ Queued' \subseteq Queued \cup In(held)
      BY <1>3, StoreLatestMoves DEF SentOnes, Queued
  <2>2. QED  BY <2>1
<1>4. ASSUME Stop \/ StopCloses \/ StopClears PROVE Ranked'
  <2>1. UNCHANGED <<hand, held, tx_queue, latest, commands_sent, states_sent, offered>>
      BY <1>4 DEF Stop, StopCloses, StopClears, worker, queues, stats, sent
  <2>2. UNCHANGED <<SentOnes, In(hand), Queued, In(held), offered>>
      BY <2>1 DEF SentOnes, Queued, In
  <2>3. QED  BY <2>2
<1>5. QED  BY <1>1, <1>2, <1>3, <1>4 DEF Main

LEMMA WorkerRanked == Base /\ Order /\ Worker => Ranked'
<1> SUFFICES ASSUME Base, Order, Worker PROVE Ranked'
    OBVIOUS
<1> USE DEF Order, Ranked
<1>1. ASSUME Loop \/ Read \/ Wait \/ OpenSerial \/ CloseDevice \/ ClearConnected \/ Announce
      PROVE  Ranked'
  <2>1. UNCHANGED <<hand, held, tx_queue, latest, commands_sent, states_sent, offered>>
      BY <1>1 DEF Loop, Read, Wait, OpenSerial, CloseDevice, ClearConnected, Announce, sent,
         queues, stats, sender
  <2>2. UNCHANGED <<SentOnes, In(hand), Queued, In(held), offered>>
      BY <2>1 DEF SentOnes, Queued, In
  <2>3. QED  BY <2>2
<1>2. ASSUME TakeCommand PROVE Ranked'
  <2>1. UNCHANGED <<SentOnes, In(held), offered>> /\ In(hand) = {}
      BY <1>2, TakeCommandMoves, InEmpty DEF SentOnes, In
  <2>2. CASE UNCHANGED <<tx_queue, hand>>
    <3>1. UNCHANGED <<In(hand), Queued>>
        BY <1>2, <2>2, TakeCommandMoves DEF In, Queued
    <3>2. QED  BY <2>1, <3>1
  <2>3. CASE /\ tx_queue # <<>> /\ tx_queue' = Tail(tx_queue)
             /\ In(tx_queue') \subseteq In(tx_queue)
             /\ In(hand') = {tx_queue[1]} /\ tx_queue[1] \in In(tx_queue)
    <3>1. Queued' \subseteq Queued /\ In(hand') \subseteq Queued
        BY <1>2, <2>3, TakeCommandMoves DEF Queued
    <3>2. \A g \in In(tx_queue') : tx_queue[1].id < g.id
      <4>1. tx_queue \in Seq(Commands)
          BY DEF Base, TypeOK, FramesTyped
      <4>2. /\ Len(tx_queue') = Len(tx_queue) - 1 /\ Len(tx_queue) \in Nat /\ Len(tx_queue) >= 1
            /\ \A i \in 1..(Len(tx_queue) - 1) : tx_queue'[i] = tx_queue[i + 1]
          BY <2>3, <4>1, QueueTail
      <4>3. QED  BY <4>2 DEF In, QueueInOrder
    <3>3. \A g \in In(latest') : tx_queue[1].stream # g.stream
        BY <1>2, <2>3, TakeCommandMoves, Numbered DEF IsCommand
    <3>4. \A f \in In(hand'), g \in Queued' : Older(f, g)
        BY <2>3, <3>2, <3>3 DEF Queued, Older
    <3>5. QED  BY <2>1, <3>1, <3>4
  <2>4. QED  BY <1>2, <2>2, <2>3, TakeCommandMoves
<1>3. ASSUME TakeLatest PROVE Ranked'
  <2>1. UNCHANGED <<SentOnes, In(held), offered>> /\ In(hand) = {}
      BY <1>3, TakeLatestMoves, InEmpty DEF SentOnes, In
  <2>2. CASE UNCHANGED <<latest, hand>>
    <3>1. UNCHANGED <<In(hand), Queued>>
        BY <1>3, <2>2, TakeLatestMoves DEF In, Queued
    <3>2. QED  BY <2>1, <3>1
  <2>3. CASE /\ latest # <<>> /\ latest' = Tail(latest)
             /\ In(latest') \subseteq In(latest)
             /\ In(hand') = {latest[1]} /\ latest[1] \in In(latest)
    <3>1. Queued' \subseteq Queued /\ In(hand') \subseteq Queued
        BY <1>3, <2>3, TakeLatestMoves DEF Queued
    <3>2. \A g \in In(latest') : latest[1].stream # g.stream
      <4>1. latest \in Seq(States)
          BY DEF Base, TypeOK, FramesTyped
      <4>2. /\ Len(latest') = Len(latest) - 1 /\ Len(latest) \in Nat /\ Len(latest) >= 1
            /\ \A i \in 1..(Len(latest) - 1) : latest'[i] = latest[i + 1]
          BY <2>3, <4>1, QueueTail
      <4>3. \A i \in 1..(Len(latest) - 1) : latest[1].stream # latest[i + 1].stream
          BY <4>2 DEF OneEach
      <4>4. QED  BY <4>2, <4>3 DEF In
    <3>3. \A g \in In(tx_queue') : latest[1].stream # g.stream
        BY <1>3, <2>3, TakeLatestMoves, Numbered DEF IsCommand
    <3>4. \A f \in In(hand'), g \in Queued' : Older(f, g)
        BY <2>3, <3>2, <3>3 DEF Queued, Older
    <3>5. QED  BY <2>1, <3>1, <3>4
  <2>4. QED  BY <1>3, <2>2, <2>3, TakeLatestMoves
<1>4. ASSUME Write PROVE Ranked'
  <2>1. UNCHANGED <<Queued, In(held), offered>> /\ In(hand') = {}
        /\ SentOnes' \subseteq SentOnes \cup In(hand)
      BY <1>4, WriteMoves DEF Queued, In
  <2>2. QED  BY <2>1
<1>5. ASSUME DiscardCommand \/ DiscardLatest PROVE Ranked'
  <2>1. UNCHANGED <<SentOnes, In(hand), In(held), offered>> /\ Queued' \subseteq Queued
      BY <1>5, DiscardMoves DEF SentOnes, Queued, In
  <2>2. QED  BY <2>1
<1>6. QED  BY <1>1, <1>2, <1>3, <1>4, <1>5 DEF Worker

LEMMA StepQueues == Base /\ Order /\ Next => QueueInOrder' /\ OneEach'
<1> SUFFICES ASSUME Base, Order, Next PROVE QueueInOrder' /\ OneEach'
    OBVIOUS
<1> USE DEF Order, Ranked
<1>1. UNCHANGED tx_queue => QueueInOrder'
    BY DEF QueueInOrder
<1>2. UNCHANGED latest => OneEach'
    BY DEF OneEach
<1>3. tx_queue # <<>> /\ tx_queue' = Tail(tx_queue) => QueueInOrder'
  <2>1. tx_queue \in Seq(Commands)
      BY DEF Base, TypeOK, FramesTyped
  <2>2. QED  BY <2>1, QueueTail DEF QueueInOrder
<1>4. latest # <<>> /\ latest' = Tail(latest) => OneEach'
  <2>1. latest \in Seq(States)
      BY DEF Base, TypeOK, FramesTyped
  <2>2. QED  BY <2>1, QueueTail DEF OneEach
<1>5. ASSUME NEW stream \in Streams, Offer(stream) PROVE QueueInOrder' /\ OneEach'
    BY <1>1, <1>2, <1>5, OfferMoves
<1>6. ASSUME StoreCommand PROVE QueueInOrder' /\ OneEach'
  <2>1. UNCHANGED latest
      BY <1>6, StoreCommandMoves
  <2>2. CASE UNCHANGED tx_queue
      BY <1>1, <1>2, <2>1, <2>2
  <2>3. CASE /\ Len(tx_queue') = Len(tx_queue) + 1 /\ Len(tx_queue) \in Nat
             /\ \A i \in 1..Len(tx_queue) : tx_queue'[i] = tx_queue[i]
             /\ tx_queue'[Len(tx_queue) + 1] = held[1]
    <3>1. \A i \in 1..Len(tx_queue) : Older(tx_queue[i], held[1])
        BY <1>6, StoreCommandMoves DEF Queued, In
    <3>2. \A i \in 1..Len(tx_queue) : tx_queue[i].stream = "command"
        BY Numbered DEF In, IsCommand
    <3>3. held[1].stream = "command"
        BY <1>6, StoreCommandMoves DEF Commands, IsCommand
    <3>4. \A i \in 1..Len(tx_queue) : tx_queue[i].id < held[1].id
        BY <3>1, <3>2, <3>3 DEF Older
    <3>5. QueueInOrder'
        BY <2>3, <3>4 DEF QueueInOrder
    <3>6. QED  BY <1>2, <2>1, <3>5
  <2>4. QED  BY <1>6, <2>2, <2>3, StoreCommandMoves
<1>7. ASSUME StoreLatest PROVE QueueInOrder' /\ OneEach'
  <2>1. UNCHANGED tx_queue /\ Len(latest) \in Nat
      BY <1>7, StoreLatestMoves, Lengths
  <2>2. ASSUME NEW k \in 1..Len(latest), latest[k].stream = held[1].stream,
               Len(latest') = Len(latest), latest'[Len(latest)] = held[1],
               \A i \in 1..(Len(latest) - 1) :
                   latest'[i] = IF i < k THEN latest[i] ELSE latest[i + 1]
        PROVE  OneEach'
    <3> DEFINE old(i) == IF i = Len(latest) THEN k ELSE IF i < k THEN i ELSE i + 1
    <3>1. \A i \in 1..Len(latest) : old(i) \in 1..Len(latest)
                                    /\ latest'[i].stream = latest[old(i)].stream
        BY <2>1, <2>2
    <3>2. \A i, j \in 1..Len(latest) : old(i) = old(j) => i = j
        BY <2>1, <2>2
    <3> HIDE DEF old
    <3>3. \A i, j \in 1..Len(latest) :
             latest[old(i)].stream = latest[old(j)].stream => old(i) = old(j)
        BY <3>1 DEF OneEach
    <3>4. \A i, j \in 1..Len(latest) : latest'[i].stream = latest'[j].stream => i = j
        BY <3>1, <3>2, <3>3
    <3>5. QED  BY <2>2, <3>4 DEF OneEach
  <2>3. ASSUME Len(latest') = Len(latest) + 1, latest'[Len(latest) + 1] = held[1],
               \A i \in 1..Len(latest) : latest'[i] = latest[i], Unsent = {}
        PROVE  OneEach'
    <3>1. \A i \in 1..Len(latest) : latest[i].stream # held[1].stream
        BY <2>3, LenProperties DEF Unsent, Base, TypeOK, FramesTyped
    <3>2. QED  BY <2>1, <2>3, <3>1 DEF OneEach
  <2>4. QED  BY <1>1, <1>7, <2>1, <2>2, <2>3, StoreLatestGrows
<1>8. ASSUME Stop \/ StopCloses \/ StopClears PROVE QueueInOrder' /\ OneEach'
    BY <1>1, <1>2, <1>8 DEF Stop, StopCloses, StopClears, queues
<1>9. ASSUME Loop \/ Read \/ Wait \/ OpenSerial \/ CloseDevice \/ ClearConnected \/ Announce
      PROVE  QueueInOrder' /\ OneEach'
    BY <1>1, <1>2, <1>9 DEF Loop, Read, Wait, OpenSerial, CloseDevice, ClearConnected, Announce,
       queues
<1>10. ASSUME TakeCommand \/ TakeLatest \/ Write PROVE QueueInOrder' /\ OneEach'
    BY <1>1, <1>2, <1>3, <1>4, <1>10, TakeCommandMoves, TakeLatestMoves, WriteMoves
<1>11. ASSUME DiscardCommand \/ DiscardLatest PROVE QueueInOrder' /\ OneEach'
  <2>1. latest' = <<>> => OneEach'
      BY DEF OneEach
  <2>2. QED  BY <1>1, <1>2, <1>3, <1>11, <2>1, DiscardMoves
<1>12. QED
    BY <1>5, <1>6, <1>7, <1>8, <1>9, <1>10, <1>11 DEF Next, Main, Worker

LEMMA StepForward == Base /\ Order /\ Next => StreamsGoForward'
<1> SUFFICES ASSUME Base, Order, Next PROVE StreamsGoForward'
    OBVIOUS
<1> USE DEF Order
<1>1. UNCHANGED <<commands_sent, states_sent>> => StreamsGoForward'
    BY DEF StreamsGoForward
<1>2. ASSUME Write PROVE StreamsGoForward'
  <2>1. \A f \in SentOnes : Older(f, hand[1])
      BY <1>2, WriteMoves DEF Ranked
  <2>2. Len(commands_sent) \in Nat /\ Len(states_sent) \in Nat /\ Written.frame = hand[1]
      BY <1>2, Lengths, WriteGrows
  <2>3. CASE /\ IsCommand(hand[1])
             /\ Len(commands_sent') = Len(commands_sent) + 1
             /\ \A i \in 1..Len(commands_sent) : commands_sent'[i] = commands_sent[i]
             /\ commands_sent'[Len(commands_sent) + 1] = Written
             /\ UNCHANGED <<states_sent, dropped>>
    <3>1. \A i \in 1..Len(commands_sent) : IsCommand(commands_sent[i].frame)
      <4>1. \A i \in 1..Len(commands_sent) :
               commands_sent[i] \in [frame : Commands, session : Nat]
          BY ElementOfSeq DEF Base, TypeOK, FramesTyped
      <4>2. QED  BY <4>1 DEF Commands
    <3>2. \A i \in 1..Len(commands_sent) : commands_sent[i].frame.id < hand[1].id
        BY <2>1, <2>3, <3>1 DEF Older, IsCommand, SentOnes
    <3>3. QED  BY <2>2, <2>3, <3>2 DEF StreamsGoForward
  <2>4. CASE /\ Len(states_sent') = Len(states_sent) + 1
             /\ \A i \in 1..Len(states_sent) : states_sent'[i] = states_sent[i]
             /\ states_sent'[Len(states_sent) + 1] = Written
             /\ UNCHANGED <<commands_sent, dropped>>
    <3>1. \A i \in 1..Len(states_sent) : Older(states_sent[i].frame, hand[1])
        BY <2>1 DEF SentOnes
    <3>2. \A i, j \in 1..Len(states_sent') :
             i < j /\ states_sent'[i].frame.stream = states_sent'[j].frame.stream
                 => states_sent'[i].frame.id < states_sent'[j].frame.id
      <4> SUFFICES ASSUME NEW i \in 1..Len(states_sent'), NEW j \in 1..Len(states_sent'), i < j,
                          states_sent'[i].frame.stream = states_sent'[j].frame.stream
                   PROVE  states_sent'[i].frame.id < states_sent'[j].frame.id
          OBVIOUS
      <4>1. i \in 1..Len(states_sent) /\ states_sent'[i] = states_sent[i]
          BY <2>2, <2>4
      <4>2. CASE j = Len(states_sent) + 1
          BY <2>2, <2>4, <3>1, <4>1, <4>2 DEF Older
      <4>3. CASE j \in 1..Len(states_sent)
          BY <2>4, <4>1, <4>3 DEF StreamsGoForward
      <4>4. QED  BY <2>2, <2>4, <4>2, <4>3
    <3>3. QED  BY <2>4, <3>2 DEF StreamsGoForward
  <2>5. QED  BY <1>1, <1>2, <2>3, <2>4, WriteGrows DEF sent
<1>3. ASSUME Main PROVE UNCHANGED <<commands_sent, states_sent>>
    BY <1>3 DEF Main, Offer, StoreCommand, StoreLatest, Stop, StopCloses, StopClears, stats, sent
<1>4. ASSUME Worker, ~Write PROVE UNCHANGED <<commands_sent, states_sent>>
    BY <1>4 DEF Worker, Loop, Read, Wait, OpenSerial, CloseDevice, ClearConnected, Announce,
       TakeCommand, TakeLatest, DiscardCommand, DiscardLatest, stats, sent
<1>5. QED  BY <1>1, <1>2, <1>3, <1>4 DEF Next

LEMMA StutterOrder == Order /\ UNCHANGED vars => Order'
    BY DEF Order, Ranked, QueueInOrder, OneEach, StreamsGoForward, SentOnes, Queued, In, Older,
       vars, worker, sender, queues, stats, sent

(* No stream goes back: of two frames of one stream the older is never written after the     *)
(* newer, whatever is dropped, replaced or discarded between them.                *)
THEOREM StreamsAlwaysGoForward == Spec => []StreamsGoForward
<1>1. Order => StreamsGoForward
    BY DEF Order
<1>2. Base /\ Order /\ [Next]_vars => Order'
    BY MainRanked, WorkerRanked, StepQueues, StepForward, StutterOrder DEF Next, Order
<1>3. QED  BY <1>1, <1>2, InitOrder, InductiveBase, PTL DEF Spec
-----------------------------------------------------------------------------
AtMostOne(S) == \A f, g \in S : f = g

(* The frames of an earlier connection.  send() holds one frame at most, and the worker      *)
(* discards everything else before it opens the port again.                      *)
Afloat == In(hand) \cup Queued \cup In(held)
Late   == {f \in Afloat : f.session # connections}

Dated ==
    /\ connected => AtMostOne(Late)
    /\ pc = "discard_latest" => AtMostOne(In(tx_queue) \cup In(held))
    /\ pc \in {"wait", "open", "announce"} \/ (pc = "loop" /\ ~connected /\ ~stopping)
          => AtMostOne(Afloat)

LEMMA InitDated == Init => Dated
<1> SUFFICES ASSUME Init PROVE Dated
    OBVIOUS
<1>1. Len(tx_queue) = 0 /\ Len(latest) = 0 /\ Len(hand) = 0 /\ Len(held) = 0
    BY DEF Init
<1>2. In(hand) = {} /\ In(held) = {} /\ In(tx_queue) = {} /\ In(latest) = {}
    BY <1>1 DEF In
<1>3. QED  BY <1>2 DEF Dated, AtMostOne, Afloat, Late, Queued

LEMMA MainDated == Base /\ Dated /\ Main => Dated'
<1> SUFFICES ASSUME Base, Dated, Main PROVE Dated'
    OBVIOUS
<1> USE DEF Dated, AtMostOne
<1>1. ASSUME NEW stream \in Streams, Offer(stream) PROVE Dated'
  <2>1. UNCHANGED <<In(hand), In(tx_queue), Queued>>
      BY <1>1, OfferMoves DEF Queued, In
  <2>2. UNCHANGED <<pc, connected, stopping, connections>>
      BY <1>1 DEF Offer, worker, port
  <2>3. CASE UNCHANGED held
    <3>1. UNCHANGED In(held)
        BY <2>3 DEF In
    <3>2. UNCHANGED <<Afloat, Late>>
        BY <2>1, <2>2, <3>1 DEF Afloat, Late
    <3>3. QED  BY <2>1, <2>2, <3>1, <3>2
  <2>4. ASSUME NEW f, In(held') = {f}, f.session = connections, connected PROVE Dated'
    <3>1. Late' \subseteq Late
        BY <2>1, <2>2, <2>4 DEF Late, Afloat
    <3>2. pc \notin Offline
        BY <2>4 DEF Base, Places
    <3>3. QED  BY <2>2, <2>4, <3>1, <3>2 DEF Offline
  <2>5. QED  BY <1>1, <2>3, <2>4, OfferMoves
<1>2. ASSUME StoreCommand \/ StoreLatest PROVE Dated'
  <2>1. /\ UNCHANGED In(hand) /\ In(held') = {}
        /\ In(tx_queue') \subseteq In(tx_queue) \cup In(held)
        /\ Queued' \subseteq Queued \cup In(held)
      BY <1>2, StoreCommandMoves, StoreLatestMoves DEF Queued
  <2>2. UNCHANGED <<pc, connected, stopping, connections>>
      BY <1>2 DEF StoreCommand, StoreLatest, worker, port
  <2>3. Afloat' \subseteq Afloat /\ Late' \subseteq Late
      BY <2>1, <2>2 DEF Afloat, Late
  <2>4. QED  BY <2>1, <2>2, <2>3
<1>3. ASSUME Stop \/ StopCloses \/ StopClears PROVE Dated'
  <2>1. UNCHANGED <<hand, held, tx_queue, latest, pc, connections>>
      BY <1>3 DEF Stop, StopCloses, StopClears, worker, queues, stats
  <2>2. UNCHANGED <<In(tx_queue), In(held), Afloat, Late>>
      BY <2>1 DEF Afloat, Late, Queued, In
  <2>3. (connected' => connected) /\ stopping'
      BY <1>3 DEF Stop, StopCloses, StopClears, Base, Places, port
  <2>4. QED  BY <2>1, <2>2, <2>3
<1>4. QED  BY <1>1, <1>2, <1>3 DEF Main

(* A step of the worker that moves no frame.                                     *)
LEMMA StillAfloat ==
    ASSUME UNCHANGED <<hand, held, tx_queue, latest>>
    PROVE  /\ UNCHANGED <<In(tx_queue), In(held), Afloat>>
           /\ connections' = connections => UNCHANGED Late
    BY DEF Afloat, Late, Queued, In

LEMMA WorkerDated == Base /\ Dated /\ Worker => Dated'
<1> SUFFICES ASSUME Base, Dated, Worker PROVE Dated'
    OBVIOUS
<1> USE DEF Dated, AtMostOne
<1>1. ASSUME Loop \/ Read \/ Wait \/ OpenSerial \/ CloseDevice \/ ClearConnected PROVE Dated'
  <2>1. UNCHANGED <<hand, held, tx_queue, latest, connections, stopping>>
        /\ (connected' => UNCHANGED connected)
      BY <1>1 DEF Loop, Read, Wait, OpenSerial, CloseDevice, ClearConnected, port, queues, stats,
         sender
  <2>2. UNCHANGED <<In(tx_queue), In(held), Afloat, Late>>
      BY <2>1, StillAfloat
  <2>3. pc' # "discard_latest"
      BY <1>1 DEF Loop, Read, Wait, OpenSerial, CloseDevice, ClearConnected, Goto
  <2>4. pc' \in {"wait", "open", "announce"} \/ (pc' = "loop" /\ ~connected' /\ ~stopping')
           => pc \in {"wait", "open", "announce"} \/ (pc = "loop" /\ ~connected /\ ~stopping)
      BY <1>1 DEF Loop, Read, Wait, OpenSerial, CloseDevice, ClearConnected, Goto, Base, Places,
         port, Online
  <2>5. QED  BY <2>1, <2>2, <2>3, <2>4
<1>2. ASSUME Announce PROVE Dated'
  <2>1. UNCHANGED <<hand, held, tx_queue, latest>> /\ pc = "announce" /\ pc' = "take"
      BY <1>2 DEF Announce, queues, sender, Goto
  <2>2. UNCHANGED Afloat
      BY <2>1, StillAfloat
  <2>3. Late' \subseteq Afloat
      BY <2>2 DEF Late
  <2>4. QED  BY <2>1, <2>3
<1>3. ASSUME TakeCommand \/ TakeLatest PROVE Dated'
  <2>1. Afloat' \subseteq Afloat
      BY <1>3, TakeCommandMoves, TakeLatestMoves DEF Afloat, Queued, In
  <2>2. UNCHANGED <<connected, connections>> /\ pc' \in {"write", "take_latest", "read"}
      BY <1>3 DEF TakeCommand, TakeLatest, Goto, port, stats
  <2>3. Late' \subseteq Late
      BY <2>1, <2>2 DEF Late
  <2>4. QED  BY <2>2, <2>3
<1>4. ASSUME Write PROVE Dated'
  <2>1. Afloat' \subseteq Afloat
      BY <1>4, WriteMoves DEF Afloat, Queued, In
  <2>2. UNCHANGED <<connected, connections, stopping>> /\ pc' \in {"read", "loop", "close"}
        /\ pc = "write"
      BY <1>4 DEF Write, Goto, port
  <2>3. Late' \subseteq Late
      BY <2>1, <2>2 DEF Late
  <2>4. connected \/ stopping
      BY <2>2 DEF Base, Places, Online
  <2>5. QED  BY <2>2, <2>3, <2>4
<1>5. ASSUME DiscardCommand PROVE Dated'
  <2>1. UNCHANGED <<connected, connections, held>> /\ ~connected
        /\ pc' \in {"discard", "discard_latest"}
      BY <1>5 DEF DiscardCommand, Goto, port, sender, Base, Places, Offline
  <2>2. pc' = "discard_latest" => In(tx_queue') = {} /\ UNCHANGED In(held)
      BY <1>5, InEmpty DEF DiscardCommand, In, sender
  <2>3. AtMostOne(In(held))
      BY DEF In, Base, TypeOK, FramesTyped
  <2>4. QED  BY <2>1, <2>2, <2>3
<1>6. ASSUME DiscardLatest PROVE Dated'
  <2>1. /\ UNCHANGED <<connected, connections, held, hand, tx_queue>> /\ ~connected
        /\ pc = "discard_latest" /\ pc' = "wait" /\ latest' = <<>>
      BY <1>6 DEF DiscardLatest, Goto, port, sender, Base, Places, Offline
  <2>2. hand = <<>>
      BY <2>1 DEF Base, Places
  <2>3. Afloat' \subseteq In(tx_queue) \cup In(held)
      BY <2>1, <2>2, InEmpty DEF Afloat, Queued
  <2>4. QED  BY <2>1, <2>3
<1>7. QED  BY <1>1, <1>2, <1>3, <1>4, <1>5, <1>6 DEF Worker

LEMMA StutterDated == Dated /\ UNCHANGED vars => Dated'
    BY DEF Dated, AtMostOne, Afloat, Late, Queued, In, vars, worker, sender, queues, port, stats

(* Range is In on the queues.                                                   *)
LEMMA RangeIn ==
    ASSUME NEW S, NEW s \in Seq(S)
    PROVE  Range(s) = In(s)
<1>1. DOMAIN s = 1..Len(s)
    BY LenProperties
<1>2. QED  BY <1>1 DEF Range, In

(* A disconnection never lets more than one frame of an earlier connection through, however   *)
(* send() and the worker interleave.                                             *)
THEOREM AlwaysAtMostOneStale == Spec => []AtMostOneStale
<1>1. Base /\ Dated => AtMostOneStale
  <2> SUFFICES ASSUME Base, Dated, connected PROVE Cardinality(Stale) <= 1
      BY DEF AtMostOneStale
  <2>1. Range(tx_queue) = In(tx_queue) /\ Range(latest) = In(latest) /\ Range(hand) = In(hand)
      BY RangeIn DEF Base, TypeOK, FramesTyped
  <2>2. Stale \subseteq Late
      BY <2>1 DEF Stale, UnderWay, Late, Afloat, Queued
  <2>3. AtMostOne(Stale)
      BY <2>2 DEF Dated, AtMostOne
  <2>4. CASE Stale = {}
      BY <2>4, FS_EmptySet
  <2>5. ASSUME NEW f \in Stale PROVE Cardinality(Stale) <= 1
    <3>1. Stale = {f}
        BY <2>3 DEF AtMostOne
    <3>2. Cardinality({f}) = 1
        BY FS_Singleton
    <3>3. QED  BY <3>1, <3>2
  <2>6. QED  BY <2>4, <2>5
<1>2. Base /\ Dated /\ [Next]_vars => Dated'
    BY MainDated, WorkerDated, StutterDated DEF Next
<1>3. QED  BY <1>1, <1>2, InitDated, InductiveBase, PTL DEF Spec
-----------------------------------------------------------------------------
(* The abstract channel: the command in hand before those queued, and the commands written.    *)
Line == CommandInHand \o tx_queue
Wire == [i \in 1..Len(commands_sent) |-> commands_sent[i].frame]

LEMMA ConsTail ==
    ASSUME NEW S, NEW x \in S, NEW q \in Seq(S)
    PROVE  /\ <<x>> \o q # <<>> /\ Head(<<x>> \o q) = x /\ Tail(<<x>> \o q) = q
<1> DEFINE s == <<x>> \o q
<1>1. <<x>> \in Seq(S) /\ Len(<<x>>) = 1 /\ <<x>>[1] = x
    OBVIOUS
<1>2. s \in Seq(S) /\ Len(s) = 1 + Len(q) /\ Len(q) \in Nat
      /\ \A i \in 1..(1 + Len(q)) : s[i] = IF i <= 1 THEN <<x>>[i] ELSE q[i - 1]
    BY <1>1, ConcatProperties, LenProperties
<1> HIDE DEF s
<1>3. s # <<>>
    BY <1>2, EmptySeq
<1>4. Head(s) = s[1] /\ Tail(s) \in Seq(S) /\ Len(Tail(s)) = Len(s) - 1
      /\ \A i \in 1..(Len(s) - 1) : Tail(s)[i] = s[i + 1]
    BY <1>2, <1>3, QueueTail
<1>5. Head(s) = x
    BY <1>1, <1>2, <1>4
<1>6. Len(Tail(s)) = Len(q) /\ \A i \in 1..Len(q) : Tail(s)[i] = q[i]
    BY <1>2, <1>4
<1>7. Tail(s) = q
    BY <1>4, <1>6, SeqEqual
<1>8. QED  BY <1>3, <1>5, <1>7 DEF s

LEMMA ConsHead ==
    ASSUME NEW S, NEW q \in Seq(S), q # <<>>
    PROVE  <<Head(q)>> \o Tail(q) = q
<1> DEFINE s == <<Head(q)>> \o Tail(q)
<1> DEFINE h == <<Head(q)>>
<1>1. Head(q) = q[1] /\ Head(q) \in S /\ Tail(q) \in Seq(S) /\ Len(q) \in Nat /\ Len(q) >= 1
      /\ Len(Tail(q)) = Len(q) - 1 /\ \A i \in 1..(Len(q) - 1) : Tail(q)[i] = q[i + 1]
    BY QueueTail
<1>2. h \in Seq(S) /\ Len(h) = 1 /\ h[1] = q[1]
    BY <1>1
<1> HIDE DEF h
<1>3. s \in Seq(S) /\ Len(s) = 1 + Len(Tail(q))
      /\ \A i \in 1..(1 + Len(Tail(q))) : s[i] = IF i <= 1 THEN h[i] ELSE Tail(q)[i - 1]
    BY <1>1, <1>2, ConcatProperties DEF h
<1> HIDE DEF s
<1>4. Len(s) = Len(q) /\ \A i \in 1..Len(s) : s[i] = q[i]
  <2>1. Len(s) = Len(q)
      BY <1>1, <1>3
  <2>2. ASSUME NEW i \in 1..Len(s) PROVE s[i] = q[i]
    <3>1. CASE i = 1
        BY <1>1, <1>2, <1>3, <2>1, <3>1
    <3>2. CASE i # 1
      <4>1. i - 1 \in 1..(Len(q) - 1) /\ (i - 1) + 1 = i
          BY <1>1, <2>1, <3>2
      <4>2. s[i] = Tail(q)[i - 1]
          BY <1>1, <1>3, <2>1, <3>2
      <4>3. QED  BY <1>1, <4>1, <4>2
    <3>3. QED  BY <3>1, <3>2
  <2>3. QED  BY <2>1, <2>2
<1>5. s = q
    BY <1>3, <1>4, SeqEqual
<1>6. QED  BY <1>5 DEF s

LEMMA LineOf ==
    ASSUME Base
    PROVE  /\ CommandInHand \in Seq(Commands) /\ tx_queue \in Seq(Commands)
           /\ Len(CommandInHand) \in {0, 1} /\ Line \in Seq(Commands)
           /\ Len(Line) = Len(CommandInHand) + Len(tx_queue)
           /\ hand = <<>> => Line = tx_queue
           /\ hand # <<>> /\ ~IsCommand(hand[1]) => Line = tx_queue
           /\ hand # <<>> /\ IsCommand(hand[1]) =>
                 hand[1] \in Commands /\ Line = <<hand[1]>> \o tx_queue
<1> USE DEF Base, TypeOK, FramesTyped
<1>1. CASE hand # <<>> /\ IsCommand(hand[1])
  <2>1. hand[1] \in Commands /\ Len(hand) = 1
      BY <1>1, OneHeld DEF Commands
  <2>2. hand = <<hand[1]>>
    <3>1. hand \in Seq(Frames) /\ <<hand[1]>> \in Seq(Frames) /\ Len(<<hand[1]>>) = 1
        BY <2>1 DEF Commands
    <3>2. \A i \in 1..Len(hand) : hand[i] = <<hand[1]>>[i]
        BY <2>1
    <3>3. QED  BY <2>1, <3>1, <3>2, SeqEqual
  <2>3. <<hand[1]>> \in Seq(Commands) /\ Len(<<hand[1]>>) = 1
      BY <2>1
  <2>4. CommandInHand = <<hand[1]>>
      BY <1>1, <2>2 DEF CommandInHand
  <2>5. tx_queue \in Seq(Commands)
      OBVIOUS
  <2> HIDE DEF Base, TypeOK, FramesTyped
  <2>6. <<hand[1]>> \o tx_queue \in Seq(Commands)
        /\ Len(<<hand[1]>> \o tx_queue) = Len(<<hand[1]>>) + Len(tx_queue)
      BY <2>3, <2>5, ConcatProperties
  <2>7. QED  BY <1>1, <2>1, <2>3, <2>4, <2>5, <2>6 DEF Line
<1>2. CASE ~(hand # <<>> /\ IsCommand(hand[1]))
  <2>1. CommandInHand = <<>>
      BY <1>2 DEF CommandInHand
  <2>2. Line = tx_queue
      BY <2>1, ConcatEmptySeq DEF Line
  <2>3. QED  BY <1>2, <2>1, <2>2, EmptySeq, LenProperties
<1>3. QED  BY <1>1, <1>2

(* What every step does to the channel.                                         *)
Accepted(f) == f \in Frames /\ Len(Line) <= QueueSize /\ Line' = Append(Line, f) /\ Wire' = Wire
Delivered   == Line # <<>> /\ Line' = Tail(Line) /\ Wire' = Append(Wire, Head(Line))
Lost        == Line # <<>> /\ Line' = Tail(Line) /\ Wire' = Wire

LEMMA MainOnChannel ==
    ASSUME Base, Main
    PROVE  (\E f \in Frames : Accepted(f)) \/ UNCHANGED <<Line, Wire>>
<1>1. UNCHANGED <<Wire, CommandInHand>>
  <2>1. UNCHANGED <<commands_sent, hand>>
      BY DEF Main, Offer, StoreCommand, StoreLatest, Stop, StopCloses, StopClears, stats, sent,
         worker
  <2>2. QED  BY <2>1 DEF Wire, CommandInHand
<1>2. CASE UNCHANGED tx_queue
    BY <1>1, <1>2 DEF Line
<1>3. CASE /\ StoreCommand /\ tx_queue' = Append(tx_queue, held[1])
           /\ Len(tx_queue) < QueueSize
  <2>1. held[1] \in Commands
      BY <1>3, StoreCommandMoves
  <2>2. /\ CommandInHand \in Seq(Commands) /\ tx_queue \in Seq(Commands)
        /\ Len(CommandInHand) \in {0, 1} /\ Len(tx_queue) \in Nat
        /\ Len(Line) = Len(CommandInHand) + Len(tx_queue)
      BY LineOf, Lengths
  <2>3. Append(CommandInHand \o tx_queue, held[1]) = CommandInHand \o Append(tx_queue, held[1])
    <3>1. <<held[1]>> \in Seq(Commands)
        BY <2>1
    <3>2. /\ CommandInHand \o tx_queue \in Seq(Commands)
          /\ (CommandInHand \o tx_queue) \o <<held[1]>>
                = CommandInHand \o (tx_queue \o <<held[1]>>)
        BY <2>2, <3>1, ConcatProperties, ConcatAssociative
    <3>3. QED  BY <2>1, <2>2, <3>2, AppendIsConcat
  <2>4. Line' = Append(Line, held[1])
      BY <1>1, <1>3, <2>3 DEF Line
  <2>5. Len(Line) <= QueueSize
    <3> DEFINE n == Len(CommandInHand)
    <3> DEFINE m == Len(tx_queue)
    <3>1. n \in {0, 1} /\ m \in Nat /\ Len(Line) = n + m /\ m < QueueSize
        BY <1>3, <2>2
    <3> HIDE DEF n, m
    <3>2. QED  BY <3>1, QueueAssumption
  <2>6. QED  BY <1>1, <2>1, <2>4, <2>5 DEF Accepted, Commands
<1>4. QED  BY <1>2, <1>3 DEF Main, Offer, StoreCommand, StoreLatest, Stop, StopCloses,
              StopClears, queues

LEMMA WorkerOnChannel ==
    ASSUME Base, Base', Worker
    PROVE  Delivered \/ Lost \/ UNCHANGED <<Line, Wire>>
<1>1. ASSUME Loop \/ Read \/ Wait \/ OpenSerial \/ CloseDevice \/ ClearConnected \/ Announce
             \/ DiscardLatest
      PROVE  UNCHANGED <<Line, Wire>>
  <2>1. UNCHANGED <<hand, tx_queue, commands_sent>>
      BY <1>1 DEF Loop, Read, Wait, OpenSerial, CloseDevice, ClearConnected, Announce,
         DiscardLatest, sent, queues, stats
  <2>2. QED  BY <2>1 DEF Line, Wire, CommandInHand
<1>2. ASSUME TakeCommand PROVE UNCHANGED <<Line, Wire>>
  <2>1. UNCHANGED Wire
      BY <1>2, TakeCommandMoves DEF Wire
  <2>2. CASE tx_queue # <<>>
    <3>1. hand = <<>> /\ hand' = <<Head(tx_queue)>> /\ tx_queue' = Tail(tx_queue)
        BY <1>2, <2>2, TakeCommandMoves DEF TakeCommand, TakeFirst
    <3>2. tx_queue \in Seq(Commands) /\ Head(tx_queue) \in Commands
        BY <2>2, QueueTail DEF Base, TypeOK, FramesTyped
    <3>3. CommandInHand = <<>> /\ CommandInHand' = <<Head(tx_queue)>>
        BY <3>1, <3>2, NonEmpty DEF CommandInHand, Commands
    <3>4. Line = tx_queue
        BY <3>1, LineOf
    <3>5. Line' = tx_queue
        BY <2>2, <3>1, <3>2, <3>3, ConsHead DEF Line
    <3>6. QED  BY <2>1, <3>4, <3>5
  <2>3. CASE tx_queue = <<>>
      BY <1>2, <2>1, <2>3 DEF TakeCommand, Line, CommandInHand
  <2>4. QED  BY <2>2, <2>3
<1>3. ASSUME TakeLatest PROVE UNCHANGED <<Line, Wire>>
  <2>1. UNCHANGED <<tx_queue, Wire>> /\ hand = <<>>
      BY <1>3, TakeLatestMoves DEF Wire
  <2>2. CASE latest # <<>>
    <3>1. hand' = <<Head(latest)>> /\ Head(latest) \in States
        BY <1>3, <2>2, QueueTail DEF TakeLatest, Base, TypeOK, FramesTyped
    <3>2. CommandInHand = <<>> /\ CommandInHand' = <<>>
        BY <2>1, <3>1, NonEmpty DEF CommandInHand, States, Commands
    <3>3. QED  BY <2>1, <3>2 DEF Line
  <2>3. CASE latest = <<>>
      BY <1>3, <2>1, <2>3 DEF TakeLatest, Line, CommandInHand
  <2>4. QED  BY <2>2, <2>3
<1>4. ASSUME Write PROVE Delivered \/ Lost \/ UNCHANGED <<Line, Wire>>
  <2>1. hand # <<>> /\ hand' = <<>> /\ UNCHANGED tx_queue
      BY <1>4, WriteGrows, WriteMoves DEF Write
  <2>2. CommandInHand' = <<>> /\ tx_queue \in Seq(Commands)
      BY <2>1, LineOf DEF CommandInHand
  <2>3. Line' = tx_queue
      BY <2>1, <2>2, ConcatEmptySeq DEF Line
  <2>4. UNCHANGED commands_sent => UNCHANGED Wire
      BY DEF Wire
  <2>5. CASE ~IsCommand(hand[1])
    <3>1. Line = tx_queue
        BY <2>1, <2>5, LineOf
    <3>2. UNCHANGED commands_sent
        BY <1>4, <2>5, WriteGrows DEF sent
    <3>3. QED  BY <2>3, <2>4, <3>1, <3>2
  <2>6. CASE IsCommand(hand[1])
    <3>1. hand[1] \in Commands /\ Line = <<hand[1]>> \o tx_queue
        BY <2>1, <2>6, LineOf
    <3>2. Line # <<>> /\ Head(Line) = hand[1] /\ Tail(Line) = tx_queue
        BY <2>2, <3>1, ConsTail
    <3>3. CASE UNCHANGED commands_sent
        BY <2>3, <2>4, <3>2, <3>3 DEF Lost
    <3>4. CASE /\ Len(commands_sent') = Len(commands_sent) + 1
               /\ \A i \in 1..Len(commands_sent) : commands_sent'[i] = commands_sent[i]
               /\ commands_sent'[Len(commands_sent) + 1] = Written
      <4>1. Len(commands_sent) \in Nat /\ Written.frame = hand[1]
          BY <1>4, Lengths, WriteGrows
      <4>2. Wire \in Seq(Commands) /\ Len(Wire) = Len(commands_sent)
        <5>1. \A i \in 1..Len(commands_sent) :
                 commands_sent[i] \in [frame : Commands, session : Nat]
            BY ElementOfSeq DEF Base, TypeOK, FramesTyped
        <5>2. \A i \in 1..Len(commands_sent) : commands_sent[i].frame \in Commands
            BY <5>1
        <5>3. QED  BY <4>1, <5>2, IsASeq DEF Wire
      <4>3. Wire' \in Seq(Commands) /\ Len(Wire') = Len(commands_sent')
        <5>1. \A i \in 1..Len(commands_sent') :
                 commands_sent'[i] \in [frame : Commands, session : Nat]
            BY ElementOfSeq DEF Base, TypeOK, FramesTyped
        <5>2. \A i \in 1..Len(commands_sent') : commands_sent'[i].frame \in Commands
            BY <5>1
        <5>3. QED  BY <3>4, <4>1, <5>2, IsASeq DEF Wire
      <4> DEFINE longer == Append(Wire, hand[1])
      <4>4. longer \in Seq(Commands) /\ Len(longer) = Len(Wire) + 1
            /\ (\A i \in 1..Len(Wire) : longer[i] = Wire[i]) /\ longer[Len(Wire) + 1] = hand[1]
          BY <3>1, <4>2, AppendProperties
      <4> HIDE DEF longer
      <4>5. \A i \in 1..Len(Wire') : Wire'[i] = longer[i]
        <5>1. \A i \in 1..Len(commands_sent') : Wire'[i] = commands_sent'[i].frame
            BY DEF Wire
        <5>2. \A i \in 1..Len(commands_sent) : Wire[i] = commands_sent[i].frame
            BY DEF Wire
        <5>3. QED  BY <3>4, <4>1, <4>2, <4>3, <4>4, <5>1, <5>2
      <4>6. Len(Wire') = Len(longer)
          BY <3>4, <4>2, <4>3, <4>4
      <4>7. Wire' = longer
          BY <4>3, <4>4, <4>5, <4>6, SeqEqual
      <4>8. QED  BY <2>3, <3>2, <4>7 DEF Delivered, longer
    <3>5. QED  BY <1>4, <3>3, <3>4, WriteGrows DEF sent
  <2>7. QED  BY <2>5, <2>6
<1>5. ASSUME DiscardCommand PROVE Lost \/ UNCHANGED <<Line, Wire>>
  <2>1. UNCHANGED <<CommandInHand, Wire>>
      BY <1>5, DiscardMoves DEF CommandInHand, Wire
  <2>2. CASE tx_queue # <<>> /\ pc = "discard" /\ tx_queue' = Tail(tx_queue)
    <3>1. hand = <<>> /\ hand' = <<>>
        BY <1>5, <2>2, DiscardMoves DEF Base, Places
    <3>2. Line = tx_queue
        BY <3>1, LineOf
    <3>3. Line' = tx_queue'
      <4>1. CommandInHand' = <<>>
          BY <3>1 DEF CommandInHand
      <4>2. tx_queue' \in Seq(Commands)
          BY DEF Base, TypeOK, FramesTyped
      <4>3. QED  BY <4>1, <4>2, ConcatEmptySeq DEF Line
    <3>4. QED  BY <2>1, <2>2, <3>2, <3>3 DEF Lost
  <2>3. CASE UNCHANGED tx_queue
      BY <2>1, <2>3 DEF Line
  <2>4. QED  BY <1>5, <2>2, <2>3 DEF DiscardCommand
<1>6. QED  BY <1>1, <1>2, <1>3, <1>4, <1>5 DEF Worker

(* The commands of the transport are a bounded channel that loses but never duplicates or      *)
(* overtakes (send, _take_next_frame, _write_one_queued_frame, _discard_pending).   *)
THEOREM ImplementsChannel == Spec => IsChannel
<1>1. Init => Channel!Init
  <2>1. ASSUME Init PROVE Line = <<>> /\ Wire = <<>>
    <3>1. Line = tx_queue /\ tx_queue = <<>> /\ commands_sent = <<>>
        BY <2>1, InitBase, LineOf DEF Init
    <3>2. QED  BY <3>1 DEF Wire
  <2>2. QED  BY <2>1 DEF Channel!Init, Line, Wire
<1>2. Base /\ Base' /\ [Next]_vars
         => [Channel!Next]_<<CommandInHand \o tx_queue,
                             [i \in 1..Len(commands_sent) |-> commands_sent[i].frame]>>
  <2> SUFFICES ASSUME Base, Base', [Next]_vars
               PROVE  [Channel!Next]_<<Line, Wire>>
      BY DEF Line, Wire
  <2>1. \A f \in Frames : Accepted(f) => Channel!Accept(f)
      BY DEF Accepted, Channel!Accept, Line, Wire
  <2>2. Delivered => Channel!Deliver
      BY DEF Delivered, Channel!Deliver, Line, Wire
  <2>3. Lost => Channel!Lose
      BY DEF Lost, Channel!Lose, Line, Wire
  <2>4. UNCHANGED vars => UNCHANGED <<Line, Wire>>
      BY DEF vars, worker, queues, stats, sent, Line, Wire, CommandInHand
  <2>5. QED
      BY <2>1, <2>2, <2>3, <2>4, MainOnChannel, WorkerOnChannel DEF Next, Channel!Next
<1>3. QED  BY <1>1, <1>2, InductiveBase, PTL DEF Spec, IsChannel, Channel!Spec
================================================================================
