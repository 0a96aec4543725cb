----------------------------- MODULE SerialTransport ----------------------------
(***************************************************************************)
(* The serial transport of the P900 bridge (serial_transport.py): one worker *)
(* thread owns the port, reconnects it and writes; the node's thread offers  *)
(* frames and finally stops the transport.  Each action is what a thread     *)
(* does between two accesses to what they share: the connected and stop       *)
(* events, the FIFO of commands, the dictionary of latest states, the device. *)
(*                                                                         *)
(* The worker's loop runs from "loop" back to "loop"; _close_serial and        *)
(* stop() are split where the other thread may come between.                 *)
(*                                                                         *)
(* A frame is a record: id numbers the frames offered, stream is "command"    *)
(* for send() and the key of send_latest() otherwise, session the connection  *)
(* in which it was found connected.  Opening, writing and reading the device  *)
(* may fail at any time.  A statistic is updated in one step: CPython 3.10 and  *)
(* later switch threads at calls and at the ends of loops only.              *)
(***************************************************************************)
EXTENDS Naturals, Sequences, FiniteSets, SequencesExt

CONSTANTS
    Keys,           \* the logical streams of send_latest()
    QueueSize,      \* tx_queue_size
    MaxFrames,      \* bound: frames offered
    MaxSessions     \* bound: connections

ASSUME QueueAssumption == QueueSize \in Nat \ {0}
ASSUME BoundsAssumption == MaxFrames \in Nat /\ MaxSessions \in Nat
ASSUME KeysAssumption == "command" \notin Keys

VARIABLES
    pc,            \* where the worker is in _run
    main,          \* where the node's thread is: idle, in send(), in stop()
    held,          \* the frame send() or send_latest() is about to store
    hand,          \* the frame the worker took and has not written
    tx_queue,      \* _tx_queue
    latest,        \* _latest_frames: one frame per key, oldest first
    connected,     \* _connected_event
    device,        \* _serial is not None
    stopping,      \* _stop_event
    commands_sent, \* the commands written, each with the connection it went out in
    states_sent,   \* the states written, likewise
    offered,       \* frames offered so far
    connections, dropped, replaced     \* SerialStats

worker == <<pc, hand>>
sender == <<main, held>>
queues == <<tx_queue, latest>>
port   == <<connected, device>>
sent   == <<commands_sent, states_sent>>
stats  == <<sent, connections, dropped, replaced>>
vars   == <<worker, sender, queues, port, stopping, stats, offered>>

Streams == Keys \cup {"command"}
Frames  == [id : 1..MaxFrames, stream : Streams, session : 1..MaxSessions]
IsCommand(f) == f.stream = "command"
Commands == {f \in Frames : IsCommand(f)}
States   == Frames \ Commands

ThreadsTyped ==
    /\ pc \in {"loop", "open", "announce", "take", "take_latest", "write", "read",
               "close", "clear", "discard", "discard_latest", "wait",
               "close_exit", "clear_exit", "done"}
    /\ main \in {"idle", "storing", "joining", "clearing", "stopped"}
    /\ connected \in BOOLEAN /\ device \in BOOLEAN /\ stopping \in BOOLEAN

FramesTyped ==
    /\ held \in Seq(Frames) /\ Len(held) <= 1
    /\ hand \in Seq(Frames) /\ Len(hand) <= 1
    /\ tx_queue \in Seq(Commands) /\ Len(tx_queue) <= QueueSize
    /\ latest \in Seq(States)
    /\ commands_sent \in Seq([frame : Commands, session : Nat])
    /\ states_sent \in Seq([frame : States, session : Nat])

CountsTyped ==
    /\ connections \in 0..MaxSessions /\ offered \in 0..MaxFrames
    /\ dropped \in Nat /\ replaced \in Nat

TypeOK == ThreadsTyped /\ FramesTyped /\ CountsTyped

(* The transport just started: start() is called once, with the node.         *)
Init ==
    /\ pc = "loop" /\ main = "idle"
    /\ held = <<>> /\ hand = <<>>
    /\ tx_queue = <<>> /\ latest = <<>>
    /\ connected = FALSE /\ device = FALSE /\ stopping = FALSE
    /\ commands_sent = <<>> /\ states_sent = <<>> /\ offered = 0
    /\ connections = 0 /\ dropped = 0 /\ replaced = 0

-----------------------------------------------------------------------------
(* send() and send_latest(): the connected test, and the frame is refused or   *)
(* held; nothing locks the test and the store together.                       *)
Offer(stream) ==
    /\ main = "idle" /\ offered < MaxFrames
    /\ offered' = offered + 1
    /\ \/ /\ connected
          /\ main' = "storing"
          /\ held' = <<[id |-> offered + 1, stream |-> stream, session |-> connections]>>
          /\ UNCHANGED dropped
       \/ /\ ~connected
          /\ dropped' = dropped + 1
          /\ UNCHANGED sender
    /\ UNCHANGED <<worker, queues, port, stopping, sent, connections, replaced>>

(* put_nowait of a command, dropped when the queue is full.                    *)
StoreCommand ==
    /\ main = "storing" /\ IsCommand(held[1])
    /\ main' = "idle" /\ held' = <<>>
    /\ \/ /\ Len(tx_queue) < QueueSize
          /\ tx_queue' = Append(tx_queue, held[1])
          /\ UNCHANGED dropped
       \/ /\ Len(tx_queue) >= QueueSize
          /\ dropped' = dropped + 1
          /\ UNCHANGED tx_queue
    /\ UNCHANGED <<worker, latest, port, stopping, sent, connections, replaced, offered>>

(* Where the dictionary has an unsent frame of the stream.                     *)
Unsent == {i \in DOMAIN latest : latest[i].stream = held[1].stream}

(* Mutant: an unsent frame of the stream is kept, behind its successor.         *)
LatestStacked(i) == <<held[1]>> \o latest

(* The frame takes the place of an unsent one of its stream, at the end.       *)
LatestReplaced(i) == Append(RemoveAt(latest, i), held[1])

StoreLatest ==
    /\ main = "storing" /\ ~IsCommand(held[1])
    /\ main' = "idle" /\ held' = <<>>
    /\ \/ \E i \in Unsent : latest' = LatestReplaced(i) /\ replaced' = replaced + 1
       \/ Unsent = {} /\ latest' = Append(latest, held[1]) /\ UNCHANGED replaced
    /\ UNCHANGED <<worker, tx_queue, port, stopping, sent, connections, dropped, offered>>

(* stop(): request shutdown, join the worker with a timeout, then _close_serial *)
(* in the node's thread, whose two steps the worker may come between.         *)
Stop ==
    /\ main = "idle"
    /\ main' = "joining" /\ stopping' = TRUE
    /\ UNCHANGED <<worker, held, queues, port, stats, offered>>

StopCloses ==
    /\ main = "joining" /\ main' = "clearing"
    /\ device' = FALSE
    /\ UNCHANGED <<worker, held, queues, connected, stopping, stats, offered>>

StopClears ==
    /\ main = "clearing" /\ main' = "stopped"
    /\ connected' = FALSE
    /\ UNCHANGED <<worker, held, queues, device, stopping, stats, offered>>

-----------------------------------------------------------------------------
Goto(from, to) == pc = from /\ pc' = to

(* Mutant: a worker without a connection does not look at the stop event.      *)
LoopIgnoresStop ==
    /\ \/ stopping /\ connected /\ Goto("loop", "close_exit")
       \/ ~connected /\ Goto("loop", "open")
       \/ ~stopping /\ connected /\ Goto("loop", "take")
    /\ UNCHANGED <<hand, sender, queues, port, stopping, stats, offered>>

(* The head of the loop in _run.                                             *)
Loop ==
    /\ \/ stopping /\ Goto("loop", "close_exit")
       \/ ~stopping /\ ~connected /\ Goto("loop", "open")
       \/ ~stopping /\ connected /\ Goto("loop", "take")
    /\ UNCHANGED <<hand, sender, queues, port, stopping, stats, offered>>

(* _open_serial: the device is stored, then the connection announced; the       *)
(* worker goes straight on to write.  A port that does not open is retried.    *)
OpenSerial ==
    /\ \/ Goto("open", "announce") /\ connections < MaxSessions /\ device' = TRUE
       \/ Goto("open", "wait") /\ UNCHANGED device
    /\ UNCHANGED <<hand, sender, queues, connected, stopping, stats, offered>>

Announce ==
    /\ Goto("announce", "take")
    /\ connected' = TRUE /\ connections' = connections + 1
    /\ UNCHANGED <<hand, sender, queues, device, stopping, sent, dropped, replaced, offered>>

(* Mutant: the newest command is taken first.                                 *)
TakeLast ==
    /\ hand' = <<tx_queue[Len(tx_queue)]>>
    /\ tx_queue' = SubSeq(tx_queue, 1, Len(tx_queue) - 1)

TakeFirst == hand' = <<Head(tx_queue)>> /\ tx_queue' = Tail(tx_queue)

(* _write_one_queued_frame: a command if there is one, else the oldest state.  *)
TakeCommand ==
    /\ \/ tx_queue # <<>> /\ Goto("take", "write") /\ TakeFirst
       \/ tx_queue = <<>> /\ Goto("take", "take_latest") /\ UNCHANGED <<hand, tx_queue>>
    /\ UNCHANGED <<sender, latest, port, stopping, stats, offered>>

TakeLatest ==
    /\ \/ /\ latest # <<>> /\ Goto("take_latest", "write")
          /\ hand' = <<Head(latest)>> /\ latest' = Tail(latest)
       \/ latest = <<>> /\ Goto("take_latest", "read") /\ UNCHANGED <<hand, latest>>
    /\ UNCHANGED <<sender, tx_queue, port, stopping, stats, offered>>

Written == [frame |-> hand[1], session |-> connections]

(* The write: whole, or failed and counted.  When stop() took the device away   *)
(* the frame is lost without being counted.  An exception of on_tx_success      *)
(* skips the read.                                                            *)
Write ==
    /\ \/ /\ device
          /\ pc = "write" /\ pc' \in {"read", "loop"}
          /\ \/ IsCommand(hand[1]) /\ commands_sent' = Append(commands_sent, Written)
                /\ UNCHANGED states_sent
             \/ ~IsCommand(hand[1]) /\ states_sent' = Append(states_sent, Written)
                /\ UNCHANGED commands_sent
          /\ UNCHANGED dropped
       \/ /\ device /\ Goto("write", "close")
          /\ dropped' = dropped + 1 /\ UNCHANGED sent
       \/ /\ ~device /\ Goto("write", "close")
          /\ UNCHANGED <<sent, dropped>>
    /\ hand' = <<>>
    /\ UNCHANGED <<sender, queues, port, stopping, connections, replaced, offered>>

(* _read_available_bytes.                                                    *)
Read ==
    /\ \/ device /\ Goto("read", "loop")
       \/ Goto("read", "close")
    /\ UNCHANGED <<hand, sender, queues, port, stopping, stats, offered>>

(* Mutant: the worker leaves without closing the port.                         *)
CloseDeviceOnError ==
    /\ \/ Goto("close", "clear") /\ device' = FALSE
       \/ Goto("close_exit", "clear_exit") /\ UNCHANGED device
    /\ UNCHANGED <<hand, sender, queues, connected, stopping, stats, offered>>

(* _close_serial in the worker: by _disconnect, which goes on to discard what    *)
(* is queued and to wait, or at the end of _run.                              *)
CloseDevice ==
    /\ Goto("close", "clear") \/ Goto("close_exit", "clear_exit")
    /\ device' = FALSE
    /\ UNCHANGED <<hand, sender, queues, connected, stopping, stats, offered>>

ClearConnected ==
    /\ Goto("clear", "discard") \/ Goto("clear_exit", "done")
    /\ connected' = FALSE
    /\ UNCHANGED <<hand, sender, queues, device, stopping, stats, offered>>

(* Mutant: commands queued for the lost connection are kept.                   *)
DiscardNothing ==
    /\ Goto("discard", "discard_latest")
    /\ UNCHANGED <<hand, sender, queues, port, stopping, stats, offered>>

DiscardCommand ==
    /\ \/ /\ tx_queue # <<>> /\ pc = "discard" /\ UNCHANGED pc
          /\ tx_queue' = Tail(tx_queue) /\ dropped' = dropped + 1
       \/ tx_queue = <<>> /\ Goto("discard", "discard_latest") /\ UNCHANGED <<tx_queue, dropped>>
    /\ UNCHANGED <<hand, sender, latest, port, stopping, sent, connections, replaced, offered>>

(* Mutant: the discarded states are not counted.                              *)
DiscardUncounted ==
    /\ Goto("discard_latest", "wait")
    /\ latest' = <<>>
    /\ UNCHANGED <<hand, sender, tx_queue, port, stopping, stats, offered>>

DiscardLatest ==
    /\ Goto("discard_latest", "wait")
    /\ latest' = <<>> /\ dropped' = dropped + Len(latest)
    /\ UNCHANGED <<hand, sender, tx_queue, port, stopping, sent, connections, replaced, offered>>

Wait ==
    /\ Goto("wait", "loop")
    /\ UNCHANGED <<hand, sender, queues, port, stopping, stats, offered>>

Main ==
    \/ \E stream \in Streams : Offer(stream)
    \/ StoreCommand \/ StoreLatest \/ Stop \/ StopCloses \/ StopClears

Worker ==
    \/ Loop \/ OpenSerial \/ Announce \/ TakeCommand \/ TakeLatest \/ Write \/ Read
    \/ CloseDevice \/ ClearConnected \/ DiscardCommand \/ DiscardLatest \/ Wait

Next == Main \/ Worker

Spec == Init /\ [][Next]_vars

(* The worker thread keeps running, and so does a stop() once called.          *)
FairSpec == Spec /\ WF_vars(Worker) /\ WF_vars(StopCloses \/ StopClears)
-----------------------------------------------------------------------------
(* Frames under way that were accepted in an earlier connection than this one.  *)
UnderWay == Range(tx_queue) \cup Range(latest) \cup Range(hand)
Stale    == {f \in UnderWay : f.session # connections}

(* send() cannot be locked out of a disconnection, but the damage is bounded:   *)
(* in any connection at most one frame left from an earlier one is under way.   *)
AtMostOneStale == connected => Cardinality(Stale) <= 1

(* No stream goes back: of two frames of one stream the older is      *)
(* never written after the newer.                                             *)
StreamsGoForward ==
    /\ \A i, j \in 1..Len(commands_sent) :
          i < j => commands_sent[i].frame.id < commands_sent[j].frame.id
    /\ \A i, j \in 1..Len(states_sent) :
          i < j /\ states_sent[i].frame.stream = states_sent[j].frame.stream
              => states_sent[i].frame.id < states_sent[j].frame.id

(* Until it is stopped, the transport's statistics account for every frame it    *)
(* was offered: written, dropped, replaced, or still under way.                 *)
EveryFrameCounted ==
    ~stopping =>
        offered = Len(commands_sent) + Len(states_sent) + dropped + replaced + Len(tx_queue)
                  + Len(latest) + Len(hand) + Len(held)

(* When stop() has returned and the worker is gone, nobody holds the port,       *)
(* whichever of the two closed it, or opened it, last.                          *)
PortReleased == main = "stopped" /\ pc = "done" => ~device /\ ~connected

(* A stopped transport's worker ends.                                          *)
WorkerEnds == stopping ~> pc = "done"

(* The commands are an instance of the abstract channel, which holds one frame   *)
(* more than the queue: the one the worker has taken.                           *)
CommandInHand == IF hand # <<>> /\ IsCommand(hand[1]) THEN hand ELSE <<>>

Channel == INSTANCE FrameChannel WITH
    Frames    <- Frames,
    Capacity  <- QueueSize,
    accepted  <- CommandInHand \o tx_queue,
    delivered <- [i \in 1..Len(commands_sent) |-> commands_sent[i].frame]

IsChannel == Channel!Spec

(* serial_transport.py: "Frames are rejected while disconnected so a flight       *)
(* command cannot sit in a queue and execute unexpectedly after a later          *)
(* reconnection": a command goes out in the connection that accepted it.         *)
CommandsNeverOutliveConnection ==
    \A i \in 1..Len(commands_sent) :
        commands_sent[i].frame.session = commands_sent[i].session
=============================================================================
