------------------------------ MODULE StreamTrackers ------------------------------
(***************************************************************************)
(* The trackers that tell lost messages from late, repeated and wrapped ones by   *)
(* their numbers: SequenceTracker of the P900 bridge, whose numbers wrap, and      *)
(* DDSWriterTracker of the logger, whose counters are reported and reset in windows.*)
(* Both are fed here with the deliveries of one stream, in which a message may be   *)
(* lost, repeated, or overtaken by at most Reach others.  Times, sizes and the      *)
(* stamps of the logger's trackers are not modelled.                             *)
(***************************************************************************)
EXTENDS Integers, Sequences, FiniteSets, SequencesExt

CONSTANTS
    Modulo,        \* the wrap of a sequence number (2^32)
    HistorySize,   \* history_size
    Reach,         \* how far the deliveries jump, well below Modulo
    MaxMessages,   \* bound on the messages of the stream
    MaxLate        \* bound on the deliveries that are late or repeated

ASSUME TrackersAssumption ==
    /\ Modulo \in Nat /\ Modulo > 0 /\ Modulo % 2 = 0
    /\ HistorySize \in Nat \ {0} /\ Reach \in Nat
    /\ 2 * (Reach + 1) < Modulo /\ (Reach + 1) * (HistorySize + 1) < Modulo
    /\ MaxMessages \in Nat /\ MaxLate \in Nat

NoNumber == -1

VARIABLES
    expected,      \* SequenceTracker's, NoNumber before the first
    recent,        \* its deque of numbers
    observation,   \* its last answer: status and missing
    last_publication,   \* last_publication_sequence, 0 before the first
    missing,       \* missing_sequences of the current window
    reported,      \* the missing of all windows reported
    delivered,     \* the messages delivered, all of them in one set
    truth,         \* what the last delivery was, and how many were skipped
    disorder       \* how many came late or again

trackersVars == <<expected, recent, observation, last_publication, missing, reported,
                  delivered, truth, disorder>>

Statuses == {"none", "first", "in_order", "gap", "duplicate", "out_of_order"}
Observed == [status : Statuses, missing : 0..MaxMessages]

TrackersTypeOK ==
    /\ expected \in 0..(Modulo - 1) \cup {NoNumber}
    /\ recent \in Seq(0..(Modulo - 1)) /\ Len(recent) <= HistorySize
    /\ observation \in Observed /\ last_publication \in 0..MaxMessages
    /\ missing \in Nat /\ reported \in Nat /\ disorder \in 0..MaxLate
    /\ delivered \subseteq 1..MaxMessages
    /\ truth \in [skipped : -MaxMessages..MaxMessages, again : BOOLEAN]

TrackersInit ==
    /\ expected = NoNumber /\ recent = <<>>
    /\ observation = [status |-> "none", missing |-> 0]
    /\ last_publication = 0 /\ missing = 0 /\ reported = 0
    /\ delivered = {} /\ truth = [skipped |-> 0, again |-> FALSE] /\ disorder = 0
-----------------------------------------------------------------------------
Highest == IF delivered = {} THEN 0 ELSE Max(delivered)

(* Mutant: the history grows for ever.                                          *)
RememberAll(numbers, number) == Append(numbers, number)

Remember(numbers, number) ==
    LET all == Append(numbers, number)
    IN  IF Len(all) <= HistorySize THEN all ELSE Tail(all)

Answer(status, skipped) == observation' = [status |-> status, missing |-> skipped]
Advance(sequence) == expected' = (sequence + 1) % Modulo

(* Mutant: the distance to the expected number is taken without the wrap.         *)
PlainDistance(sequence) == sequence - expected

ForwardDistance(sequence) == (sequence - expected) % Modulo

(* observe of SequenceTracker.                                                  *)
Observe(sequence) ==
    IF sequence \in ToSet(recent)
    THEN Answer("duplicate", 0) /\ UNCHANGED <<expected, recent>>
    ELSE LET distance == ForwardDistance(sequence)
         IN  /\ recent' = Remember(recent, sequence)
             /\ IF expected = NoNumber THEN Advance(sequence) /\ Answer("first", 0)
                ELSE IF sequence = expected THEN Advance(sequence) /\ Answer("in_order", 0)
                ELSE IF distance \in 0..(Modulo \div 2 - 1)
                     THEN Advance(sequence) /\ Answer("gap", distance)
                ELSE Answer("out_of_order", 0) /\ UNCHANGED expected

(* observe of DDSWriterTracker, its numbers: a late message sets it back.          *)
ObservePublication(number) ==
    /\ last_publication' = number
    /\ missing' = IF last_publication # 0 /\ number > last_publication + 1
                  THEN missing + (number - last_publication - 1) ELSE missing

(* A message is delivered: the next one, one that overtook others, an overtaken     *)
(* one, or one delivered before.                                                *)
Deliver(i) ==
    /\ i \in (Highest - Reach)..(Highest + 1 + Reach)
    /\ Observe(i % Modulo)
    /\ ObservePublication(i)
    /\ delivered' = delivered \cup {i}
    /\ truth' = [skipped |-> i - Highest - 1, again |-> i \in delivered]
    /\ i > Highest \/ disorder < MaxLate
    /\ disorder' = IF i > Highest THEN disorder ELSE disorder + 1
    /\ UNCHANGED reported

(* Mutant: a new window forgets the writer's last number.                          *)
ResetAll == missing' = 0 /\ last_publication' = 0

(* _reset_window: only the counters are per window.                               *)
ResetWindow == missing' = 0 /\ UNCHANGED last_publication

(* snapshot of DDSWriterTracker.                                                 *)
Snapshot ==
    /\ reported' = reported + missing
    /\ ResetWindow
    /\ missing > 0
    /\ UNCHANGED <<expected, recent, observation, delivered, truth, disorder>>

TrackersNext == Snapshot \/ \E i \in 1..MaxMessages : Deliver(i)
TrackersSpec == TrackersInit /\ [][TrackersNext]_trackersVars
-----------------------------------------------------------------------------
(* SequenceTracker classifies by differences of numbers that wrap: it is right on     *)
(* every new message, however far around the numbers are, and a repeated one never    *)
(* counts as missing others.                                                    *)
NumbersClassified ==
    LET status == observation.status
    IN  /\ status = "duplicate" => truth.again
        /\ status = "in_order" => truth.skipped = 0
        /\ status = "gap" => truth.skipped = observation.missing /\ truth.skipped > 0
        /\ status = "out_of_order" => truth.skipped < 0
        /\ (truth.skipped >= 0 /\ delivered # {})
              => status \in {"first", "in_order", "gap"}

(* Over all the windows reported and the current one, DDSWriterTracker counts the     *)
(* messages that were lost, as long as none came late or twice.                     *)
MissingAreLost ==
    disorder = 0 /\ delivered # {} =>
        reported + missing = Cardinality((Min(delivered)..Max(delivered)) \ delivered)
================================================================================
