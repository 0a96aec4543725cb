--------------------------------- MODULE Framing ---------------------------------
(***************************************************************************)
(* The incremental parsers: StreamParser of the P900 bridge (p900) and          *)
(* FrameParser of the gimbal.  The link damages, drops or invents bytes, and a    *)
(* read returns any number of them.                                           *)
(*                                                                         *)
(* A frame is a sequence of words: two of magic, a length, its payload, a check.  *)
(* The two magic words stand for the whole magic, which a read may split, and     *)
(* the length for the rest of the header.  The check is taken to be perfect: a     *)
(* window passes it if and only if it is one frame as sent, which each word        *)
(* remembers.                                                                *)
(***************************************************************************)
EXTENDS Integers, Sequences, FiniteSets, SequencesExt

CONSTANTS
    Payloads,      \* payload lengths the senders use
    Lengths,       \* lengths a damaged header may claim
    MaxPayload,    \* max_payload, max_payload_size
    MaxFrames      \* bound on the frames written

ASSUME FramingAssumption ==
    /\ MaxFrames \in Nat /\ MaxPayload \in Nat
    /\ Payloads \subseteq 0..MaxPayload /\ Lengths \subseteq Nat

Overhead == 4           \* FRAME_OVERHEAD in words
HeaderSize == 3
Magic == <<"magic1", "magic2">>

VARIABLES
    p900,          \* whether this is StreamParser, fixed for ever
    written,       \* the frames written: their length, topic known, intact
    line,          \* the words on their way
    buffer,        \* the parser's
    parsed,        \* the frames the parser returned, in order
    arrived        \* the frames the parser owes once their last word was read, a set

framingVars == <<p900, written, line, buffer, parsed, arrived>>

(* A word on the line: its frame and place, 0 if damaged or invented; what the    *)
(* parser can make of it; the length it claims.                                *)
Word(frame, place, kind, claims) ==
    [frame |-> frame, place |-> place, kind |-> kind, claims |-> claims]

Words(frame, length) ==
    [place \in 1..(length + Overhead) |->
        CASE place <= 2          -> Word(frame, place, Magic[place], 0)
          [] place = HeaderSize  -> Word(frame, place, "length", length)
          [] OTHER               -> Word(frame, place, "data", 0)]

Damaged ==
    {Word(0, 0, kind, 0) : kind \in {"magic1", "magic2", "data"}}
        \cup {Word(0, 0, "length", claimed) : claimed \in Lengths}

FramingTypeOK ==
    /\ p900 \in BOOLEAN
    /\ written \in Seq([length : Payloads, known : BOOLEAN, intact : BOOLEAN])
    /\ Len(written) <= MaxFrames
    /\ \A stream \in {line, buffer} : \A i \in DOMAIN stream :
          stream[i].frame \in 0..Len(written)
    /\ parsed \in Seq(DOMAIN written) /\ arrived \subseteq DOMAIN written

FramingInit ==
    /\ p900 \in BOOLEAN /\ written = <<>> /\ line = <<>>
    /\ buffer = <<>> /\ parsed = <<>> /\ arrived = {}
-----------------------------------------------------------------------------
(* encode_frame and a write: the frame goes whole, with one word damaged, with     *)
(* one lost, or with one more in front.                                        *)
WriteFrame(length, known) ==
    LET frame == Len(written) + 1
        sent == Words(frame, length)
        Write(words, intact) ==
            /\ line' = line \o words
            /\ written' = Append(written, [length |-> length, known |-> known,
                                           intact |-> intact])
    IN  /\ Len(written) < MaxFrames
        /\ \/ Write(sent, TRUE)
           \/ \E i \in DOMAIN sent, word \in Damaged : Write([sent EXCEPT ![i] = word], FALSE)
           \/ \E i \in DOMAIN sent : Write(RemoveAt(sent, i), FALSE)
           \/ \E word \in Damaged : Write(<<word>> \o sent, TRUE)
        /\ UNCHANGED <<p900, buffer, parsed, arrived>>
-----------------------------------------------------------------------------
IsMagicAt(words, i) ==
    i + 1 <= Len(words) /\ words[i].kind = Magic[1] /\ words[i + 1].kind = Magic[2]

MagicsIn(words, from) == {i \in from..Len(words) : IsMagicAt(words, i)}

(* The header of a frame at i: a length field that is none stands for an           *)
(* unsupported version.                                                      *)
HeaderOK(words, i) ==
    words[i + 2].kind = "length" /\ words[i + 2].claims <= MaxPayload

FrameSize(words, i) == words[i + 2].claims + Overhead
Remaining(words, i) == Len(words) - i + 1

CheckOK(words, i) ==
    \A k \in 0..(FrameSize(words, i) - 1) :
        /\ words[i + k].frame = words[i].frame /\ words[i].frame # 0
        /\ words[i + k].place = k + 1

(* _find_later_valid_frame: 0 if there is none.                                *)
LaterValidFrames(words) ==
    {i \in MagicsIn(words, 2) :
        /\ Remaining(words, i) >= HeaderSize
        /\ HeaderOK(words, i)
        /\ Remaining(words, i) >= FrameSize(words, i)
        /\ CheckOK(words, i)}

(* Mutant: no later frame is looked for.                                       *)
NoLaterFrame(words) == 0

FindLaterValidFrame(words) ==
    LET found == LaterValidFrames(words) IN IF found = {} THEN 0 ELSE Min(found)

From(words, i) == SubSeq(words, i, Len(words))

(* Where no magic is found the last word is kept, since a magic may start there:   *)
(* by the gimbal's parser only if it is one.                                   *)
Aligned(words) ==
    LET magics == MagicsIn(words, 1)
        last == From(words, Len(words))
    IN  CASE magics # {} -> From(words, Min(magics))
          [] words = <<>> -> <<>>
          [] OTHER -> IF p900 \/ Last(words).kind = Magic[1] THEN last ELSE <<>>

(* _reject_leading_byte: of a frame that fails its check only the first byte goes,  *)
(* for its length may be what is damaged.                                      *)
RejectChecked(words) == Tail(words)

(* One turn of feed's loop on the aligned buffer: what is left, the frame returned  *)
(* (0 for none), and whether the loop goes on.                                  *)
Turn(words, frame, goes_on) == [words |-> words, frame |-> frame, goes_on |-> goes_on]

ParseOne(words) ==
    IF ~IsMagicAt(words, 1) \/ Len(words) < HeaderSize THEN Turn(words, 0, FALSE)
    ELSE IF ~HeaderOK(words, 1) THEN Turn(Tail(words), 0, TRUE)
    ELSE IF Len(words) < FrameSize(words, 1)
         THEN LET later == IF p900 THEN FindLaterValidFrame(words) ELSE 0
              IN  IF later = 0 THEN Turn(words, 0, FALSE) ELSE Turn(From(words, later), 0, TRUE)
    ELSE IF ~CheckOK(words, 1) THEN Turn(RejectChecked(words), 0, TRUE)
    ELSE Turn(From(words, FrameSize(words, 1) + 1), words[1].frame, TRUE)

(* The parser's answer to a frame: an unknown topic is dropped by p900 alone.      *)
Returns(frame) == written[frame].known \/ ~p900
Returned(frame) == IF frame # 0 /\ Returns(frame) THEN <<frame>> ELSE <<>>

(* feed: turns until one waits for more bytes; each but the last takes a word away. *)
TakeTurn(state) ==
    LET turn == ParseOne(Aligned(state.words))
    IN  IF state.goes_on
        THEN [words |-> turn.words, goes_on |-> turn.goes_on,
              frames |-> state.frames \o Returned(turn.frame)]
        ELSE state

Feed(words) ==
    FoldLeft(LAMBDA state, turn : TakeTurn(state),
             [words |-> words, goes_on |-> TRUE, frames |-> <<>>],
             [turn \in 1..(Len(words) + 1) |-> turn])

(* The intact frames a chunk completes, but those the parser drops for their topic.   *)
Completed(chunk) ==
    {frame \in DOMAIN written :
        /\ written[frame].intact /\ Returns(frame)
        /\ \E i \in DOMAIN chunk : /\ chunk[i].frame = frame
                                   /\ chunk[i].place = written[frame].length + Overhead}

(* A read of n words of the line, fed to the parser.                              *)
ReadChunk(n) ==
    LET chunk == SubSeq(line, 1, n)
        fed == Feed(buffer \o chunk)
    IN  /\ line' = SubSeq(line, n + 1, Len(line))
        /\ buffer' = fed.words
        /\ parsed' = parsed \o fed.frames
        /\ arrived' = arrived \cup Completed(chunk)
        /\ UNCHANGED <<p900, written>>

FramingNext ==
    \/ \E length \in Payloads, known \in BOOLEAN : WriteFrame(length, known)
    \/ \E n \in 1..Len(line) : ReadChunk(n)

FramingSpec == FramingInit /\ [][FramingNext]_framingVars
-----------------------------------------------------------------------------
Waiting == IsMagicAt(buffer, 1) /\ HeaderOK(buffer, 1) /\ Len(buffer) < FrameSize(buffer, 1)

(* Whatever was damaged around them and however the reads cut them, the bridge's     *)
(* parser returns the intact frames, once, in order, as soon as their last byte is   *)
(* there.  The gimbal's returns them in order too, but may hold back the last ones:    *)
(* while a damaged length claims more than has come, which is bounded.             *)
FramesRecovered ==
    /\ \A i, j \in DOMAIN parsed : i < j => parsed[i] < parsed[j]
    /\ Range(parsed) \subseteq arrived
    /\ \A frame \in arrived \ Range(parsed) :
          ~p900 /\ Waiting /\ \A i \in DOMAIN parsed : parsed[i] < frame
================================================================================
