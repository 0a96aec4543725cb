------------------------------ MODULE FramingProofs ------------------------------
(***************************************************************************)
(* The safety of the incremental parsers, for any payloads, claims, damage and    *)
(* reads.  The words between the writers and the parser are a stream of the       *)
(* frames written: in order, each intact frame whole, each damaged one lacking    *)
(* a word.  A parser may drop the words at which no intact frame starts and take   *)
(* a frame that passes its check, and the rest is still a stream; each of its      *)
(* turns does one or the other, or waits.                                     *)
(*                                                                         *)
(* First, induction on the naturals: as a fact about sets, so that what a fold     *)
(* computes can be proved with it.                                           *)
(***************************************************************************)
EXTENDS Framing, Functions, SequenceTheorems, FiniteSetTheorems, WellFoundedInduction, TLAPS


(* A set of naturals has a least member: the naturals are well-founded.                   *)
LEMMA LeastMember ==
    ASSUME NEW T, T \subseteq Nat, T # {}
    PROVE  \E x \in T : \A y \in T : x <= y
<1> DEFINE Less == {p \in Nat \X Nat : p[1] < p[2]}
<1>1. IsWellFoundedOn(Less, Nat)
    BY NatLessThanWellFounded DEF OpToRel
<1>2. \E x \in T : \A y \in T : <<y, x>> \notin Less
    <2> HIDE DEF Less
    <2> QED  BY <1>1, WFMin
<1>3. \A x, y \in Nat : <<y, x>> \notin Less => x <= y
    OBVIOUS
<1> HIDE DEF Less
<1>4. QED  BY <1>2, <1>3

(* A set with 0, and with the successors of its members, has all naturals.               *)
LEMMA SetInduction ==
    ASSUME NEW S, 0 \in S, \A n \in Nat : n \in S => n + 1 \in S
    PROVE  Nat \subseteq S
<1> SUFFICES ASSUME Nat \ S # {} PROVE FALSE
    OBVIOUS
<1>1. PICK x \in Nat \ S : \A y \in Nat \ S : x <= y
    BY LeastMember
<1>2. x # 0 /\ x - 1 \in Nat
    BY <1>1
<1>3. x - 1 \in S
    BY <1>1, <1>2
<1>4. QED  BY <1>1, <1>2, <1>3
-----------------------------------------------------------------------------
(* The words on the line and in the buffer.                                           *)
WordSet(sent) ==
    [frame : 0..Len(sent), place : Nat, kind : {"magic1", "magic2", "length", "data"},
     claims : Nat]

(* What is remembered of the frames written.                                         *)
WrittenOK(sent) == sent \in Seq([length : Payloads, known : BOOLEAN, intact : BOOLEAN])

(* The words of a frame.                                                          *)
SizeOf(sent, frame) == sent[frame].length + Overhead

(* A word that is not damaged is what its frame has at its place.                          *)
AsSent(words, sent) ==
    \A j \in DOMAIN words :
        words[j].frame # 0 =>
            /\ words[j].place \in 1..SizeOf(sent, words[j].frame)
            /\ words[j] = Words(words[j].frame, sent[words[j].frame].length)[words[j].place]

(* Frames, and the words of a frame, are in order.                                       *)
Ordered(words) ==
    \A i, j \in DOMAIN words :
        i < j /\ words[i].frame # 0 /\ words[j].frame # 0 =>
            \/ words[i].frame < words[j].frame
            \/ words[i].frame = words[j].frame /\ words[i].place < words[j].place

(* The frame is there whole, after the first i words.                                     *)
CopyAfter(words, i, frame, size) ==
    \A k \in 1..size :
        /\ i + k \in DOMAIN words
        /\ words[i + k].frame = frame /\ words[i + k].place = k

(* A word of an intact frame has the others around it.                                   *)
IntactAt(words, sent, j) == words[j].frame # 0 /\ sent[words[j].frame].intact

Whole(words, sent) ==
    \A j \in DOMAIN words :
        IntactAt(words, sent, j) =>
            /\ words[j].place <= j
            /\ CopyAfter(words, j - words[j].place, words[j].frame,
                         SizeOf(sent, words[j].frame))

(* A damaged frame lacks a word.                                                    *)
Broken(words, sent) ==
    \A frame \in DOMAIN sent :
        ~sent[frame].intact =>
            \E k \in 1..SizeOf(sent, frame) :
                \A j \in DOMAIN words : ~(words[j].frame = frame /\ words[j].place = k)

(* All that is known of the words between the writers and the parser.                       *)
Stream(words, sent) ==
    /\ words \in Seq(WordSet(sent)) /\ AsSent(words, sent) /\ Ordered(words)
    /\ Whole(words, sent) /\ Broken(words, sent)

(* A word at which an intact frame starts.                                          *)
StartsAt(words, sent, j) == IntactAt(words, sent, j) /\ words[j].place = 1

(* What remains of a sequence.                                                     *)
LEMMA FromIs ==
    ASSUME NEW S, NEW words \in Seq(S), NEW k \in 0..Len(words)
    PROVE  /\ From(words, k + 1) \in Seq(S) /\ Len(From(words, k + 1)) = Len(words) - k
           /\ \A j \in 1..(Len(words) - k) : From(words, k + 1)[j] = words[k + j]
<1>1. Len(words) \in Nat /\ k \in Nat
    OBVIOUS
<1>2. /\ SubSeq(words, k + 1, Len(words)) \in Seq(S)
      /\ Len(SubSeq(words, k + 1, Len(words))) =
            IF k + 1 <= Len(words) THEN Len(words) - (k + 1) + 1 ELSE 0
      /\ \A j \in 1..(Len(words) - (k + 1) + 1) :
            SubSeq(words, k + 1, Len(words))[j] = words[k + 1 + j - 1]
    BY <1>1, SubSeqProperties
<1>3. QED  BY <1>1, <1>2 DEF From

(* What remains of the first of two sequences.                                         *)
LEMMA FromConcat ==
    ASSUME NEW S, NEW words \in Seq(S), NEW rest \in Seq(S), NEW k \in 0..Len(words)
    PROVE  From(words, k + 1) \o rest = From(words \o rest, k + 1)
<1> DEFINE all == words \o rest
<1> DEFINE kept == From(words, k + 1)
<1> DEFINE left == kept \o rest
<1> DEFINE right == From(all, k + 1)
<1>1. /\ Len(words) \in Nat /\ Len(rest) \in Nat /\ k \in Nat /\ k <= Len(words)
      /\ all \in Seq(S) /\ Len(all) = Len(words) + Len(rest)
      /\ \A j \in 1..Len(all) : all[j] = IF j <= Len(words) THEN words[j]
                                                          ELSE rest[j - Len(words)]
    BY ConcatProperties
<1>2. /\ kept \in Seq(S) /\ Len(kept) = Len(words) - k
      /\ \A j \in 1..(Len(words) - k) : kept[j] = words[k + j]
    BY FromIs
<1> HIDE DEF all, kept
<1>3. /\ left \in Seq(S) /\ Len(left) = Len(kept) + Len(rest)
      /\ \A j \in 1..Len(left) : left[j] = IF j <= Len(kept) THEN kept[j]
                                                            ELSE rest[j - Len(kept)]
    <2>1. Len(left) = Len(kept) + Len(rest)
        BY <1>2, ConcatProperties
    <2>2. QED  BY <1>2, <2>1, ConcatProperties
<1>4. k \in 0..Len(all)
    BY <1>1
<1>5. /\ right \in Seq(S) /\ Len(right) = Len(all) - k
      /\ \A j \in 1..(Len(all) - k) : right[j] = all[k + j]
    <2>1. all \in Seq(S)
        BY <1>1
    <2>2. QED  BY <1>4, <2>1, FromIs
<1> HIDE DEF left, right
<1>6. Len(left) = Len(right) /\ Len(left) = (Len(words) - k) + Len(rest)
    BY <1>1, <1>2, <1>3, <1>5
<1>7. ASSUME NEW j \in 1..Len(left) PROVE left[j] = right[j]
    <2>1. /\ j \in Nat /\ j >= 1 /\ k + j \in 1..Len(all) /\ j \in 1..(Len(all) - k)
          /\ k + j <= Len(words) <=> j <= Len(kept)
          /\ (k + j) - Len(words) = j - Len(kept)
        BY <1>1, <1>2, <1>6
    <2>2. right[j] = IF k + j <= Len(words) THEN words[k + j] ELSE rest[(k + j) - Len(words)]
        BY <1>1, <1>5, <2>1
    <2>3. left[j] = IF j <= Len(kept) THEN kept[j] ELSE rest[j - Len(kept)]
        BY <1>3
    <2>4. j <= Len(kept) => kept[j] = words[k + j]
        BY <1>2, <2>1
    <2>5. CASE j <= Len(kept)
        <3>1. k + j <= Len(words)
            BY <2>1, <2>5
        <3>2. QED  BY <2>2, <2>3, <2>4, <2>5, <3>1
    <2>6. CASE ~(j <= Len(kept))
        <3>1. ~(k + j <= Len(words)) /\ rest[(k + j) - Len(words)] = rest[j - Len(kept)]
            BY <2>1, <2>6
        <3>2. QED  BY <2>2, <2>3, <2>6, <3>1
    <2>7. QED  BY <2>5, <2>6
<1>8. left = right
    BY <1>3, <1>5, <1>6, <1>7, SeqEqual
<1>9. QED  BY <1>8 DEF left, right, kept, all

(* A stream cut where no intact frame is cut is one.                                  *)
LEMMA StreamSuffix ==
    ASSUME NEW sent, NEW words, Stream(words, sent), NEW k \in 0..Len(words),
           \A j \in DOMAIN words :
              j > k /\ IntactAt(words, sent, j) => j - words[j].place >= k
    PROVE  Stream(From(words, k + 1), sent)
<1> DEFINE rest == From(words, k + 1)
<1>1. words \in Seq(WordSet(sent))
    BY DEF Stream
<1>10. Len(words) \in Nat /\ k \in Nat /\ k <= Len(words) /\ DOMAIN words = 1..Len(words)
    BY <1>1
<1>11. rest \in Seq(WordSet(sent)) /\ Len(rest) = Len(words) - k
       /\ \A j \in 1..(Len(words) - k) : rest[j] = words[k + j]
    BY <1>1, FromIs
<1> HIDE DEF rest
<1>12. DOMAIN rest = 1..(Len(words) - k)
    BY <1>11
<1>2. ASSUME NEW j \in DOMAIN rest
      PROVE  j \in Nat /\ j >= 1 /\ k + j \in DOMAIN words /\ rest[j] = words[k + j]
    BY <1>10, <1>11, <1>12
<1>3. ASSUME NEW j \in DOMAIN words PROVE words[j].place \in Nat
    <2>1. words[j] \in WordSet(sent)
        BY <1>1
    <2>2. QED  BY <2>1 DEF WordSet
<1>4. AsSent(rest, sent)
    <2> SUFFICES ASSUME NEW j \in DOMAIN rest, rest[j].frame # 0
                 PROVE  /\ rest[j].place \in 1..SizeOf(sent, rest[j].frame)
                        /\ rest[j] = Words(rest[j].frame,
                                           sent[rest[j].frame].length)[rest[j].place]
        BY DEF AsSent
    <2>1. k + j \in DOMAIN words /\ rest[j] = words[k + j] /\ words[k + j].frame # 0
        BY <1>2
    <2>2. QED  BY <2>1 DEF Stream, AsSent
<1>5. Ordered(rest)
    <2> SUFFICES ASSUME NEW i \in DOMAIN rest, NEW j \in DOMAIN rest, i < j,
                        rest[i].frame # 0, rest[j].frame # 0
                 PROVE  \/ rest[i].frame < rest[j].frame
                        \/ rest[i].frame = rest[j].frame /\ rest[i].place < rest[j].place
        BY DEF Ordered
    <2>0. i \in Nat /\ j \in Nat
        BY <1>2
    <2>1. k + i < k + j
        BY <1>10, <2>0
    <2>2. /\ k + i \in DOMAIN words /\ rest[i] = words[k + i]
          /\ k + j \in DOMAIN words /\ rest[j] = words[k + j]
        BY <1>2
    <2>3. QED  BY <2>1, <2>2 DEF Stream, Ordered
<1>6. ASSUME NEW j \in DOMAIN rest, IntactAt(rest, sent, j)
      PROVE  /\ rest[j].place <= j
             /\ CopyAfter(rest, j - rest[j].place, rest[j].frame, SizeOf(sent, rest[j].frame))
    <2> DEFINE w == rest[j]
    <2>1. k + j \in DOMAIN words /\ w = words[k + j] /\ j \in Nat /\ j >= 1
        BY <1>2
    <2>2. IntactAt(words, sent, k + j)
        BY <1>6, <2>1 DEF IntactAt
    <2>3. w.place \in Nat
        BY <1>3, <2>1
    <2> DEFINE at == j - w.place
    <2> DEFINE size == SizeOf(sent, w.frame)
    <2>4. CopyAfter(words, (k + j) - words[k + j].place, words[k + j].frame,
                    SizeOf(sent, words[k + j].frame))
        BY <2>1, <2>2 DEF Stream, Whole
    <2>5. (k + j) - words[k + j].place >= k
        BY <1>10, <2>1, <2>2
    <2>55. (k + j) - words[k + j].place = (k + j) - w.place
        BY <2>1
    <2>6. CopyAfter(words, (k + j) - w.place, w.frame, size)
        BY <2>1, <2>4
    <2> HIDE DEF w, size
    <2>7. at \in Nat /\ (k + j) - w.place = k + at
        BY <1>10, <2>1, <2>3, <2>5, <2>55
    <2>8. CopyAfter(words, k + at, w.frame, size)
        BY <2>6, <2>7
    <2> HIDE DEF at
    <2>9. ASSUME NEW m \in 1..size
          PROVE  at + m \in DOMAIN rest /\ rest[at + m].frame = w.frame
                 /\ rest[at + m].place = m
        <3>1. /\ (k + at) + m \in DOMAIN words /\ words[(k + at) + m].frame = w.frame
              /\ words[(k + at) + m].place = m
            BY <2>8 DEF CopyAfter
        <3>2. m \in Int /\ m >= 1
            OBVIOUS
        <3>3. at + m \in 1..(Len(words) - k) /\ k + (at + m) = (k + at) + m
            BY <1>10, <2>7, <3>1, <3>2
        <3>4. QED  BY <1>11, <1>12, <3>1, <3>3
    <2>10. CopyAfter(rest, at, w.frame, size)
        BY <2>9 DEF CopyAfter
    <2>11. at = j - w.place /\ at \in Nat
        BY <2>7 DEF at
    <2>12. w.place <= j
        BY <2>1, <2>3, <2>11
    <2>13. QED  BY <2>10, <2>11, <2>12 DEF w, size
<1>7. Whole(rest, sent)
    BY <1>6 DEF Whole
<1>8. Broken(rest, sent)
    <2> SUFFICES ASSUME NEW frame \in DOMAIN sent, ~sent[frame].intact
                 PROVE  \E m \in 1..SizeOf(sent, frame) :
                           \A j \in DOMAIN rest : ~(rest[j].frame = frame /\ rest[j].place = m)
        BY DEF Broken
    <2>1. PICK m \in 1..SizeOf(sent, frame) :
            \A j \in DOMAIN words : ~(words[j].frame = frame /\ words[j].place = m)
        BY DEF Stream, Broken
    <2>2. ASSUME NEW j \in DOMAIN rest PROVE ~(rest[j].frame = frame /\ rest[j].place = m)
        BY <1>2, <2>1
    <2>3. QED  BY <2>2
<1>9. QED  BY <1>11, <1>4, <1>5, <1>7, <1>8 DEF Stream, rest

(* The frames of a stream.                                                     *)
FramesOf(words) == {words[j].frame : j \in DOMAIN words} \ {0}

(* The words of a stream and its frames have their types.                             *)
LEMMA StreamTypes ==
    ASSUME NEW sent, WrittenOK(sent), NEW words, words \in Seq(WordSet(sent))
    PROVE  /\ Len(words) \in Nat /\ DOMAIN words = 1..Len(words) /\ Len(sent) \in Nat
           /\ DOMAIN sent = 1..Len(sent)
           /\ \A j \in DOMAIN words : words[j] \in WordSet(sent)
           /\ \A j \in DOMAIN words : /\ words[j].frame \in 0..Len(sent)
                                      /\ words[j].place \in Nat
           /\ FramesOf(words) \subseteq DOMAIN sent
           /\ \A frame \in DOMAIN sent : /\ sent[frame].length \in 0..MaxPayload
                                         /\ SizeOf(sent, frame) = sent[frame].length + 4
<1>1. Len(words) \in Nat /\ DOMAIN words = 1..Len(words) /\ Len(sent) \in Nat
      /\ DOMAIN sent = 1..Len(sent) /\ \A j \in DOMAIN words : words[j] \in WordSet(sent)
    BY DEF WrittenOK
<1>2. \A j \in DOMAIN words : words[j].frame \in 0..Len(sent) /\ words[j].place \in Nat
    BY <1>1 DEF WordSet
<1>3. FramesOf(words) \subseteq DOMAIN sent
    BY <1>1, <1>2 DEF FramesOf
<1>4. ASSUME NEW frame \in DOMAIN sent
      PROVE  sent[frame].length \in 0..MaxPayload /\ SizeOf(sent, frame) = sent[frame].length + 4
    <2>1. sent[frame] \in [length : Payloads, known : BOOLEAN, intact : BOOLEAN]
        <3> DEFINE Records == [length : Payloads, known : BOOLEAN, intact : BOOLEAN]
        <3>1. sent \in Seq(Records)
            BY DEF WrittenOK
        <3>2. frame \in 1..Len(sent)
            BY <1>1
        <3> HIDE DEF Records
        <3>3. sent[frame] \in Records
            BY <3>1, <3>2
        <3>4. QED  BY <3>3 DEF Records
    <2>2. QED  BY <2>1, FramingAssumption DEF SizeOf, Overhead
<1>5. QED  BY <1>1, <1>2, <1>3, <1>4

(* An intact word: the frame it belongs to starts in the stream, and is there whole.     *)
LEMMA IntactStarts ==
    ASSUME NEW sent, WrittenOK(sent), NEW words, Stream(words, sent),
           NEW j \in DOMAIN words, IntactAt(words, sent, j)
    PROVE  /\ words[j].place \in 1..j /\ words[j].frame \in DOMAIN sent
           /\ words[j].place <= SizeOf(sent, words[j].frame)
           /\ (j - words[j].place) + 1 \in DOMAIN words
           /\ StartsAt(words, sent, (j - words[j].place) + 1)
           /\ words[(j - words[j].place) + 1].frame = words[j].frame
<1> DEFINE w == words[j]
<1>1. words \in Seq(WordSet(sent))
    BY DEF Stream
<1>2. j \in Nat /\ w.frame \in DOMAIN sent /\ w.place \in Nat
      /\ SizeOf(sent, w.frame) \in Nat
    <2>1. w.frame # 0
        BY DEF IntactAt
    <2>2. w.frame \in DOMAIN sent
        BY <1>1, <2>1, StreamTypes
    <2>3. QED  BY <1>1, <2>2, StreamTypes
<1>3. w.place \in 1..SizeOf(sent, w.frame)
    BY DEF Stream, AsSent, IntactAt
<1>4. w.place <= j /\ CopyAfter(words, j - w.place, w.frame, SizeOf(sent, w.frame))
    BY DEF Stream, Whole
<1>5. 1 \in 1..SizeOf(sent, w.frame)
    BY <1>2, <1>3
<1>6. /\ (j - w.place) + 1 \in DOMAIN words
      /\ words[(j - w.place) + 1].frame = w.frame /\ words[(j - w.place) + 1].place = 1
    BY <1>4, <1>5 DEF CopyAfter
<1>7. StartsAt(words, sent, (j - w.place) + 1)
    BY <1>6 DEF StartsAt, IntactAt
<1>8. QED  BY <1>2, <1>3, <1>4, <1>6, <1>7

(* Where an intact frame starts its words follow: the magic, its length and the rest.    *)
LEMMA StartWords ==
    ASSUME NEW sent, WrittenOK(sent), NEW words, Stream(words, sent),
           NEW j \in DOMAIN words, StartsAt(words, sent, j)
    PROVE  /\ words[j].frame \in DOMAIN sent
           /\ SizeOf(sent, words[j].frame) = sent[words[j].frame].length + 4
           /\ sent[words[j].frame].length \in 0..MaxPayload
           /\ \A m \in 1..SizeOf(sent, words[j].frame) :
                 /\ (j - 1) + m \in DOMAIN words
                 /\ words[(j - 1) + m].frame = words[j].frame
                 /\ words[(j - 1) + m].place = m
           /\ words[j].kind = "magic1"
           /\ j + 1 \in DOMAIN words /\ words[j + 1].kind = "magic2"
           /\ j + 2 \in DOMAIN words /\ words[j + 2].kind = "length"
           /\ words[j + 2].claims = sent[words[j].frame].length
<1> DEFINE f == words[j].frame
<1> DEFINE length == sent[f].length
<1>1. words \in Seq(WordSet(sent))
    BY DEF Stream
<1>2. f # 0 /\ words[j].place = 1
    BY DEF StartsAt, IntactAt
<1>3. f \in DOMAIN sent /\ j \in Nat /\ j >= 1 /\ SizeOf(sent, f) = length + 4
      /\ length \in 0..MaxPayload
    <2>1. f \in DOMAIN sent
        BY <1>1, <1>2, StreamTypes
    <2>2. QED  BY <1>1, <2>1, StreamTypes
<1>4. CopyAfter(words, j - 1, f, SizeOf(sent, f))
    <2>1. CopyAfter(words, j - words[j].place, f, SizeOf(sent, f))
        BY DEF Stream, Whole, StartsAt
    <2>2. QED  BY <1>2, <2>1
<1>5. length \in Nat /\ MaxPayload \in Nat
    BY <1>3, FramingAssumption
<1> HIDE DEF length
<1>6. 1 \in 1..SizeOf(sent, f) /\ 2 \in 1..SizeOf(sent, f) /\ 3 \in 1..SizeOf(sent, f)
    BY <1>3, <1>5
<1>7. (j - 1) + 1 = j /\ (j - 1) + 2 = j + 1 /\ (j - 1) + 3 = j + 2
    BY <1>3
<1>8. /\ j + 1 \in DOMAIN words /\ words[j + 1].frame = f /\ words[j + 1].place = 2
      /\ j + 2 \in DOMAIN words /\ words[j + 2].frame = f /\ words[j + 2].place = 3
    BY <1>4, <1>6, <1>7 DEF CopyAfter
<1>9. words[j] = Words(f, length)[1] /\ words[j + 1] = Words(f, length)[2]
      /\ words[j + 2] = Words(f, length)[3]
    BY <1>2, <1>8 DEF Stream, AsSent, length
<1>10. 1 \in 1..(length + Overhead) /\ 2 \in 1..(length + Overhead)
       /\ 3 \in 1..(length + Overhead)
    BY <1>5 DEF Overhead
<1>11. /\ Words(f, length)[1] = Word(f, 1, "magic1", 0)
       /\ Words(f, length)[2] = Word(f, 2, "magic2", 0)
       /\ Words(f, length)[3] = Word(f, 3, "length", length)
    BY <1>10 DEF Words, Magic, HeaderSize
<1>12. words[j].kind = "magic1" /\ words[j + 1].kind = "magic2" /\ words[j + 2].kind = "length"
       /\ words[j + 2].claims = length
    BY <1>9, <1>11 DEF Word
<1>13. \A m \in 1..SizeOf(sent, f) :
          /\ (j - 1) + m \in DOMAIN words
          /\ words[(j - 1) + m].frame = f /\ words[(j - 1) + m].place = m
    BY <1>4 DEF CopyAfter
<1>14. QED  BY <1>3, <1>8, <1>12, <1>13 DEF length

(* Two sequences of words, one after the other.                                       *)
LEMMA JoinWords ==
    ASSUME NEW sent, NEW words \in Seq(WordSet(sent)), NEW rest \in Seq(WordSet(sent))
    PROVE  /\ words \o rest \in Seq(WordSet(sent))
           /\ Len(words \o rest) = Len(words) + Len(rest)
           /\ Len(words) \in Nat /\ Len(rest) \in Nat /\ DOMAIN words = 1..Len(words)
           /\ DOMAIN (words \o rest) = 1..(Len(words) + Len(rest))
           /\ \A j \in DOMAIN words : /\ j \in DOMAIN (words \o rest)
                                      /\ (words \o rest)[j] = words[j]
<1>1. words \o rest \in Seq(WordSet(sent)) /\ Len(words \o rest) = Len(words) + Len(rest)
      /\ Len(words) \in Nat /\ Len(rest) \in Nat /\ DOMAIN words = 1..Len(words)
    BY ConcatProperties
<1>2. DOMAIN (words \o rest) = 1..(Len(words) + Len(rest))
    BY <1>1
<1>3. \A j \in DOMAIN words : j \in DOMAIN (words \o rest)
    BY <1>1, <1>2
<1>4. ASSUME NEW j \in DOMAIN words PROVE (words \o rest)[j] = words[j]
    <2>1. j \in 1..(Len(words) + Len(rest)) /\ j <= Len(words)
        BY <1>1
    <2>2. QED  BY <2>1, ConcatProperties
<1>5. QED  BY <1>1, <1>2, <1>3, <1>4

(* What the parser may drop: words at which no intact frame starts.  What is left is a      *)
(* stream, and completes the same frames.                                           *)
LEMMA DropWords ==
    ASSUME WrittenOK(written), NEW words \in Seq(WordSet(written)),
           NEW rest \in Seq(WordSet(written)), Stream(words \o rest, written),
           NEW k \in 0..Len(words), \A j \in 1..k : ~StartsAt(words \o rest, written, j)
    PROVE  /\ From(words, k + 1) \in Seq(WordSet(written))
           /\ Len(From(words, k + 1)) = Len(words) - k
           /\ Stream(From(words, k + 1) \o rest, written)
           /\ Completed(From(words, k + 1)) = Completed(words)
<1> DEFINE all == words \o rest
<1> DEFINE kept == From(words, k + 1)
<1>1. /\ all \in Seq(WordSet(written)) /\ Len(all) = Len(words) + Len(rest)
      /\ Len(words) \in Nat /\ Len(rest) \in Nat /\ DOMAIN words = 1..Len(words)
      /\ DOMAIN all = 1..(Len(words) + Len(rest))
      /\ \A j \in DOMAIN words : j \in DOMAIN all /\ all[j] = words[j]
    BY JoinWords
<1>2. /\ kept \in Seq(WordSet(written)) /\ Len(kept) = Len(words) - k
      /\ \A j \in 1..(Len(words) - k) : kept[j] = words[k + j]
    BY FromIs
<1>3. DOMAIN kept = 1..(Len(words) - k) /\ k \in Nat /\ k <= Len(words)
    BY <1>1, <1>2
<1> HIDE DEF all
<1>4. ASSUME NEW j \in DOMAIN all, IntactAt(all, written, j), j > k
      PROVE  j - all[j].place >= k
    <2>1. /\ all[j].place \in 1..j /\ (j - all[j].place) + 1 \in DOMAIN all
          /\ StartsAt(all, written, (j - all[j].place) + 1)
        BY <1>4, IntactStarts DEF all
    <2>2. (j - all[j].place) + 1 \notin 1..k
        BY <2>1 DEF all
    <2>3. j \in Nat /\ all[j].place \in Nat /\ j - all[j].place >= 0
        BY <1>1, <2>1
    <2>4. QED  BY <1>3, <2>2, <2>3
<1>5. Stream(From(all, k + 1), written)
    <2>1. k \in 0..Len(all)
        BY <1>1
    <2>2. Stream(all, written)
        BY DEF all
    <2>3. QED  BY <1>4, <2>1, <2>2, StreamSuffix
<1>6. From(all, k + 1) = kept \o rest
    BY FromConcat DEF all
<1>7. ASSUME NEW frame \in Completed(words) PROVE frame \in Completed(kept)
    <2>1. /\ frame \in DOMAIN written /\ written[frame].intact /\ Returns(frame)
          /\ \E i \in DOMAIN words : /\ words[i].frame = frame
                                     /\ words[i].place = written[frame].length + Overhead
        BY DEF Completed
    <2>2. PICK i \in DOMAIN words : /\ words[i].frame = frame
                                    /\ words[i].place = written[frame].length + Overhead
        BY <2>1
    <2>3. all[i] = words[i] /\ i \in DOMAIN all /\ frame # 0
          /\ SizeOf(written, frame) = written[frame].length + Overhead
        BY <1>1, <2>1 DEF WrittenOK, SizeOf
    <2>4. IntactAt(all, written, i)
        BY <2>1, <2>2, <2>3 DEF IntactAt
    <2>5. /\ all[i].place \in 1..i /\ (i - all[i].place) + 1 \in DOMAIN all
          /\ StartsAt(all, written, (i - all[i].place) + 1)
        BY <2>3, <2>4, IntactStarts DEF all
    <2>6. (i - all[i].place) + 1 \notin 1..k
        BY <2>5 DEF all
    <2>7. i > k
        BY <1>1, <1>3, <2>5, <2>6
    <2>8. i - k \in DOMAIN kept /\ kept[i - k] = words[i]
        <3>1. i - k \in 1..(Len(words) - k) /\ k + (i - k) = i
            BY <1>1, <1>3, <2>2, <2>7
        <3>2. QED  BY <1>2, <1>3, <3>1
    <2>9. QED  BY <2>1, <2>2, <2>8 DEF Completed
<1>8. ASSUME NEW frame \in Completed(kept) PROVE frame \in Completed(words)
    <2>1. /\ frame \in DOMAIN written /\ written[frame].intact /\ Returns(frame)
          /\ \E i \in DOMAIN kept : /\ kept[i].frame = frame
                                    /\ kept[i].place = written[frame].length + Overhead
        BY DEF Completed
    <2>2. PICK i \in DOMAIN kept : /\ kept[i].frame = frame
                                   /\ kept[i].place = written[frame].length + Overhead
        BY <2>1
    <2>3. k + i \in DOMAIN words /\ words[k + i] = kept[i]
        BY <1>1, <1>2, <1>3
    <2>4. QED  BY <2>1, <2>2, <2>3 DEF Completed
<1>9. Completed(kept) = Completed(words)
    BY <1>7, <1>8 DEF Completed
<1>10. QED  BY <1>2, <1>5, <1>6, <1>9 DEF all

(* Positions after a window of a sequence are positions of the sequence.                  *)
LEMMA Beyond ==
    ASSUME NEW n \in Nat, NEW size \in Nat, NEW i \in 1..(n - size)
    PROVE  size + i \in 1..n /\ size + i > size
OBVIOUS

(* A window that passes the check is an intact frame: the parser returns it, what is left is   *)
(* a stream of later frames, and the frame is the one completion taken away.                  *)
LEMMA TakeFrame ==
    ASSUME WrittenOK(written), NEW words \in Seq(WordSet(written)),
           NEW rest \in Seq(WordSet(written)), Stream(words \o rest, written),
           Len(words) >= HeaderSize, FrameSize(words, 1) <= Len(words), CheckOK(words, 1)
    PROVE  /\ words[1].frame \in DOMAIN written
           /\ FrameSize(words, 1) \in 4..Len(words)
           /\ From(words, FrameSize(words, 1) + 1) \in Seq(WordSet(written))
           /\ Len(From(words, FrameSize(words, 1) + 1)) = Len(words) - FrameSize(words, 1)
           /\ Stream(From(words, FrameSize(words, 1) + 1) \o rest, written)
           /\ \A frame \in FramesOf(From(words, FrameSize(words, 1) + 1) \o rest) :
                 words[1].frame < frame
           /\ Completed(words) = Completed(From(words, FrameSize(words, 1) + 1))
                                    \cup Range(Returned(words[1].frame))
<1> DEFINE all == words \o rest
<1> DEFINE f == words[1].frame
<1> DEFINE size == FrameSize(words, 1)
<1> DEFINE kept == From(words, size + 1)
<1>1. /\ all \in Seq(WordSet(written)) /\ Len(all) = Len(words) + Len(rest)
      /\ Len(words) \in Nat /\ Len(rest) \in Nat /\ DOMAIN words = 1..Len(words)
      /\ DOMAIN all = 1..(Len(words) + Len(rest))
      /\ \A j \in DOMAIN words : j \in DOMAIN all /\ all[j] = words[j]
    BY JoinWords
<1>2. Stream(all, written)
    OBVIOUS
<1> HIDE DEF all
<1>3. size \in Nat /\ size >= 4 /\ size = words[3].claims + 4 /\ 3 \in DOMAIN words
    <2>1. 3 \in DOMAIN words
        BY <1>1 DEF HeaderSize
    <2>2. words[3] \in WordSet(written)
        BY <1>1, <2>1
    <2>3. words[3].claims \in Nat
        BY <2>2 DEF WordSet
    <2>4. size = words[3].claims + 4
        BY DEF FrameSize, Overhead
    <2>5. QED  BY <2>1, <2>3, <2>4
<1>4. size <= Len(words)
    OBVIOUS
<1>5. ASSUME NEW k \in 0..(size - 1)
      PROVE  words[1 + k].frame = f /\ f # 0 /\ words[1 + k].place = k + 1
    BY DEF CheckOK
<1> HIDE DEF size, kept
<1>6. ASSUME NEW m \in 1..size
      PROVE  /\ m \in DOMAIN words /\ m \in DOMAIN all /\ all[m] = words[m]
             /\ all[m].frame = f /\ all[m].place = m
    <2>1. m - 1 \in 0..(size - 1) /\ 1 + (m - 1) = m /\ (m - 1) + 1 = m /\ m \in DOMAIN words
        BY <1>1, <1>3, <1>4
    <2>2. words[m].frame = f /\ words[m].place = m
        BY <1>5, <2>1
    <2>3. QED  BY <1>1, <2>1, <2>2
<1>7. f # 0 /\ 1 \in 1..size /\ 3 \in 1..size /\ size \in 1..size /\ 0 \in 0..(size - 1)
    BY <1>3, <1>5
<1>8. f \in DOMAIN written
    <2>1. f \in FramesOf(all)
        BY <1>6, <1>7 DEF FramesOf
    <2>2. QED  BY <1>1, <2>1, StreamTypes
<1>9. SizeOf(written, f) = written[f].length + 4 /\ written[f].length \in 0..MaxPayload
    BY <1>1, <1>8, StreamTypes
<1>10. size = SizeOf(written, f)
    <2>1. all[3].frame = f /\ all[3].place = 3 /\ all[3] = words[3] /\ 3 \in DOMAIN all
        BY <1>6, <1>7
    <2>2. all[3] = Words(f, written[f].length)[3]
        BY <1>2, <1>7, <2>1 DEF Stream, AsSent
    <2>3. written[f].length \in Nat
        BY <1>9, FramingAssumption
    <2>4. 3 \in 1..(written[f].length + Overhead)
        BY <2>3 DEF Overhead
    <2>5. Words(f, written[f].length)[3] = Word(f, 3, "length", written[f].length)
        BY <2>4 DEF Words, HeaderSize
    <2>6. words[3].claims = written[f].length
        BY <2>1, <2>2, <2>5 DEF Word
    <2>7. QED  BY <1>3, <1>9, <2>6
<1>11. written[f].intact
    <2> SUFFICES ASSUME ~written[f].intact PROVE FALSE
        OBVIOUS
    <2>1. PICK m \in 1..SizeOf(written, f) :
            \A j \in DOMAIN all : ~(all[j].frame = f /\ all[j].place = m)
        BY <1>2, <1>8 DEF Stream, Broken
    <2>2. QED  BY <1>6, <1>10, <2>1
<1>12. /\ kept \in Seq(WordSet(written)) /\ Len(kept) = Len(words) - size
       /\ \A j \in 1..(Len(words) - size) : kept[j] = words[size + j]
    <2>1. size \in 0..Len(words)
        BY <1>3, <1>4
    <2>2. QED  BY <2>1, FromIs DEF kept
<1>13. ASSUME NEW j \in DOMAIN all, j > size, all[j].frame # 0 PROVE f < all[j].frame
    <2>1. size \in DOMAIN all /\ all[size].frame = f /\ all[size].place = size
        BY <1>6, <1>7
    <2>2. \/ f < all[j].frame
          \/ f = all[j].frame /\ size < all[j].place
        BY <1>2, <1>7, <1>13, <2>1 DEF Stream, Ordered
    <2>3. all[j].place \in 1..SizeOf(written, all[j].frame)
        BY <1>2, <1>13 DEF Stream, AsSent
    <2>4. QED  BY <1>3, <1>10, <2>2, <2>3
<1>14. ASSUME NEW j \in DOMAIN all, j > size, IntactAt(all, written, j)
       PROVE  j - all[j].place >= size
    <2>1. /\ all[j].place \in 1..j /\ (j - all[j].place) + 1 \in DOMAIN all
          /\ all[(j - all[j].place) + 1].frame = all[j].frame
        BY <1>2, <1>14, IntactStarts
    <2>2. j \in Nat /\ all[j].place \in Nat /\ j - all[j].place \in Nat
        BY <1>1, <2>1
    <2>3. all[j].frame # 0
        BY <1>14 DEF IntactAt
    <2>4. f < all[j].frame
        BY <1>13, <1>14, <2>3
    <2>5. (j - all[j].place) + 1 \notin 1..size
        <3>1. f # all[j].frame
            BY <1>1, <1>8, <2>4, StreamTypes
        <3>2. QED  BY <1>6, <2>1, <3>1
    <2>6. QED  BY <1>3, <2>2, <2>5
<1>15. Stream(From(all, size + 1), written)
    <2>1. size \in 0..Len(all)
        BY <1>1, <1>3, <1>4
    <2>2. QED  BY <1>2, <1>14, <2>1, StreamSuffix
<1>16. From(all, size + 1) = kept \o rest
    <2>1. size \in 0..Len(words)
        BY <1>3, <1>4
    <2>2. QED  BY <2>1, FromConcat DEF all, kept
<1>17. ASSUME NEW frame \in FramesOf(kept \o rest) PROVE f < frame
    <2>1. /\ From(all, size + 1) \in Seq(WordSet(written))
          /\ Len(From(all, size + 1)) = Len(all) - size
          /\ \A j \in 1..(Len(all) - size) : From(all, size + 1)[j] = all[size + j]
        <3>1. size \in 0..Len(all)
            BY <1>1, <1>3, <1>4
        <3>2. QED  BY <1>1, <3>1, FromIs
    <2>2. frame # 0 /\ \E j \in DOMAIN From(all, size + 1) : frame = From(all, size + 1)[j].frame
        BY <1>16 DEF FramesOf
    <2>3. PICK j \in DOMAIN From(all, size + 1) : frame = From(all, size + 1)[j].frame
        BY <2>2
    <2>4. j \in 1..(Len(all) - size)
        BY <2>1
    <2>5. frame = all[size + j].frame
        BY <2>1, <2>3, <2>4
    <2>6. size + j \in DOMAIN all /\ size + j > size
        <3>1. Len(all) \in Nat /\ DOMAIN all = 1..Len(all)
            BY <1>1
        <3>2. size \in Nat
            BY <1>3
        <3>3. size + j \in 1..Len(all) /\ size + j > size
            BY <2>4, <3>1, <3>2, Beyond
        <3>4. QED  BY <3>1, <3>3
    <2>7. QED  BY <1>13, <2>2, <2>5, <2>6
<1>18. Range(Returned(f)) = IF Returns(f) THEN {f} ELSE {}
    <2>1. Returned(f) = IF Returns(f) THEN <<f>> ELSE <<>>
        BY <1>7 DEF Returned
    <2>2. Range(<<f>>) = {f} /\ Range(<< >>) = {}
        BY DEF Range
    <2>3. QED  BY <2>1, <2>2
<1>19. ASSUME NEW frame \in Completed(words)
       PROVE  frame \in Completed(kept) \/ (frame = f /\ Returns(f))
    <2>1. /\ frame \in DOMAIN written /\ written[frame].intact /\ Returns(frame)
          /\ \E i \in DOMAIN words : /\ words[i].frame = frame
                                     /\ words[i].place = written[frame].length + Overhead
        BY DEF Completed
    <2>2. PICK i \in DOMAIN words : /\ words[i].frame = frame
                                    /\ words[i].place = written[frame].length + Overhead
        BY <2>1
    <2>3. CASE i \in 1..size
        <3>1. frame = f
            BY <1>6, <2>2, <2>3
        <3>2. QED  BY <2>1, <3>1
    <2>4. CASE i \notin 1..size
        <3>1. i - size \in 1..(Len(words) - size) /\ size + (i - size) = i
            BY <1>1, <1>3, <2>4
        <3>2. i - size \in DOMAIN kept /\ kept[i - size] = words[i]
            BY <1>12, <3>1
        <3>3. /\ kept[i - size].frame = frame
              /\ kept[i - size].place = written[frame].length + Overhead
            BY <2>2, <3>2
        <3>4. frame \in Completed(kept)
            BY <2>1, <3>2, <3>3 DEF Completed
        <3>5. QED  BY <3>4
    <2>5. QED  BY <2>3, <2>4
<1>20. ASSUME NEW frame \in Completed(kept) PROVE frame \in Completed(words)
    <2>1. /\ frame \in DOMAIN written /\ written[frame].intact /\ Returns(frame)
          /\ \E i \in DOMAIN kept : /\ kept[i].frame = frame
                                    /\ kept[i].place = written[frame].length + Overhead
        BY DEF Completed
    <2>2. PICK i \in DOMAIN kept : /\ kept[i].frame = frame
                                   /\ kept[i].place = written[frame].length + Overhead
        BY <2>1
    <2>3. i \in 1..(Len(words) - size)
        BY <1>12
    <2>4. size + i \in DOMAIN words /\ words[size + i] = kept[i]
        <3>1. Len(words) \in Nat /\ DOMAIN words = 1..Len(words) /\ size \in Nat
            BY <1>1, <1>3
        <3>2. size + i \in 1..Len(words)
            BY <2>3, <3>1, Beyond
        <3>3. words[size + i] = kept[i]
            BY <1>12, <2>3
        <3>4. QED  BY <3>1, <3>2, <3>3
    <2>5. QED  BY <2>1, <2>2, <2>4 DEF Completed
<1>21. Returns(f) => f \in Completed(words)
    <2>1. size = written[f].length + Overhead
        BY <1>9, <1>10 DEF Overhead
    <2>2. size \in DOMAIN words /\ words[size].frame = f /\ words[size].place = size
        BY <1>6, <1>7
    <2>3. QED  BY <1>8, <1>11, <2>1, <2>2 DEF Completed
<1>22. Completed(words) = Completed(kept) \cup Range(Returned(f))
    BY <1>18, <1>19, <1>20, <1>21
<1>225. size \in 4..Len(words)
    BY <1>1, <1>3, <1>4
<1>23. QED  BY <1>225, <1>4, <1>8, <1>12, <1>15, <1>16, <1>17, <1>22 DEF size, kept

(* What is left of a stream has no frames it had not.                                  *)
LEMMA FramesLeft ==
    ASSUME NEW words \in Seq(WordSet(written)), NEW rest \in Seq(WordSet(written)),
           NEW k \in 0..Len(words)
    PROVE  FramesOf(From(words, k + 1) \o rest) \subseteq FramesOf(words \o rest)
<1> DEFINE all == words \o rest
<1>1. all \in Seq(WordSet(written)) /\ Len(all) = Len(words) + Len(rest)
      /\ Len(words) \in Nat /\ Len(rest) \in Nat /\ DOMAIN all = 1..(Len(words) + Len(rest))
    BY JoinWords
<1>2. From(words, k + 1) \o rest = From(all, k + 1)
    BY FromConcat
<1> HIDE DEF all
<1>3. k \in 0..Len(all) /\ k \in Nat
    BY <1>1
<1>4. From(all, k + 1) \in Seq(WordSet(written)) /\ Len(From(all, k + 1)) = Len(all) - k
      /\ \A j \in 1..(Len(all) - k) : From(all, k + 1)[j] = all[k + j]
    BY <1>1, <1>3, FromIs
<1>5. ASSUME NEW j \in DOMAIN From(all, k + 1)
      PROVE  k + j \in DOMAIN all /\ From(all, k + 1)[j] = all[k + j]
    <2>1. j \in 1..(Len(all) - k)
        BY <1>4
    <2>2. k + j \in DOMAIN all
        BY <1>1, <1>3, <2>1
    <2>3. QED  BY <1>4, <2>1, <2>2
<1>6. FramesOf(From(all, k + 1)) \subseteq FramesOf(all)
    BY <1>5 DEF FramesOf
<1>7. QED  BY <1>2, <1>6 DEF all

(* A completed frame starts in the words that complete it, and ends in them.              *)
LEMMA CompletedStarts ==
    ASSUME WrittenOK(written), NEW words \in Seq(WordSet(written)),
           NEW rest \in Seq(WordSet(written)), Stream(words \o rest, written),
           NEW frame \in Completed(words)
    PROVE  \E s \in DOMAIN words :
              /\ StartsAt(words \o rest, written, s) /\ words[s].frame = frame
              /\ (s - 1) + SizeOf(written, frame) <= Len(words)
<1> DEFINE all == words \o rest
<1>1. /\ all \in Seq(WordSet(written)) /\ Len(words) \in Nat /\ DOMAIN words = 1..Len(words)
      /\ \A j \in DOMAIN words : j \in DOMAIN all /\ all[j] = words[j]
    BY JoinWords
<1>2. Stream(all, written)
    OBVIOUS
<1> HIDE DEF all
<1>3. /\ frame \in DOMAIN written /\ written[frame].intact
      /\ \E i \in DOMAIN words : /\ words[i].frame = frame
                                 /\ words[i].place = written[frame].length + Overhead
    BY DEF Completed
<1>4. PICK i \in DOMAIN words : /\ words[i].frame = frame
                                /\ words[i].place = written[frame].length + Overhead
    BY <1>3
<1>5. frame # 0 /\ i \in DOMAIN all /\ all[i] = words[i]
      /\ all[i].place = SizeOf(written, frame)
    BY <1>1, <1>3, <1>4 DEF WrittenOK, SizeOf
<1>6. IntactAt(all, written, i)
    BY <1>3, <1>4, <1>5 DEF IntactAt
<1>7. /\ all[i].place \in 1..i /\ (i - all[i].place) + 1 \in DOMAIN all
      /\ StartsAt(all, written, (i - all[i].place) + 1)
      /\ all[(i - all[i].place) + 1].frame = all[i].frame
    BY <1>2, <1>5, <1>6, IntactStarts
<1> DEFINE s == (i - all[i].place) + 1
<1>8. s \in DOMAIN words /\ (s - 1) + SizeOf(written, frame) <= Len(words)
    BY <1>1, <1>5, <1>7
<1> HIDE DEF s
<1>9. StartsAt(all, written, s) /\ all[s].frame = frame
    BY <1>4, <1>5, <1>7 DEF s
<1>10. words[s].frame = frame
    BY <1>1, <1>8, <1>9
<1>11. QED  BY <1>8, <1>9, <1>10 DEF all

(* Where an intact frame starts there is a magic, if both its words are there, and a header    *)
(* that gives its size, if that is.                                                 *)
LEMMA StartIsFound ==
    ASSUME WrittenOK(written), NEW words \in Seq(WordSet(written)),
           NEW rest \in Seq(WordSet(written)), Stream(words \o rest, written),
           NEW s \in DOMAIN words, StartsAt(words \o rest, written, s)
    PROVE  /\ words[s].kind = "magic1"
           /\ s + 1 <= Len(words) => IsMagicAt(words, s)
           /\ s + 2 <= Len(words) =>
                 HeaderOK(words, s) /\ FrameSize(words, s) = SizeOf(written, words[s].frame)
           /\ SizeOf(written, words[s].frame) \in Nat /\ SizeOf(written, words[s].frame) >= 4
           /\ \A m \in 1..SizeOf(written, words[s].frame) :
                 (s - 1) + m <= Len(words) =>
                    /\ words[(s - 1) + m].frame = words[s].frame
                    /\ words[(s - 1) + m].place = m
<1> DEFINE all == words \o rest
<1>1. /\ Len(words) \in Nat /\ DOMAIN words = 1..Len(words)
      /\ \A j \in DOMAIN words : j \in DOMAIN all /\ all[j] = words[j]
    BY JoinWords
<1>2. Stream(all, written) /\ StartsAt(all, written, s)
    OBVIOUS
<1> HIDE DEF all
<1> DEFINE f == words[s].frame
<1>3. s \in DOMAIN all /\ all[s] = words[s] /\ s \in Nat /\ s >= 1
    BY <1>1
<1>4. /\ f \in DOMAIN written
      /\ SizeOf(written, f) = written[f].length + 4 /\ written[f].length \in 0..MaxPayload
      /\ \A m \in 1..SizeOf(written, f) :
            /\ all[(s - 1) + m].frame = f /\ all[(s - 1) + m].place = m
      /\ all[s].kind = "magic1" /\ all[s + 1].kind = "magic2" /\ all[s + 2].kind = "length"
      /\ all[s + 2].claims = written[f].length
    <2> DEFINE g == all[s].frame
    <2>1. /\ g \in DOMAIN written
          /\ SizeOf(written, g) = written[g].length + 4 /\ written[g].length \in 0..MaxPayload
          /\ \A m \in 1..SizeOf(written, g) :
                /\ all[(s - 1) + m].frame = g /\ all[(s - 1) + m].place = m
          /\ all[s].kind = "magic1" /\ all[s + 1].kind = "magic2" /\ all[s + 2].kind = "length"
          /\ all[s + 2].claims = written[g].length
        <3>1. s \in DOMAIN all
            BY <1>3
        <3>2. QED  BY <1>2, <3>1, StartWords
    <2>2. g = f
        BY <1>3
    <2> HIDE DEF f, g
    <2>3. QED  BY <2>1, <2>2
<1>5. SizeOf(written, f) \in Nat /\ SizeOf(written, f) >= 4
    BY <1>4, FramingAssumption
<1>6. words[s].kind = "magic1"
    BY <1>3, <1>4
<1>7. ASSUME s + 1 <= Len(words) PROVE IsMagicAt(words, s)
    <2>1. s + 1 \in DOMAIN words
        BY <1>1, <1>3, <1>7
    <2>2. words[s + 1].kind = "magic2"
        BY <1>1, <1>4, <2>1
    <2>3. QED  BY <1>6, <1>7, <2>2 DEF IsMagicAt, Magic
<1>8. ASSUME s + 2 <= Len(words)
      PROVE  HeaderOK(words, s) /\ FrameSize(words, s) = SizeOf(written, f)
    <2>1. s + 2 \in DOMAIN words
        BY <1>1, <1>3, <1>8
    <2>2. words[s + 2].kind = "length" /\ words[s + 2].claims = written[f].length
        BY <1>1, <1>4, <2>1
    <2>3. written[f].length <= MaxPayload
        BY <1>4, FramingAssumption
    <2>4. QED  BY <1>4, <2>2, <2>3 DEF HeaderOK, FrameSize, Overhead
<1>9. ASSUME NEW m \in 1..SizeOf(written, f), (s - 1) + m <= Len(words)
      PROVE  words[(s - 1) + m].frame = f /\ words[(s - 1) + m].place = m
    <2>1. (s - 1) + m \in DOMAIN words
        BY <1>1, <1>3, <1>5, <1>9
    <2>2. QED  BY <1>1, <1>4, <2>1
<1>10. QED  BY <1>5, <1>6, <1>7, <1>8, <1>9

(* An intact frame that is there whole is valid.                                     *)
LEMMA StartIsValid ==
    ASSUME WrittenOK(written), NEW words \in Seq(WordSet(written)),
           NEW rest \in Seq(WordSet(written)), Stream(words \o rest, written),
           NEW s \in DOMAIN words, StartsAt(words \o rest, written, s),
           (s - 1) + SizeOf(written, words[s].frame) <= Len(words)
    PROVE  /\ IsMagicAt(words, s) /\ Remaining(words, s) >= HeaderSize /\ HeaderOK(words, s)
           /\ FrameSize(words, s) = SizeOf(written, words[s].frame)
           /\ Remaining(words, s) >= FrameSize(words, s) /\ CheckOK(words, s)
<1> DEFINE f == words[s].frame
<1> DEFINE size == SizeOf(written, f)
<1>1. /\ s + 1 <= Len(words) => IsMagicAt(words, s)
      /\ s + 2 <= Len(words) => HeaderOK(words, s) /\ FrameSize(words, s) = size
      /\ size \in Nat /\ size >= 4
      /\ \A m \in 1..size :
            (s - 1) + m <= Len(words) =>
               words[(s - 1) + m].frame = f /\ words[(s - 1) + m].place = m
    BY StartIsFound
<1>2. Len(words) \in Nat /\ s \in Nat /\ s >= 1
    BY JoinWords
<1>3. (s - 1) + size <= Len(words) /\ f # 0
    <2>1. (words \o rest)[s] = words[s]
        BY JoinWords
    <2>2. QED  BY <2>1 DEF StartsAt, IntactAt
<1> HIDE DEF f, size
<1>4. s + 1 <= Len(words) /\ s + 2 <= Len(words)
    BY <1>1, <1>2, <1>3
<1>5. FrameSize(words, s) = size
    BY <1>1, <1>4
<1>6. Remaining(words, s) >= HeaderSize /\ Remaining(words, s) >= size
    BY <1>1, <1>2, <1>3 DEF Remaining, HeaderSize
<1>7. ASSUME NEW k \in 0..(size - 1)
      PROVE  words[s + k].frame = f /\ words[s + k].place = k + 1
    <2>1. k + 1 \in 1..size /\ (s - 1) + (k + 1) = s + k /\ (s - 1) + (k + 1) <= Len(words)
        <3>1. k \in Nat /\ k + 1 <= size
            BY <1>1
        <3>2. k + 1 \in 1..size /\ (s - 1) + (k + 1) = s + k
            BY <1>1, <1>2, <3>1
        <3>3. (s - 1) + (k + 1) <= (s - 1) + size
            BY <1>1, <1>2, <3>1
        <3>4. QED  BY <1>1, <1>2, <1>3, <3>1, <3>2, <3>3
    <2>2. QED  BY <1>1, <2>1
<1>8. CheckOK(words, s)
    BY <1>3, <1>5, <1>7 DEF CheckOK, f
<1>9. QED  BY <1>1, <1>4, <1>5, <1>6, <1>8 DEF f, size

(* The least position the parser finds.                                               *)
LEMMA MinIs ==
    ASSUME NEW T, T \subseteq Nat, T # {}
    PROVE  Min(T) \in T /\ \A x \in T : Min(T) <= x
<1>1. \E x \in T : \A y \in T : x <= y
    BY LeastMember
<1>2. QED  BY <1>1 DEF Min

(* Aligning drops no start of an intact frame, and leaves a magic in front or hardly a word.  *)
LEMMA AlignedDrops ==
    ASSUME WrittenOK(written), NEW words \in Seq(WordSet(written)),
           NEW rest \in Seq(WordSet(written)), Stream(words \o rest, written)
    PROVE  \E k \in 0..Len(words) :
              /\ Aligned(words) = From(words, k + 1)
              /\ \A j \in 1..k : ~StartsAt(words \o rest, written, j)
              /\ IsMagicAt(Aligned(words), 1) \/ Len(words) - k <= 1
<1> DEFINE magics == MagicsIn(words, 1)
<1> DEFINE all == words \o rest
<1>1. Len(words) \in Nat /\ DOMAIN words = 1..Len(words)
    BY JoinWords
<1>2. ASSUME NEW j \in 1..Len(words), StartsAt(all, written, j), j + 1 <= Len(words)
      PROVE  j \in magics
    <2>1. IsMagicAt(words, j)
        BY <1>1, <1>2, StartIsFound
    <2>2. QED  BY <2>1 DEF MagicsIn
<1> HIDE DEF all
<1>3. CASE magics # {}
    <2>1. magics \subseteq Nat
        BY <1>1 DEF MagicsIn
    <2>2. Min(magics) \in magics /\ \A x \in magics : Min(magics) <= x
        BY <1>3, <2>1, MinIs
    <2> DEFINE m == Min(magics)
    <2>3. m \in 1..Len(words) /\ IsMagicAt(words, m)
        BY <2>2 DEF MagicsIn
    <2>35. words # <<>>
        BY <1>1, <2>3 DEF IsMagicAt
    <2>4. Aligned(words) = From(words, m)
        BY <1>3, <2>35 DEF Aligned
    <2>5. \A x \in magics : m <= x
        BY <2>2
    <2> HIDE DEF m, magics
    <2> DEFINE k == m - 1
    <2>6. k \in 0..Len(words) /\ k + 1 = m
        BY <1>1, <2>3
    <2>7. m + 1 <= Len(words) /\ words[m].kind = Magic[1] /\ words[m + 1].kind = Magic[2]
        BY <2>3 DEF IsMagicAt
    <2>8. Len(From(words, k + 1)) = Len(words) - k
          /\ \A j \in 1..(Len(words) - k) : From(words, k + 1)[j] = words[k + j]
        BY <2>6, FromIs
    <2>9. /\ 1 \in 1..(Len(words) - k) /\ 2 \in 1..(Len(words) - k)
          /\ k + 1 = m /\ k + 2 = m + 1
        BY <1>1, <2>3, <2>6, <2>7
    <2> HIDE DEF k
    <2>10. From(words, m)[1] = words[m] /\ From(words, m)[2] = words[m + 1]
           /\ Len(From(words, m)) >= 2
        <3>1. From(words, k + 1)[1] = words[k + 1] /\ From(words, k + 1)[2] = words[k + 2]
            BY <2>8, <2>9
        <3>2. Len(words) - k >= 2
            BY <1>1, <2>6, <2>9
        <3>3. QED  BY <2>6, <2>8, <2>9, <3>1, <3>2
    <2>11. IsMagicAt(From(words, m), 1)
        BY <2>7, <2>10 DEF IsMagicAt
    <2>12. ASSUME NEW j \in 1..k PROVE ~StartsAt(all, written, j)
        <3>1. j \in 1..Len(words) /\ j + 1 <= Len(words) /\ j < m
            BY <1>1, <2>3, <2>6, <2>7
        <3>2. j \in Nat /\ m \in Nat
            BY <1>1, <2>3, <3>1
        <3>3. ASSUME StartsAt(all, written, j) PROVE FALSE
            <4>1. j \in magics
                BY <1>2, <3>1, <3>3
            <4>2. m <= j
                BY <2>5, <4>1
            <4>3. QED  BY <3>1, <3>2, <4>2
        <3>4. QED  BY <3>3
    <2>13. QED  BY <2>4, <2>6, <2>11, <2>12 DEF all
<1>4. CASE magics = {} /\ words = <<>>
    <2>1. Aligned(words) = <<>>
        BY <1>4 DEF Aligned
    <2>2. Len(words) = 0 /\ 0 \in 0..Len(words)
        BY <1>4
    <2>3. From(words, 0 + 1) \in Seq(WordSet(written)) /\ Len(From(words, 0 + 1)) = Len(words) - 0
        BY <2>2, FromIs
    <2>4. From(words, 0 + 1) = <<>>
        BY <2>2, <2>3
    <2>5. \A j \in 1..0 : ~StartsAt(all, written, j)
        OBVIOUS
    <2>6. Len(words) - 0 <= 1
        BY <2>2
    <2>7. QED  BY <2>1, <2>2, <2>4, <2>5, <2>6 DEF all
<1>5. CASE magics = {} /\ words # <<>>
    <2>1. Len(words) >= 1
        BY <1>1, <1>5
    <2>2. ASSUME NEW j \in 1..(Len(words) - 1) PROVE ~StartsAt(all, written, j)
        <3>1. j \in 1..Len(words) /\ j + 1 <= Len(words)
            BY <1>1
        <3>2. QED  BY <1>2, <1>5, <3>1
    <2>3. CASE p900 \/ Last(words).kind = Magic[1]
        <3>1. Aligned(words) = From(words, Len(words))
            BY <1>5, <2>3 DEF Aligned
        <3> DEFINE k == Len(words) - 1
        <3>2. k \in 0..Len(words) /\ k + 1 = Len(words) /\ Len(words) - k <= 1
            BY <1>1, <2>1
        <3>3. QED  BY <2>2, <3>1, <3>2 DEF all
    <2>4. CASE ~(p900 \/ Last(words).kind = Magic[1])
        <3> DEFINE n == Len(words)
        <3>1. Aligned(words) = <<>>
            BY <1>5, <2>4 DEF Aligned
        <3>2. n \in 0..Len(words) /\ Len(words) - n <= 1
            BY <1>1
        <3>3. /\ From(words, n + 1) \in Seq(WordSet(written))
              /\ Len(From(words, n + 1)) = Len(words) - n
            BY <3>2, FromIs
        <3>4. From(words, n + 1) = <<>>
            BY <1>1, <3>3
        <3>5. ASSUME NEW j \in 1..n PROVE ~StartsAt(all, written, j)
            <4>1. CASE j \in 1..(Len(words) - 1)
                BY <2>2, <4>1
            <4>2. CASE j \notin 1..(Len(words) - 1)
                <5>0. j \in Nat /\ j >= 1 /\ j <= Len(words)
                    BY <1>1
                <5>02. \A a, b \in Nat : a >= 1 /\ a <= b /\ a \notin 1..(b - 1) => a = b
                    OBVIOUS
                <5>05. j = Len(words)
                    BY <1>1, <4>2, <5>0, <5>02
                <5>1. j = Len(words) /\ j \in DOMAIN words
                    BY <1>1, <5>0, <5>05
                <5>2. words[j].kind # "magic1"
                    BY <2>4, <5>1 DEF Last, Magic
                <5>3. QED  BY <5>1, <5>2, StartIsFound DEF all
            <4>3. QED  BY <4>1, <4>2
        <3>6. QED  BY <3>1, <3>2, <3>4, <3>5 DEF all
    <2>5. QED  BY <2>3, <2>4
<1>6. QED  BY <1>3, <1>4, <1>5

(* A header that claims more than has come.                                            *)
WaitingOn(words) ==
    IsMagicAt(words, 1) /\ HeaderOK(words, 1) /\ Len(words) < FrameSize(words, 1)

(* What a turn makes of the words before it: it loses no frame and invents none, what it      *)
(* returns is older than what is left, and if it waits the bridge's parser owes nothing.     *)
TurnOK(words, rest, turn) ==
    /\ turn.words \in Seq(WordSet(written)) /\ Stream(turn.words \o rest, written)
    /\ turn.goes_on \in BOOLEAN
    /\ turn.goes_on => Len(turn.words) + 1 <= Len(words)
    /\ turn.frame # 0 =>
          /\ turn.frame \in DOMAIN written
          /\ \A frame \in FramesOf(turn.words \o rest) : turn.frame < frame
    /\ Completed(words) = Completed(turn.words) \cup Range(Returned(turn.frame))
    /\ FramesOf(turn.words \o rest) \subseteq FramesOf(words \o rest)
    /\ ~turn.goes_on /\ Completed(turn.words) # {} => ~p900 /\ WaitingOn(turn.words)

(* A turn that only drops words at which no intact frame starts.                        *)
LEMMA DropTurn ==
    ASSUME WrittenOK(written), NEW words \in Seq(WordSet(written)),
           NEW rest \in Seq(WordSet(written)), Stream(words \o rest, written),
           NEW k \in 1..Len(words), \A j \in 1..k : ~StartsAt(words \o rest, written, j)
    PROVE  TurnOK(words, rest, Turn(From(words, k + 1), 0, TRUE))
<1> DEFINE kept == From(words, k + 1)
<1>1. Len(words) \in Nat /\ k \in 0..Len(words) /\ k \in Nat /\ k >= 1
    BY JoinWords
<1>2. /\ kept \in Seq(WordSet(written)) /\ Len(kept) = Len(words) - k
      /\ Stream(kept \o rest, written) /\ Completed(kept) = Completed(words)
    BY <1>1, DropWords
<1>3. FramesOf(kept \o rest) \subseteq FramesOf(words \o rest)
    BY <1>1, FramesLeft
<1> HIDE DEF kept
<1> DEFINE turn == Turn(kept, 0, TRUE)
<1>4. turn.words = kept /\ turn.frame = 0 /\ turn.goes_on = TRUE
    BY DEF Turn
<1>5. Range(Returned(0)) = {}
    BY DEF Returned, Range
<1>6. Len(kept) + 1 <= Len(words)
    BY <1>1, <1>2
<1> HIDE DEF turn
<1>7. TurnOK(words, rest, turn)
    BY <1>2, <1>3, <1>4, <1>5, <1>6 DEF TurnOK
<1>8. QED  BY <1>7 DEF turn, kept

(* A turn on the words a turn has left.                                              *)
LEMMA AlignTurn ==
    ASSUME WrittenOK(written), NEW words \in Seq(WordSet(written)),
           NEW rest \in Seq(WordSet(written)), Stream(words \o rest, written),
           NEW k \in 0..Len(words), \A j \in 1..k : ~StartsAt(words \o rest, written, j),
           NEW turn, TurnOK(From(words, k + 1), rest, turn)
    PROVE  TurnOK(words, rest, turn)
<1> DEFINE kept == From(words, k + 1)
<1>1. Len(words) \in Nat /\ k \in Nat
    BY JoinWords
<1>2. Len(kept) = Len(words) - k /\ Completed(kept) = Completed(words)
    BY DropWords
<1>3. FramesOf(kept \o rest) \subseteq FramesOf(words \o rest)
    BY FramesLeft
<1>4. turn.words \in Seq(WordSet(written)) /\ Stream(turn.words \o rest, written)
    BY DEF TurnOK
<1>5. Len(turn.words) \in Nat
    BY <1>4
<1>6. turn.goes_on => Len(turn.words) + 1 <= Len(words)
    <2>1. turn.goes_on => Len(turn.words) + 1 <= Len(kept)
        BY DEF TurnOK
    <2>2. QED  BY <1>1, <1>2, <1>5, <2>1
<1> HIDE DEF kept
<1>7. TurnOK(kept, rest, turn)
    BY DEF kept
<1>8. QED  BY <1>2, <1>3, <1>4, <1>6, <1>7 DEF TurnOK

(* One turn of the loop keeps what it must, whatever the words.                          *)
LEMMA ParseTurn ==
    ASSUME WrittenOK(written), NEW words \in Seq(WordSet(written)),
           NEW rest \in Seq(WordSet(written)), Stream(words \o rest, written),
           IsMagicAt(words, 1) \/ Len(words) <= 1
    PROVE  TurnOK(words, rest, ParseOne(words))
<1> DEFINE all == words \o rest
<1>1. /\ Len(words) \in Nat /\ DOMAIN words = 1..Len(words)
      /\ \A j \in DOMAIN words : j \in DOMAIN all /\ all[j] = words[j]
    BY JoinWords
<1>2. Range(Returned(0)) = {}
    BY DEF Returned, Range
<1>3. ASSUME Completed(words) # {} => ~p900 /\ WaitingOn(words)
      PROVE  TurnOK(words, rest, Turn(words, 0, FALSE))
    <2> DEFINE turn == Turn(words, 0, FALSE)
    <2>1. turn.words = words /\ turn.frame = 0 /\ turn.goes_on = FALSE
        BY DEF Turn
    <2> HIDE DEF turn
    <2>2. TurnOK(words, rest, turn)
        BY <1>2, <1>3, <2>1 DEF TurnOK
    <2>3. QED  BY <2>2 DEF turn
<1>4. ASSUME Len(words) >= HeaderSize, ~StartsAt(all, written, 1)
      PROVE  TurnOK(words, rest, Turn(Tail(words), 0, TRUE))
    <2>1. words # <<>> /\ 1 \in 1..Len(words)
        BY <1>1, <1>4 DEF HeaderSize
    <2>2. Tail(words) = From(words, 1 + 1)
        BY <2>1, TailIsSubSeq DEF From
    <2>3. \A j \in 1..1 : ~StartsAt(all, written, j)
        BY <1>4
    <2>4. TurnOK(words, rest, Turn(From(words, 1 + 1), 0, TRUE))
        BY <2>1, <2>3, DropTurn
    <2>5. QED  BY <2>2, <2>4
<1>5. CASE ~IsMagicAt(words, 1) \/ Len(words) < HeaderSize
    <2>1. ParseOne(words) = Turn(words, 0, FALSE)
        BY <1>5 DEF ParseOne
    <2>2. ASSUME NEW frame \in Completed(words) PROVE FALSE
        <3>1. PICK s \in DOMAIN words :
                /\ StartsAt(all, written, s) /\ words[s].frame = frame
                /\ (s - 1) + SizeOf(written, frame) <= Len(words)
            BY CompletedStarts
        <3>2. SizeOf(written, frame) \in Nat /\ SizeOf(written, frame) >= 4
            BY <3>1, StartIsFound
        <3>3. Len(words) <= 2
            BY <1>1, <1>5 DEF HeaderSize
        <3>4. QED  BY <1>1, <3>1, <3>2, <3>3
    <2>3. QED  BY <1>3, <2>1, <2>2
<1>6. CASE IsMagicAt(words, 1) /\ Len(words) >= HeaderSize
    <2> DEFINE size == FrameSize(words, 1)
    <2>1. 1 \in DOMAIN words /\ 1 + 2 <= Len(words) /\ 3 \in DOMAIN words
        BY <1>1, <1>6 DEF HeaderSize
    <2>2. size \in Nat
        <3>1. words[3] \in WordSet(written)
            BY <2>1
        <3>2. words[3].claims \in Nat
            BY <3>1 DEF WordSet
        <3>3. QED  BY <3>2 DEF FrameSize, Overhead
    <2>3. ~(Len(words) < HeaderSize)
        BY <1>1, <1>6 DEF HeaderSize
    <2>4. ASSUME StartsAt(all, written, 1)
          PROVE  HeaderOK(words, 1) /\ size = SizeOf(written, words[1].frame)
        BY <2>1, <2>4, StartIsFound
    <2>5. CASE ~HeaderOK(words, 1)
        <3>1. ParseOne(words) = Turn(Tail(words), 0, TRUE)
            BY <1>6, <2>3, <2>5 DEF ParseOne
        <3>2. QED  BY <1>4, <1>6, <2>4, <2>5, <3>1
    <2>6. CASE HeaderOK(words, 1) /\ Len(words) < size
        <3>1. ~StartsAt(all, written, 1) \/ size = SizeOf(written, words[1].frame)
            BY <2>4
        <3> DEFINE later == IF p900 THEN FindLaterValidFrame(words) ELSE 0
        <3> DEFINE found == LaterValidFrames(words)
        <3>2. ParseOne(words) = IF later = 0 THEN Turn(words, 0, FALSE)
                                             ELSE Turn(From(words, later), 0, TRUE)
            BY <1>6, <2>3, <2>6 DEF ParseOne
        <3>3. found \subseteq 2..Len(words)
            BY DEF LaterValidFrames, MagicsIn
        <3>4. found # {} => Min(found) \in found /\ \A x \in found : Min(found) <= x
            <4>1. found \subseteq Nat
                BY <3>3
            <4>2. QED  BY <4>1, MinIs
        <3>5. ASSUME NEW s \in DOMAIN words, StartsAt(all, written, s),
                     (s - 1) + SizeOf(written, words[s].frame) <= Len(words)
              PROVE  s \in found
            <4>1. /\ IsMagicAt(words, s) /\ Remaining(words, s) >= HeaderSize
                  /\ HeaderOK(words, s) /\ Remaining(words, s) >= FrameSize(words, s)
                  /\ CheckOK(words, s)
                BY <3>5, StartIsValid
            <4>2. s # 1
                <5>1. SizeOf(written, words[s].frame) \in Nat
                    BY <3>5, StartIsFound
                <5>2. QED  BY <1>1, <2>2, <2>6, <3>1, <3>5, <5>1
            <4>3. s \in 2..Len(words)
                BY <1>1, <4>2
            <4>4. QED  BY <4>1, <4>3 DEF LaterValidFrames, MagicsIn
        <3> HIDE DEF found
        <3>6. CASE later = 0
            <4>1. p900 => found = {}
                <5>1. ASSUME p900, found # {} PROVE FALSE
                    <6>1. later = Min(found)
                        BY <5>1 DEF FindLaterValidFrame, found
                    <6>2. Min(found) \in 2..Len(words)
                        BY <3>3, <3>4, <5>1
                    <6>3. QED  BY <3>6, <6>1, <6>2
                <5>2. QED  BY <5>1
            <4>2. ASSUME NEW frame \in Completed(words) PROVE ~p900
                <5>1. PICK s \in DOMAIN words :
                        /\ StartsAt(all, written, s) /\ words[s].frame = frame
                        /\ (s - 1) + SizeOf(written, frame) <= Len(words)
                    BY CompletedStarts
                <5>2. s \in found
                    BY <3>5, <5>1
                <5>3. QED  BY <4>1, <5>2
            <4>3. WaitingOn(words)
                BY <1>6, <2>6 DEF WaitingOn
            <4>4. TurnOK(words, rest, Turn(words, 0, FALSE))
                BY <1>3, <4>2, <4>3
            <4>5. QED  BY <3>2, <3>6, <4>4
        <3>7. CASE later # 0
            <4>1. p900 /\ found # {} /\ later = Min(found)
                BY <3>7 DEF FindLaterValidFrame, found
            <4>2. later \in found /\ \A x \in found : later <= x
                BY <3>4, <4>1
            <4>3. later \in 2..Len(words) /\ CheckOK(words, later)
                  /\ Remaining(words, later) >= FrameSize(words, later)
                  /\ Remaining(words, later) >= HeaderSize
                BY <3>3, <4>2 DEF found, LaterValidFrames
            <4> HIDE DEF later
            <4>4. later \in DOMAIN words /\ later \in Nat /\ words[later].place = 1
                <5>1. later \in DOMAIN words /\ later \in Nat
                    BY <1>1, <4>3
                <5>2. later + 2 \in DOMAIN words
                    BY <1>1, <4>3 DEF Remaining, HeaderSize
                <5>3. words[later + 2] \in WordSet(written)
                    BY <5>2
                <5>4. words[later + 2].claims \in Nat
                    BY <5>3 DEF WordSet
                <5>5. 0 \in 0..(FrameSize(words, later) - 1)
                    BY <5>4 DEF FrameSize, Overhead
                <5>6. words[later + 0].place = 0 + 1
                    BY <4>3, <5>5 DEF CheckOK
                <5>7. QED  BY <5>1, <5>6
            <4> DEFINE k == later - 1
            <4>5. k \in 1..Len(words) /\ k + 1 = later
                BY <1>1, <4>3
            <4>6. ASSUME NEW j \in 1..k, StartsAt(all, written, j) PROVE FALSE
                <5> DEFINE longer == SizeOf(written, words[j].frame)
                <5>1. j \in DOMAIN words /\ j \in Nat /\ j >= 1 /\ j < later
                    BY <1>1, <4>3, <4>5
                <5>2. /\ longer \in Nat /\ longer >= 4
                      /\ \A m \in 1..longer :
                            (j - 1) + m <= Len(words) => words[(j - 1) + m].place = m
                    BY <4>6, <5>1, StartIsFound
                <5> HIDE DEF longer
                <5>3. CASE (j - 1) + longer <= Len(words)
                    <6>1. j \in found
                        BY <3>5, <4>6, <5>1, <5>3 DEF longer
                    <6>2. QED  BY <4>2, <4>4, <5>1, <6>1
                <5>4. CASE ~((j - 1) + longer <= Len(words))
                    <6> DEFINE m == (later - j) + 1
                    <6>1. m \in 1..longer /\ (j - 1) + m = later /\ m # 1
                        <7>1. later \in Nat /\ later <= Len(words) /\ Len(words) \in Nat
                            BY <1>1, <4>3, <4>4
                        <7>2. j \in Nat /\ j >= 1 /\ j < later /\ longer \in Nat
                            BY <5>1, <5>2
                        <7>3. QED  BY <5>4, <7>1, <7>2
                    <6> HIDE DEF m
                    <6>2. words[later].place = m
                        <7>1. (j - 1) + m <= Len(words)
                            BY <1>1, <4>3, <6>1
                        <7>2. words[(j - 1) + m].place = m
                            BY <5>2, <6>1, <7>1
                        <7>3. QED  BY <6>1, <7>2
                    <6>3. QED  BY <4>4, <6>1, <6>2
                <5>5. QED  BY <5>3, <5>4
            <4>7. TurnOK(words, rest, Turn(From(words, k + 1), 0, TRUE))
                BY <4>5, <4>6, DropTurn
            <4>8. QED  BY <3>2, <3>7, <4>5, <4>7
        <3>8. QED  BY <3>6, <3>7
    <2>7. CASE HeaderOK(words, 1) /\ ~(Len(words) < size) /\ ~CheckOK(words, 1)
        <3>1. ParseOne(words) = Turn(Tail(words), 0, TRUE)
            BY <1>6, <2>3, <2>7 DEF ParseOne, RejectChecked
        <3>2. ~StartsAt(all, written, 1)
            <4> SUFFICES ASSUME StartsAt(all, written, 1) PROVE FALSE
                OBVIOUS
            <4>1. size = SizeOf(written, words[1].frame)
                BY <2>4
            <4>2. (1 - 1) + SizeOf(written, words[1].frame) <= Len(words)
                BY <1>1, <2>2, <2>7, <4>1
            <4>3. CheckOK(words, 1)
                BY <2>1, <4>2, StartIsValid
            <4>4. QED  BY <2>7, <4>3
        <3>3. QED  BY <1>4, <1>6, <3>1, <3>2
    <2>8. CASE HeaderOK(words, 1) /\ ~(Len(words) < size) /\ CheckOK(words, 1)
        <3> DEFINE kept == From(words, size + 1)
        <3> DEFINE f == words[1].frame
        <3>1. ParseOne(words) = Turn(kept, f, TRUE)
            BY <1>6, <2>3, <2>8 DEF ParseOne
        <3>2. size <= Len(words)
            BY <1>1, <2>2, <2>8
        <3>3. /\ f \in DOMAIN written /\ size \in 4..Len(words)
              /\ kept \in Seq(WordSet(written)) /\ Len(kept) = Len(words) - size
              /\ Stream(kept \o rest, written)
              /\ \A frame \in FramesOf(kept \o rest) : f < frame
              /\ Completed(words) = Completed(kept) \cup Range(Returned(f))
            BY <1>6, <2>8, <3>2, TakeFrame
        <3>4. FramesOf(kept \o rest) \subseteq FramesOf(words \o rest)
            <4>1. size \in 0..Len(words)
                BY <2>2, <3>2
            <4>2. QED  BY <4>1, FramesLeft
        <3>5. Len(kept) + 1 <= Len(words)
            BY <1>1, <2>2, <3>3
        <3> HIDE DEF kept, f, size
        <3> DEFINE turn == Turn(kept, f, TRUE)
        <3>6. turn.words = kept /\ turn.frame = f /\ turn.goes_on = TRUE
            BY DEF Turn
        <3> HIDE DEF turn
        <3>7. TurnOK(words, rest, turn)
            BY <3>3, <3>4, <3>5, <3>6 DEF TurnOK
        <3>8. QED  BY <3>1, <3>7 DEF turn
    <2>9. QED  BY <2>5, <2>6, <2>7, <2>8
<1>7. QED  BY <1>1, <1>5, <1>6 DEF HeaderSize

(* One turn: the buffer is aligned and parsed.                                         *)
LEMMA TurnStep ==
    ASSUME WrittenOK(written), NEW words \in Seq(WordSet(written)),
           NEW rest \in Seq(WordSet(written)), Stream(words \o rest, written)
    PROVE  TurnOK(words, rest, ParseOne(Aligned(words)))
<1>1. PICK k \in 0..Len(words) :
        /\ Aligned(words) = From(words, k + 1)
        /\ \A j \in 1..k : ~StartsAt(words \o rest, written, j)
        /\ IsMagicAt(Aligned(words), 1) \/ Len(words) - k <= 1
    BY AlignedDrops
<1>2. /\ From(words, k + 1) \in Seq(WordSet(written))
      /\ Len(From(words, k + 1)) = Len(words) - k
      /\ Stream(From(words, k + 1) \o rest, written)
    BY <1>1, DropWords
<1>3. TurnOK(From(words, k + 1), rest, ParseOne(From(words, k + 1)))
    BY <1>1, <1>2, ParseTurn
<1>4. TurnOK(words, rest, ParseOne(From(words, k + 1)))
    BY <1>1, <1>3, AlignTurn
<1>5. QED  BY <1>1, <1>4

(* Frames in the order they were written; all before those of some words, or of others.      *)
Increasing(frames) == \A i, j \in DOMAIN frames : i < j => frames[i] < frames[j]

Older(frames, words) ==
    \A i \in Range(frames) : \A frame \in FramesOf(words) : i < frame

Before(frames, later) == \A i \in Range(frames) : \A j \in Range(later) : i < j

(* A sequence of frames after one of older frames.                                    *)
LEMMA JoinFrames ==
    ASSUME NEW S, NEW older \in Seq(S), NEW later \in Seq(S),
           Increasing(older), Increasing(later),
           Before(older, later)
    PROVE  /\ older \o later \in Seq(S) /\ Increasing(older \o later)
           /\ Range(older \o later) = Range(older) \cup Range(later)
<1> DEFINE all == older \o later
<1> DEFINE m == Len(older)
<1> DEFINE n == Len(later)
<1>1. all \in Seq(S) /\ m \in Nat /\ n \in Nat /\ DOMAIN older = 1..m /\ DOMAIN later = 1..n
    BY ConcatProperties
<1>2. Len(all) = m + n /\ DOMAIN all = 1..(m + n)
    <2>1. Len(all) = m + n
        BY ConcatProperties
    <2>2. QED  BY <1>1, <2>1
<1>3. \A i \in 1..(m + n) : all[i] = IF i <= m THEN older[i] ELSE later[i - m]
    BY <1>1, <1>2, ConcatProperties
<1> HIDE DEF all, m, n
<1>4. ASSUME NEW i \in DOMAIN all
      PROVE  \/ i \in DOMAIN older /\ all[i] = older[i] /\ i <= m
             \/ i > m /\ i - m \in DOMAIN later /\ all[i] = later[i - m]
    <2>1. i \in 1..(m + n)
        BY <1>2
    <2>2. CASE i <= m
        <3>1. i \in 1..m
            BY <1>1, <2>1, <2>2
        <3>2. QED  BY <1>1, <1>3, <2>1, <2>2, <3>1
    <2>3. CASE ~(i <= m)
        <3>1. i - m \in 1..n /\ i > m
            BY <1>1, <2>1, <2>3
        <3>2. all[i] = later[i - m]
            BY <1>3, <2>1, <2>3
        <3>3. QED  BY <1>1, <3>1, <3>2
    <2>4. QED  BY <2>2, <2>3
<1>5. ASSUME NEW i \in DOMAIN all, NEW j \in DOMAIN all, i < j PROVE all[i] < all[j]
    <2>1. i \in Nat /\ j \in Nat
        BY <1>1, <1>2
    <2>2. CASE i \in DOMAIN older /\ all[i] = older[i] /\ i <= m
        <3>1. CASE j \in DOMAIN older /\ all[j] = older[j] /\ j <= m
            BY <1>5, <2>2, <3>1 DEF Increasing
        <3>2. CASE j > m /\ j - m \in DOMAIN later /\ all[j] = later[j - m]
            BY <2>2, <3>2 DEF Before, Range
        <3>3. QED  BY <1>4, <3>1, <3>2
    <2>3. CASE i > m /\ i - m \in DOMAIN later /\ all[i] = later[i - m]
        <3>1. j - m \in DOMAIN later /\ all[j] = later[j - m]
            <4>1. ~(j <= m)
                BY <1>1, <1>5, <2>1, <2>3
            <4>2. QED  BY <1>4, <4>1
        <3>2. i - m < j - m
            BY <1>1, <1>5, <2>1
        <3>3. QED  BY <2>3, <3>1, <3>2 DEF Increasing
    <2>4. QED  BY <1>4, <2>2, <2>3
<1>6. Increasing(all)
    BY <1>5 DEF Increasing
<1>7. ASSUME NEW i \in DOMAIN older PROVE i \in DOMAIN all /\ all[i] = older[i]
    <2>1. i \in 1..(m + n) /\ i <= m
        BY <1>1
    <2>2. QED  BY <1>2, <1>3, <2>1
<1>8. ASSUME NEW i \in DOMAIN later PROVE m + i \in DOMAIN all /\ all[m + i] = later[i]
    <2>1. m + i \in 1..(m + n) /\ ~(m + i <= m) /\ (m + i) - m = i
        BY <1>1
    <2>2. QED  BY <1>2, <1>3, <2>1
<1>9. Range(all) = Range(older) \cup Range(later)
    <2>1. Range(all) \subseteq Range(older) \cup Range(later)
        BY <1>4 DEF Range
    <2>2. Range(older) \subseteq Range(all)
        BY <1>7 DEF Range
    <2>3. Range(later) \subseteq Range(all)
        BY <1>8 DEF Range
    <2>4. QED  BY <2>1, <2>2, <2>3
<1>10. QED  BY <1>1, <1>6, <1>9 DEF all

(* A frame completed by the words is one of theirs.                                     *)
LEMMA CompletedFrames ==
    ASSUME WrittenOK(written), NEW words \in Seq(WordSet(written)),
           NEW rest \in Seq(WordSet(written))
    PROVE  Completed(words) \subseteq FramesOf(words \o rest)
<1>1. \A j \in DOMAIN words : j \in DOMAIN (words \o rest) /\ (words \o rest)[j] = words[j]
    BY JoinWords
<1>2. ASSUME NEW frame \in Completed(words) PROVE frame \in FramesOf(words \o rest)
    <2>1. /\ frame \in DOMAIN written
          /\ \E i \in DOMAIN words : words[i].frame = frame
        BY DEF Completed
    <2>2. frame # 0
        BY <2>1 DEF WrittenOK
    <2>3. QED  BY <1>1, <2>1, <2>2 DEF FramesOf
<1>3. QED  BY <1>2

(* What n turns make of the words fed.                                                *)
RunOK(words, rest, state, n) ==
    /\ state.words \in Seq(WordSet(written)) /\ Stream(state.words \o rest, written)
    /\ state.frames \in Seq(DOMAIN written) /\ Increasing(state.frames)
    /\ Older(state.frames, state.words \o rest)
    /\ Completed(words) = Completed(state.words) \cup Range(state.frames)
    /\ FramesOf(state.words \o rest) \subseteq FramesOf(words \o rest)
    /\ state.goes_on \in BOOLEAN
    /\ state.goes_on => Len(state.words) + n <= Len(words)
    /\ ~state.goes_on /\ Completed(state.words) # {} => ~p900 /\ WaitingOn(state.words)

(* A turn more.                                                                   *)
LEMMA RunStep ==
    ASSUME WrittenOK(written), NEW words \in Seq(WordSet(written)),
           NEW rest \in Seq(WordSet(written)), NEW n \in Nat,
           NEW state, RunOK(words, rest, state, n)
    PROVE  RunOK(words, rest, TakeTurn(state), n + 1)
<1> DEFINE turn == ParseOne(Aligned(state.words))
<1> DEFINE after == TakeTurn(state)
<1>1. CASE ~state.goes_on
    <2>1. TakeTurn(state) = state
        BY <1>1 DEF TakeTurn
    <2>2. QED  BY <1>1, <2>1 DEF RunOK
<1>2. CASE state.goes_on
    <2>1. /\ state.words \in Seq(WordSet(written)) /\ Stream(state.words \o rest, written)
          /\ state.frames \in Seq(DOMAIN written) /\ Increasing(state.frames)
          /\ Older(state.frames, state.words \o rest)
          /\ Completed(words) = Completed(state.words) \cup Range(state.frames)
          /\ FramesOf(state.words \o rest) \subseteq FramesOf(words \o rest)
          /\ Len(state.words) + n <= Len(words)
        BY <1>2 DEF RunOK
    <2>2. TurnOK(state.words, rest, turn)
        BY <2>1, TurnStep
    <2> DEFINE next == [words |-> turn.words, goes_on |-> turn.goes_on,
                        frames |-> state.frames \o Returned(turn.frame)]
    <2>3. after = next
        BY <1>2 DEF TakeTurn
    <2> HIDE DEF turn, after
    <2>4. after.words = turn.words /\ after.goes_on = turn.goes_on
          /\ after.frames = state.frames \o Returned(turn.frame)
        BY <2>3
    <2> HIDE DEF next
    <2>5. /\ turn.words \in Seq(WordSet(written)) /\ Stream(turn.words \o rest, written)
          /\ turn.goes_on \in BOOLEAN
          /\ turn.goes_on => Len(turn.words) + 1 <= Len(state.words)
          /\ turn.frame # 0 =>
                /\ turn.frame \in DOMAIN written
                /\ \A frame \in FramesOf(turn.words \o rest) : turn.frame < frame
          /\ Completed(state.words) = Completed(turn.words) \cup Range(Returned(turn.frame))
          /\ FramesOf(turn.words \o rest) \subseteq FramesOf(state.words \o rest)
          /\ ~turn.goes_on /\ Completed(turn.words) # {} => ~p900 /\ WaitingOn(turn.words)
        BY <2>2 DEF TurnOK
    <2> DEFINE got == Returned(turn.frame)
    <2>6. \/ got = <<>>
          \/ turn.frame # 0 /\ got = <<turn.frame>>
        BY DEF Returned
    <2>7. got \in Seq(DOMAIN written) /\ DOMAIN written \subseteq Nat /\ Increasing(got)
          /\ \A j \in DOMAIN got : turn.frame # 0 /\ got[j] = turn.frame
        <3>1. DOMAIN written \subseteq Nat
            BY DEF WrittenOK
        <3>2. CASE got = <<>>
            BY <3>1, <3>2 DEF Increasing
        <3>3. CASE turn.frame # 0 /\ got = <<turn.frame>>
            <4>1. turn.frame \in DOMAIN written /\ DOMAIN got = {1} /\ got[1] = turn.frame
                BY <2>5, <3>3
            <4>2. got \in Seq(DOMAIN written)
                BY <3>3, <4>1
            <4>3. Increasing(got)
                BY <4>1 DEF Increasing
            <4>4. QED  BY <3>1, <3>3, <4>1, <4>2, <4>3
        <3>4. QED  BY <2>6, <3>2, <3>3
    <2>8. Range(got) \subseteq FramesOf(state.words \o rest)
        BY <2>1, <2>5, CompletedFrames
    <2> HIDE DEF got
    <2> DEFINE frames == state.frames
    <2>9. Before(frames, got)
        BY <2>1, <2>8 DEF Before, Older
    <2>10. frames \in Seq(DOMAIN written) /\ Increasing(frames)
        BY <2>1
    <2> HIDE DEF frames
    <2>11. /\ frames \o got \in Seq(DOMAIN written) /\ Increasing(frames \o got)
           /\ Range(frames \o got) = Range(frames) \cup Range(got)
        <3> DEFINE S == DOMAIN written
        <3>1. /\ frames \in Seq(S) /\ got \in Seq(S)
              /\ Increasing(frames) /\ Increasing(got)
            BY <2>7, <2>10
        <3> HIDE DEF S
        <3>2. /\ frames \o got \in Seq(S) /\ Increasing(frames \o got)
              /\ Range(frames \o got) = Range(frames) \cup Range(got)
            BY <2>9, <3>1, JoinFrames
        <3>3. QED  BY <3>2 DEF S
    <2>12. Older(frames \o got, turn.words \o rest)
        <3> SUFFICES ASSUME NEW i \in Range(frames \o got),
                            NEW frame \in FramesOf(turn.words \o rest)
                     PROVE  i < frame
            BY DEF Older
        <3>1. CASE i \in Range(frames)
            BY <2>1, <2>5, <3>1 DEF Older, frames
        <3>2. CASE i \in Range(got)
            BY <2>5, <2>7, <3>2 DEF Range
        <3>3. QED  BY <2>11, <3>1, <3>2
    <2>13. Completed(words) = Completed(turn.words) \cup Range(frames \o got)
        BY <2>1, <2>5, <2>11 DEF frames, got
    <2>14. FramesOf(turn.words \o rest) \subseteq FramesOf(words \o rest)
        BY <2>1, <2>5
    <2>15. turn.goes_on => Len(turn.words) + (n + 1) <= Len(words)
        <3>1. Len(turn.words) \in Nat /\ Len(state.words) \in Nat /\ Len(words) \in Nat
            BY <2>1, <2>5
        <3>2. ASSUME turn.goes_on PROVE Len(turn.words) + (n + 1) <= Len(words)
            <4>1. Len(turn.words) + 1 <= Len(state.words)
                BY <2>5, <3>2
            <4>2. Len(state.words) + n <= Len(words)
                BY <2>1
            <4>3. \A a, b, c, m \in Nat : a + 1 <= b /\ b + m <= c => a + (m + 1) <= c
                OBVIOUS
            <4>4. QED  BY <3>1, <4>1, <4>2, <4>3
        <3>3. QED  BY <3>2
    <2>16. after.frames = frames \o got
        BY <2>4 DEF frames, got
    <2>17. RunOK(words, rest, after, n + 1)
        BY <2>4, <2>5, <2>11, <2>12, <2>13, <2>14, <2>15, <2>16 DEF RunOK
    <2>18. QED  BY <2>17 DEF after
<1>3. state.goes_on \in BOOLEAN
    BY DEF RunOK
<1>4. QED  BY <1>1, <1>2, <1>3

(* The greatest member of a bounded set, which FoldLeft takes away first.                    *)
LEMMA MaxIs ==
    ASSUME NEW N \in Nat, NEW T, T \subseteq 1..N, T # {}
    PROVE  Max(T) \in T
<1> DEFINE below == {N - x : x \in T}
<1>0. \A x \in T : N - x \in Nat
    OBVIOUS
<1>1. below \subseteq Nat /\ below # {}
    BY <1>0
<1>2. PICK d \in below : \A e \in below : d <= e
    BY <1>1, LeastMember
<1>3. PICK x \in T : d = N - x
    BY <1>2
<1>4. \A y \in T : N - x <= N - y
    BY <1>2, <1>3
<1>5. \A y \in T : x >= y
    BY <1>4
<1>6. QED  BY <1>5 DEF Max

(* The turns of a feed, by the set of those taken: what FoldLeft counts down.                 *)
FirstState(words) == [words |-> words, goes_on |-> TRUE, frames |-> <<>>]

IsRun(run, words, S) ==
    run = [s \in SUBSET S |-> IF s = {} THEN FirstState(words)
                                        ELSE TakeTurn(run[s \ {Max(s)}])]

(* A turn taken away leaves one less.                                                 *)
LEMMA TakeOne ==
    ASSUME NEW N \in Nat, NEW s \in SUBSET (1..N), s # {}
    PROVE  /\ s \ {Max(s)} \in SUBSET (1..N) /\ IsFiniteSet(s)
           /\ Cardinality(s) \in Nat /\ Cardinality(s) # 0
           /\ Cardinality(s \ {Max(s)}) = Cardinality(s) - 1
<1>1. Max(s) \in s
    BY MaxIs
<1>2. IsFiniteSet(1..N)
    BY FS_Interval
<1>3. IsFiniteSet(s)
    BY <1>2, FS_Subset
<1>4. QED  BY <1>1, <1>3, FS_RemoveElement, FS_EmptySet, FS_CardinalityType

(* There is such a function, built up by the number of turns.                             *)
LEMMA RunExists ==
    ASSUME NEW words, NEW N \in Nat
    PROVE  \E run : IsRun(run, words, 1..N)
<1> DEFINE S == 1..N
<1> DEFINE Next(run, s) ==
        IF s = {} THEN FirstState(words) ELSE TakeTurn(run[s \ {Max(s)}])
<1> DEFINE Upto(run, n) == \A s \in SUBSET S : Cardinality(s) <= n => run[s] = Next(run, s)
<1> DEFINE Possible(n) == \E any : Upto(any, n)
<1> DEFINE Good == {n \in Nat : Possible(n)}
<1>0. IsFiniteSet(S) /\ Cardinality(S) = N
    BY FS_Interval
<1>1. \A s \in SUBSET S : IsFiniteSet(s) /\ Cardinality(s) \in Nat /\ Cardinality(s) <= N
    BY <1>0, FS_Subset, FS_CardinalityType
<1>2. 0 \in Good
    <2> DEFINE run == [s \in SUBSET S |-> FirstState(words)]
    <2>1. \A s \in SUBSET S : Cardinality(s) <= 0 => s = {}
        BY <1>1, FS_EmptySet
    <2>2. Upto(run, 0)
        BY <2>1
    <2>3. QED  BY <2>2
<1>3. ASSUME NEW n \in Nat, n \in Good PROVE n + 1 \in Good
    <2>0. Possible(n)
        <3> HIDE DEF Possible
        <3> QED  BY <1>3
    <2>1. PICK run : Upto(run, n)
        BY <2>0
    <2> DEFINE more == [s \in SUBSET S |-> IF Cardinality(s) <= n THEN run[s] ELSE Next(run, s)]
    <2>2. \A s \in SUBSET S : more[s] = Next(run, s)
        BY <2>1
    <2>3. ASSUME NEW s \in SUBSET S, Cardinality(s) <= n + 1
          PROVE  more[s] = Next(more, s)
        <3>1. CASE s = {}
            BY <2>2, <3>1
        <3>2. CASE s # {}
            <4>1. s \ {Max(s)} \in SUBSET S /\ Cardinality(s \ {Max(s)}) <= n
                BY <1>1, <2>3, <3>2, TakeOne
            <4>2. more[s \ {Max(s)}] = run[s \ {Max(s)}]
                BY <4>1
            <4>3. QED  BY <2>2, <3>2, <4>2
        <3>3. QED  BY <3>1, <3>2
    <2> HIDE DEF more
    <2>4. Upto(more, n + 1)
        BY <2>3
    <2>5. Possible(n + 1)
        <3> HIDE DEF Upto
        <3> QED  BY <2>4
    <2> HIDE DEF Possible
    <2>6. QED  BY <2>5
<1>4. N \in Good
    <2> HIDE DEF Good
    <2>1. Nat \subseteq Good
        BY <1>2, <1>3, SetInduction
    <2>2. QED  BY <2>1
<1>5. PICK run : Upto(run, N)
    BY <1>4
<1> DEFINE all == [s \in SUBSET S |-> run[s]]
<1>6. \A s \in SUBSET S : all[s] = Next(all, s)
    <2>1. \A s \in SUBSET S : s # {} => s \ {Max(s)} \in SUBSET S
        OBVIOUS
    <2>2. QED  BY <1>1, <1>5, <2>1
<1>7. IsRun(all, words, S)
    <2>1. all = [s \in SUBSET S |-> Next(all, s)]
        BY <1>6
    <2>2. QED  BY <2>1 DEF IsRun
<1>8. QED  BY <1>7

(* And feed is its value at all the turns.                                             *)
LEMMA FeedIsRun ==
    ASSUME NEW words, Len(words) \in Nat
    PROVE  \E run : /\ IsRun(run, words, 1..(Len(words) + 1))
                    /\ Feed(words) = run[1..(Len(words) + 1)]
<1> DEFINE S == 1..(Len(words) + 1)
<1> DEFINE run == CHOOSE any : IsRun(any, words, S)
<1>1. IsRun(run, words, S)
    BY RunExists
<1>2. Feed(words) = run[S]
    BY DEF Feed, FoldLeft, MapThenFoldSet, IsRun, FirstState
<1>3. QED  BY <1>1, <1>2

(* Feeding a stream: every frame completed is returned, in order, or the words left owe it      *)
(* and wait, which the bridge's parser never does.                                     *)
LEMMA FeedReturns ==
    ASSUME WrittenOK(written), NEW words \in Seq(WordSet(written)),
           NEW rest \in Seq(WordSet(written)), Stream(words \o rest, written)
    PROVE  /\ RunOK(words, rest, Feed(words), Len(words) + 1)
           /\ ~Feed(words).goes_on
<1> DEFINE N == Len(words) + 1
<1>1. Len(words) \in Nat /\ N \in Nat
    BY JoinWords
<1>2. PICK run : IsRun(run, words, 1..N) /\ Feed(words) = run[1..N]
    BY <1>1, FeedIsRun
<1> DEFINE Good ==
        {n \in Nat : \A s \in SUBSET (1..N) :
                        Cardinality(s) = n => RunOK(words, rest, run[s], n)}
<1>3. 0 \in Good
    <2>1. ASSUME NEW s \in SUBSET (1..N), Cardinality(s) = 0 PROVE s = {}
        BY <1>1, <2>1, TakeOne
    <2> DEFINE first == FirstState(words)
    <2>2. run[{}] = first
        BY <1>2 DEF IsRun
    <2>3. first.words = words /\ first.goes_on = TRUE /\ first.frames = <<>>
        BY DEF FirstState
    <2>4. << >> \in Seq(DOMAIN written) /\ Increasing(<< >>) /\ Range(<< >>) = {}
        BY DEF Increasing, Range
    <2> HIDE DEF first
    <2>45. /\ first.goes_on \in BOOLEAN /\ Len(words) + 0 <= Len(words)
           /\ Older(first.frames, words \o rest)
           /\ Completed(words) = Completed(words) \cup Range(first.frames)
        <3>1. \A n \in Nat : n + 0 <= n
            OBVIOUS
        <3>2. Len(words) + 0 <= Len(words)
            BY <1>1, <3>1
        <3>3. Range(first.frames) = {}
            BY <2>3, <2>4
        <3>4. QED  BY <2>3, <3>2, <3>3 DEF Older
    <2>5. RunOK(words, rest, first, 0)
        BY <2>3, <2>4, <2>45 DEF RunOK
    <2>6. QED  BY <2>1, <2>2, <2>5
<1>4. ASSUME NEW n \in Nat, n \in Good PROVE n + 1 \in Good
    <2>1. ASSUME NEW s \in SUBSET (1..N), Cardinality(s) = n + 1
          PROVE  RunOK(words, rest, run[s], n + 1)
        <3>1. s # {}
            <4>1. n + 1 # 0
                OBVIOUS
            <4>2. QED  BY <2>1, <4>1, FS_EmptySet
        <3> DEFINE less == s \ {Max(s)}
        <3>2. less \in SUBSET (1..N) /\ Cardinality(less) = n
            <4>1. /\ less \in SUBSET (1..N) /\ Cardinality(s) \in Nat
                  /\ Cardinality(less) = Cardinality(s) - 1
                BY <1>1, <3>1, TakeOne
            <4>2. QED  BY <2>1, <4>1
        <3>3. run[s] = TakeTurn(run[less])
            BY <1>2, <3>1 DEF IsRun
        <3>4. RunOK(words, rest, run[less], n)
            BY <1>4, <3>2
        <3>5. RunOK(words, rest, TakeTurn(run[less]), n + 1)
            BY <3>4, RunStep
        <3>6. QED  BY <3>3, <3>5
    <2>2. n + 1 \in Nat
        OBVIOUS
    <2>3. QED  BY <2>1, <2>2
<1>5. RunOK(words, rest, Feed(words), N)
    <2> HIDE DEF Good
    <2>1. N \in Good
        BY <1>1, <1>3, <1>4, SetInduction
    <2>2. Cardinality(1..N) = N
        BY <1>1, FS_Interval
    <2> HIDE DEF N
    <2>3. QED  BY <1>2, <2>1, <2>2 DEF Good
<1>6. ASSUME Feed(words).goes_on PROVE FALSE
    <2> HIDE DEF N
    <2>1. /\ Feed(words).words \in Seq(WordSet(written))
          /\ Len(Feed(words).words) + N <= Len(words)
        BY <1>5, <1>6 DEF RunOK
    <2>2. Len(Feed(words).words) \in Nat
        BY <2>1
    <2>3. \A a, b \in Nat : ~(a + (b + 1) <= b)
        OBVIOUS
    <2>4. QED  BY <1>1, <2>1, <2>2, <2>3 DEF N
<1>7. QED  BY <1>5, <1>6

(* All frames of some words come before those of others.                                 *)
Apart(words, later) == \A f \in FramesOf(words) : \A g \in FramesOf(later) : f < g

(* Two streams, the frames of the second being later, are one.                             *)
LEMMA StreamJoin ==
    ASSUME NEW sent, WrittenOK(sent), NEW words, NEW later, Stream(words, sent),
           Stream(later, sent), Apart(words, later)
    PROVE  /\ Stream(words \o later, sent)
           /\ FramesOf(words \o later) = FramesOf(words) \cup FramesOf(later)
<1> DEFINE all == words \o later
<1> DEFINE n == Len(words)
<1>1. words \in Seq(WordSet(sent)) /\ later \in Seq(WordSet(sent))
    BY DEF Stream
<1>2. /\ all \in Seq(WordSet(sent)) /\ n \in Nat /\ Len(later) \in Nat
      /\ DOMAIN words = 1..n /\ DOMAIN later = 1..Len(later)
      /\ DOMAIN all = 1..(n + Len(later))
    BY <1>1, JoinWords
<1>3. \A j \in 1..(n + Len(later)) : all[j] = IF j <= n THEN words[j] ELSE later[j - n]
    BY <1>1, <1>2, ConcatProperties
<1> HIDE DEF all, n
<1>4. ASSUME NEW j \in DOMAIN words PROVE j \in DOMAIN all /\ all[j] = words[j] /\ j <= n
    <2>1. j \in 1..(n + Len(later)) /\ j <= n
        BY <1>2
    <2>2. QED  BY <1>2, <1>3, <2>1
<1>5. ASSUME NEW j \in DOMAIN later PROVE n + j \in DOMAIN all /\ all[n + j] = later[j]
    <2>1. n + j \in 1..(n + Len(later)) /\ ~(n + j <= n) /\ (n + j) - n = j
        BY <1>2
    <2>2. QED  BY <1>2, <1>3, <2>1
<1>6. ASSUME NEW j \in DOMAIN all
      PROVE  \/ j \in DOMAIN words /\ all[j] = words[j] /\ j <= n
             \/ j > n /\ j - n \in DOMAIN later /\ all[j] = later[j - n] /\ n + (j - n) = j
    <2>1. j \in 1..(n + Len(later))
        BY <1>2
    <2>2. CASE j <= n
        <3>1. j \in 1..n
            BY <1>2, <2>1, <2>2
        <3>2. QED  BY <1>2, <1>3, <2>1, <2>2, <3>1
    <2>3. CASE ~(j <= n)
        <3>1. j - n \in 1..Len(later) /\ j > n /\ n + (j - n) = j
            BY <1>2, <2>1, <2>3
        <3>2. all[j] = later[j - n]
            BY <1>3, <2>1, <2>3
        <3>3. QED  BY <1>2, <3>1, <3>2
    <2>4. QED  BY <2>2, <2>3
<1>7. AsSent(all, sent)
    <2> SUFFICES ASSUME NEW j \in DOMAIN all, all[j].frame # 0
                 PROVE  /\ all[j].place \in 1..SizeOf(sent, all[j].frame)
                        /\ all[j] = Words(all[j].frame, sent[all[j].frame].length)[all[j].place]
        BY DEF AsSent
    <2>1. CASE j \in DOMAIN words /\ all[j] = words[j]
        BY <2>1 DEF Stream, AsSent
    <2>2. CASE j - n \in DOMAIN later /\ all[j] = later[j - n]
        BY <2>2 DEF Stream, AsSent
    <2>3. QED  BY <1>6, <2>1, <2>2
<1>8. Ordered(all)
    <2> SUFFICES ASSUME NEW i \in DOMAIN all, NEW j \in DOMAIN all, i < j,
                        all[i].frame # 0, all[j].frame # 0
                 PROVE  \/ all[i].frame < all[j].frame
                        \/ all[i].frame = all[j].frame /\ all[i].place < all[j].place
        BY DEF Ordered
    <2>0. i \in Nat /\ j \in Nat
        BY <1>2
    <2>1. CASE i \in DOMAIN words /\ all[i] = words[i] /\ i <= n
        <3>1. CASE j \in DOMAIN words /\ all[j] = words[j]
            BY <2>1, <3>1 DEF Stream, Ordered
        <3>2. CASE j - n \in DOMAIN later /\ all[j] = later[j - n]
            <4>1. all[i].frame \in FramesOf(words) /\ all[j].frame \in FramesOf(later)
                BY <2>1, <3>2 DEF FramesOf
            <4>2. QED  BY <4>1 DEF Apart
        <3>3. QED  BY <1>6, <3>1, <3>2
    <2>2. CASE i > n /\ i - n \in DOMAIN later /\ all[i] = later[i - n]
        <3>1. j - n \in DOMAIN later /\ all[j] = later[j - n]
            <4>1. ~(j <= n)
                BY <1>2, <2>0, <2>2
            <4>2. QED  BY <1>6, <4>1
        <3>2. i - n < j - n
            BY <1>2, <2>0
        <3>3. QED  BY <2>2, <3>1, <3>2 DEF Stream, Ordered
    <2>3. QED  BY <1>6, <2>1, <2>2
<1>9. ASSUME NEW j \in DOMAIN all, IntactAt(all, sent, j)
      PROVE  /\ all[j].place <= j
             /\ CopyAfter(all, j - all[j].place, all[j].frame, SizeOf(sent, all[j].frame))
    <2> DEFINE w == all[j]
    <2> DEFINE size == SizeOf(sent, w.frame)
    <2>0. j \in Nat
        BY <1>2
    <2>1. CASE j \in DOMAIN words /\ all[j] = words[j]
        <3>1. IntactAt(words, sent, j)
            BY <1>9, <2>1 DEF IntactAt
        <3>2. /\ words[j].place <= j
              /\ CopyAfter(words, j - words[j].place, words[j].frame,
                           SizeOf(sent, words[j].frame))
            BY <2>1, <3>1 DEF Stream, Whole
        <3>3. w.place <= j /\ CopyAfter(words, j - w.place, w.frame, size)
            BY <2>1, <3>2
        <3> HIDE DEF w, size
        <3>4. CopyAfter(all, j - w.place, w.frame, size)
            BY <1>4, <3>3 DEF CopyAfter
        <3>5. QED  BY <3>3, <3>4 DEF w, size
    <2>2. CASE j > n /\ j - n \in DOMAIN later /\ all[j] = later[j - n] /\ n + (j - n) = j
        <3> DEFINE i == j - n
        <3>1. IntactAt(later, sent, i) /\ i \in DOMAIN later /\ all[j] = later[i]
            BY <1>9, <2>2 DEF IntactAt
        <3>2. /\ later[i].place <= i
              /\ CopyAfter(later, i - later[i].place, later[i].frame,
                           SizeOf(sent, later[i].frame))
            BY <3>1 DEF Stream, Whole
        <3>3. w.place <= i /\ CopyAfter(later, i - w.place, w.frame, size)
            BY <3>1, <3>2
        <3>4. w.place \in Nat
            <4>1. w \in WordSet(sent)
                BY <1>2
            <4>2. QED  BY <4>1 DEF WordSet
        <3>5. i \in Nat /\ n + i = j
            BY <1>2, <2>0, <2>2
        <3> HIDE DEF w, size, i
        <3> DEFINE at == i - w.place
        <3>6. at \in Nat /\ j - w.place = n + at /\ w.place <= j
            <4> DEFINE p == w.place
            <4>1. p \in Nat /\ i \in Nat /\ n \in Nat /\ n + i = j /\ p <= i
                BY <1>2, <3>3, <3>4, <3>5
            <4> HIDE DEF p
            <4>2. i - p \in Nat /\ j - p = n + (i - p) /\ p <= j
                BY <4>1
            <4>3. QED  BY <4>2 DEF p
        <3>7. CopyAfter(later, at, w.frame, size)
            BY <3>3
        <3> HIDE DEF at
        <3>8. ASSUME NEW m \in 1..size
              PROVE  /\ (n + at) + m \in DOMAIN all /\ all[(n + at) + m].frame = w.frame
                     /\ all[(n + at) + m].place = m
            <4>1. /\ at + m \in DOMAIN later /\ later[at + m].frame = w.frame
                  /\ later[at + m].place = m
                BY <3>7 DEF CopyAfter
            <4>2. m \in Int
                OBVIOUS
            <4>3. n + (at + m) = (n + at) + m
                BY <1>2, <3>6, <4>2
            <4>4. n + (at + m) \in DOMAIN all /\ all[n + (at + m)] = later[at + m]
                BY <1>5, <4>1
            <4>5. QED  BY <4>1, <4>3, <4>4
        <3>9. CopyAfter(all, n + at, w.frame, size)
            BY <3>8 DEF CopyAfter
        <3>10. w.place <= j /\ CopyAfter(all, j - w.place, w.frame, size)
            BY <3>6, <3>9
        <3>11. QED  BY <3>10 DEF w, size
    <2>3. QED  BY <1>6, <2>1, <2>2
<1>10. Whole(all, sent)
    BY <1>9 DEF Whole
<1>11. Broken(all, sent)
    <2> SUFFICES ASSUME NEW frame \in DOMAIN sent, ~sent[frame].intact
                 PROVE  \E k \in 1..SizeOf(sent, frame) :
                           \A j \in DOMAIN all : ~(all[j].frame = frame /\ all[j].place = k)
        BY DEF Broken
    <2>1. frame \in Nat /\ frame # 0
        BY DEF WrittenOK
    <2>2. CASE frame \in FramesOf(words)
        <3>1. PICK k \in 1..SizeOf(sent, frame) :
                \A j \in DOMAIN words : ~(words[j].frame = frame /\ words[j].place = k)
            BY DEF Stream, Broken
        <3>2. frame \notin FramesOf(later)
            BY <2>1, <2>2 DEF Apart
        <3>3. \A j \in DOMAIN later : later[j].frame # frame
            BY <2>1, <3>2 DEF FramesOf
        <3>4. \A j \in DOMAIN all : ~(all[j].frame = frame /\ all[j].place = k)
            BY <1>6, <3>1, <3>3
        <3>5. QED  BY <3>4
    <2>3. CASE frame \notin FramesOf(words)
        <3>1. PICK k \in 1..SizeOf(sent, frame) :
                \A j \in DOMAIN later : ~(later[j].frame = frame /\ later[j].place = k)
            BY DEF Stream, Broken
        <3>2. \A j \in DOMAIN words : words[j].frame # frame
            BY <2>1, <2>3 DEF FramesOf
        <3>3. \A j \in DOMAIN all : ~(all[j].frame = frame /\ all[j].place = k)
            BY <1>6, <3>1, <3>2
        <3>4. QED  BY <3>3
    <2>4. QED  BY <2>2, <2>3
<1>12. FramesOf(all) = FramesOf(words) \cup FramesOf(later)
    <2>1. FramesOf(all) \subseteq FramesOf(words) \cup FramesOf(later)
        BY <1>6 DEF FramesOf
    <2>2. FramesOf(words) \subseteq FramesOf(all)
        BY <1>4 DEF FramesOf
    <2>3. FramesOf(later) \subseteq FramesOf(all)
        BY <1>5 DEF FramesOf
    <2>4. QED  BY <2>1, <2>2, <2>3
<1>13. QED  BY <1>2, <1>7, <1>8, <1>10, <1>11, <1>12 DEF Stream, all

(* What is remembered of a frame written.                                            *)
Records == [length : Payloads, known : BOOLEAN, intact : BOOLEAN]

(* One more frame written: those before are what they were.                             *)
LEMMA OneMore ==
    ASSUME NEW sent, WrittenOK(sent), NEW record \in Records
    PROVE  /\ WrittenOK(Append(sent, record)) /\ Len(sent) \in Nat
           /\ Len(Append(sent, record)) = Len(sent) + 1
           /\ DOMAIN sent = 1..Len(sent) /\ DOMAIN Append(sent, record) = 1..(Len(sent) + 1)
           /\ \A f \in DOMAIN sent : Append(sent, record)[f] = sent[f]
           /\ Append(sent, record)[Len(sent) + 1] = record
<1>1. sent \in Seq(Records)
    BY DEF WrittenOK, Records
<1> HIDE DEF Records
<1>2. /\ Append(sent, record) \in Seq(Records) /\ Len(sent) \in Nat
      /\ Len(Append(sent, record)) = Len(sent) + 1 /\ DOMAIN sent = 1..Len(sent)
      /\ \A f \in 1..Len(sent) : Append(sent, record)[f] = sent[f]
      /\ Append(sent, record)[Len(sent) + 1] = record
    BY <1>1, AppendProperties
<1>3. DOMAIN Append(sent, record) = 1..(Len(sent) + 1)
    BY <1>2
<1>4. WrittenOK(Append(sent, record))
    BY <1>2 DEF WrittenOK, Records
<1>5. QED  BY <1>2, <1>3, <1>4

(* A stream of the frames before is one of them all.                                     *)
LEMMA StreamGrows ==
    ASSUME NEW sent, WrittenOK(sent), NEW record \in Records, NEW words, Stream(words, sent)
    PROVE  Stream(words, Append(sent, record))
<1> DEFINE more == Append(sent, record)
<1>1. /\ WrittenOK(more) /\ Len(sent) \in Nat /\ Len(more) = Len(sent) + 1
      /\ DOMAIN sent = 1..Len(sent) /\ DOMAIN more = 1..(Len(sent) + 1)
      /\ \A f \in DOMAIN sent : more[f] = sent[f]
    BY OneMore
<1> HIDE DEF more
<1>2. words \in Seq(WordSet(sent)) /\ DOMAIN words = 1..Len(words)
    BY DEF Stream
<1>3. ASSUME NEW j \in DOMAIN words
      PROVE  words[j] \in WordSet(more) /\ words[j].frame \in 0..Len(sent)
    <2>1. words[j] \in WordSet(sent)
        BY <1>2
    <2>2. 0..Len(sent) \subseteq 0..Len(more)
        BY <1>1
    <2>3. QED  BY <2>1, <2>2 DEF WordSet
<1>4. words \in Seq(WordSet(more))
    <2>1. Len(words) \in Nat
        BY <1>2
    <2>2. words = [j \in 1..Len(words) |-> words[j]]
        BY <1>2
    <2>3. \A j \in 1..Len(words) : words[j] \in WordSet(more)
        BY <1>2, <1>3
    <2>4. QED  BY <1>2, <2>1, <2>3, SeqDef
<1>5. ASSUME NEW j \in DOMAIN words, words[j].frame # 0
      PROVE  words[j].frame \in DOMAIN sent /\ more[words[j].frame] = sent[words[j].frame]
             /\ SizeOf(more, words[j].frame) = SizeOf(sent, words[j].frame)
    <2>1. words[j].frame \in DOMAIN sent
        BY <1>1, <1>3, <1>5
    <2>2. QED  BY <1>1, <2>1 DEF SizeOf
<1>6. AsSent(words, more)
    <2> SUFFICES ASSUME NEW j \in DOMAIN words, words[j].frame # 0
                 PROVE  /\ words[j].place \in 1..SizeOf(more, words[j].frame)
                        /\ words[j] = Words(words[j].frame,
                                            more[words[j].frame].length)[words[j].place]
        BY DEF AsSent
    <2>1. QED  BY <1>5 DEF Stream, AsSent
<1>7. Ordered(words)
    BY DEF Stream
<1>8. Whole(words, more)
    <2> SUFFICES ASSUME NEW j \in DOMAIN words, IntactAt(words, more, j)
                 PROVE  /\ words[j].place <= j
                        /\ CopyAfter(words, j - words[j].place, words[j].frame,
                                     SizeOf(more, words[j].frame))
        BY DEF Whole
    <2>1. words[j].frame # 0 /\ IntactAt(words, sent, j)
        BY <1>5 DEF IntactAt
    <2>2. QED  BY <1>5, <2>1 DEF Stream, Whole
<1>9. Broken(words, more)
    <2> SUFFICES ASSUME NEW f \in DOMAIN more, ~more[f].intact
                 PROVE  \E k \in 1..SizeOf(more, f) :
                           \A j \in DOMAIN words : ~(words[j].frame = f /\ words[j].place = k)
        BY DEF Broken
    <2>1. CASE f \in DOMAIN sent
        <3>1. more[f] = sent[f] /\ SizeOf(more, f) = SizeOf(sent, f)
            BY <1>1, <2>1 DEF SizeOf
        <3>2. QED  BY <2>1, <3>1 DEF Stream, Broken
    <2>2. CASE f \notin DOMAIN sent
        <3>1. f # 0 /\ f \notin 0..Len(sent)
            BY <1>1, <2>2
        <3>2. \A j \in DOMAIN words : words[j].frame # f
            BY <1>3, <3>1
        <3>3. SizeOf(more, f) = more[f].length + 4 /\ more[f].length \in 0..MaxPayload
            BY <1>1, <1>4, StreamTypes
        <3>4. 1 \in 1..SizeOf(more, f)
            BY <3>3, FramingAssumption
        <3>5. QED  BY <3>2, <3>4
    <2>3. QED  BY <2>1, <2>2
<1>10. Stream(words, more)
    BY <1>4, <1>6, <1>7, <1>8, <1>9 DEF Stream
<1>11. QED  BY <1>10 DEF more

(* The words of a frame.                                                          *)
LEMMA WordsAre ==
    ASSUME NEW sent, WrittenOK(sent), NEW f \in DOMAIN sent
    PROVE  /\ Words(f, sent[f].length) \in Seq(WordSet(sent)) /\ f \in Nat /\ f # 0
           /\ SizeOf(sent, f) \in Nat /\ SizeOf(sent, f) >= 4
           /\ Len(Words(f, sent[f].length)) = SizeOf(sent, f)
           /\ DOMAIN Words(f, sent[f].length) = 1..SizeOf(sent, f)
           /\ \A p \in 1..SizeOf(sent, f) :
                 /\ Words(f, sent[f].length)[p] \in WordSet(sent)
                 /\ Words(f, sent[f].length)[p].frame = f
                 /\ Words(f, sent[f].length)[p].place = p
<1> DEFINE length == sent[f].length
<1> DEFINE whole == Words(f, length)
<1> DEFINE size == SizeOf(sent, f)
<1>1. f \in 1..Len(sent) /\ Len(sent) \in Nat
    BY DEF WrittenOK
<1>2. size = length + 4 /\ length \in 0..MaxPayload
    <2>1. << >> \in Seq(WordSet(sent))
        OBVIOUS
    <2>2. QED  BY <2>1, StreamTypes
<1>3. length \in Nat
    BY <1>2, FramingAssumption
<1> HIDE DEF length
<1>4. size \in Nat /\ size >= 4
    BY <1>2, <1>3
<1>5. ASSUME NEW p \in 1..size
      PROVE  /\ whole[p] \in WordSet(sent) /\ whole[p].frame = f /\ whole[p].place = p
    <2>1. p \in 1..(length + Overhead)
        BY <1>2 DEF Overhead
    <2>2. f \in 0..Len(sent) /\ p \in Nat
        BY <1>1, <1>3, <2>1
    <2>3. CASE p <= 2
        <3>1. whole[p] = Word(f, p, Magic[p], 0)
            BY <2>1, <2>3 DEF Words, HeaderSize
        <3>2. Magic[p] \in {"magic1", "magic2"}
            <4>1. p = 1 \/ p = 2
                BY <2>1, <2>2, <2>3
            <4>2. QED  BY <4>1 DEF Magic
        <3>3. QED  BY <2>2, <3>1, <3>2 DEF Word, WordSet
    <2>4. CASE p = 3
        <3>1. whole[p] = Word(f, p, "length", length)
            BY <2>1, <2>4 DEF Words, HeaderSize
        <3>2. QED  BY <1>3, <2>2, <3>1 DEF Word, WordSet
    <2>5. CASE p > 3
        <3>1. whole[p] = Word(f, p, "data", 0)
            BY <2>1, <2>2, <2>5 DEF Words, HeaderSize
        <3>2. QED  BY <2>2, <3>1 DEF Word, WordSet
    <2>6. QED  BY <2>2, <2>3, <2>4, <2>5
<1>6. whole = [p \in 1..size |-> whole[p]] /\ DOMAIN whole = 1..size
    BY <1>2 DEF Words, Overhead
<1> HIDE DEF whole, size
<1>7. whole \in Seq(WordSet(sent)) /\ Len(whole) = size
    <2>1. whole \in [1..size -> WordSet(sent)]
        BY <1>5, <1>6
    <2>2. QED  BY <1>4, <2>1, SeqDef
<1>8. f \in Nat /\ f # 0
    BY <1>1
<1>9. QED  BY <1>4, <1>5, <1>6, <1>7, <1>8 DEF whole, size, length

(* A frame sent whole is a stream.                                                     *)
LEMMA WholeStream ==
    ASSUME NEW sent, WrittenOK(sent), NEW f \in DOMAIN sent, sent[f].intact
    PROVE  /\ Stream(Words(f, sent[f].length), sent)
           /\ FramesOf(Words(f, sent[f].length)) \subseteq {f}
<1> DEFINE whole == Words(f, sent[f].length)
<1> DEFINE size == SizeOf(sent, f)
<1>1. /\ whole \in Seq(WordSet(sent)) /\ f # 0 /\ size \in Nat /\ size >= 4
      /\ DOMAIN whole = 1..size
      /\ \A p \in 1..size : whole[p].frame = f /\ whole[p].place = p
    BY WordsAre
<1>2. AsSent(whole, sent)
    BY <1>1 DEF AsSent
<1> HIDE DEF whole
<1>3. Ordered(whole)
    BY <1>1 DEF Ordered
<1>4. Whole(whole, sent)
    <2> SUFFICES ASSUME NEW j \in DOMAIN whole
                 PROVE  /\ whole[j].place <= j
                        /\ CopyAfter(whole, j - whole[j].place, whole[j].frame,
                                     SizeOf(sent, whole[j].frame))
        BY DEF Whole
    <2>1. j \in 1..size /\ j \in Nat /\ whole[j].place = j /\ whole[j].frame = f
          /\ j - whole[j].place = 0
        BY <1>1
    <2> HIDE DEF size
    <2>2. ASSUME NEW m \in 1..size
          PROVE  0 + m \in DOMAIN whole /\ whole[0 + m].frame = f /\ whole[0 + m].place = m
        BY <1>1
    <2>3. CopyAfter(whole, 0, f, size)
        BY <2>2 DEF CopyAfter
    <2>4. QED  BY <2>1, <2>3 DEF size
<1>5. Broken(whole, sent)
    <2> SUFFICES ASSUME NEW frame \in DOMAIN sent, ~sent[frame].intact
                 PROVE  \E k \in 1..SizeOf(sent, frame) :
                           \A j \in DOMAIN whole : ~(whole[j].frame = frame /\ whole[j].place = k)
        BY DEF Broken
    <2>1. 1 \in 1..SizeOf(sent, frame)
        BY WordsAre
    <2>2. QED  BY <1>1, <2>1
<1>6. FramesOf(whole) \subseteq {f}
    BY <1>1 DEF FramesOf
<1>7. Stream(whole, sent)
    BY <1>1, <1>2, <1>3, <1>4, <1>5 DEF Stream
<1>8. QED  BY <1>6, <1>7 DEF whole

(* So is what is left of a frame that was damaged: words of it in order, one of them gone.     *)
LEMMA DamagedStream ==
    ASSUME NEW sent, WrittenOK(sent), NEW f \in DOMAIN sent, ~sent[f].intact,
           NEW words \in Seq(WordSet(sent)),
           \A j \in DOMAIN words :
              words[j].frame = 0 \/
                 \E p \in 1..SizeOf(sent, f) : words[j] = Words(f, sent[f].length)[p],
           \A i, j \in DOMAIN words :
              i < j /\ words[i].frame # 0 /\ words[j].frame # 0 =>
                 words[i].place < words[j].place,
           NEW k \in 1..SizeOf(sent, f),
           \A j \in DOMAIN words : words[j].frame # 0 => words[j].place # k
    PROVE  Stream(words, sent) /\ FramesOf(words) \subseteq {f}
<1>1. ASSUME NEW j \in DOMAIN words, words[j].frame # 0
      PROVE  /\ words[j].frame = f /\ words[j].place \in 1..SizeOf(sent, f)
             /\ words[j] = Words(f, sent[f].length)[words[j].place]
    <2>1. PICK p \in 1..SizeOf(sent, f) : words[j] = Words(f, sent[f].length)[p]
        BY <1>1
    <2>2. words[j].frame = f /\ words[j].place = p
        BY <2>1, WordsAre
    <2>3. QED  BY <2>1, <2>2
<1>2. f # 0
    BY WordsAre
<1>3. AsSent(words, sent)
    BY <1>1 DEF AsSent
<1>4. Ordered(words)
    BY <1>1 DEF Ordered
<1>5. Whole(words, sent)
    BY <1>1 DEF Whole, IntactAt
<1>6. Broken(words, sent)
    <2> SUFFICES ASSUME NEW frame \in DOMAIN sent, ~sent[frame].intact
                 PROVE  \E m \in 1..SizeOf(sent, frame) :
                           \A j \in DOMAIN words : ~(words[j].frame = frame /\ words[j].place = m)
        BY DEF Broken
    <2>1. frame # 0 /\ 1 \in 1..SizeOf(sent, frame)
        BY WordsAre
    <2>2. CASE frame = f
        BY <2>1, <2>2
    <2>3. CASE frame # f
        BY <1>1, <2>1, <2>3
    <2>4. QED  BY <2>2, <2>3
<1>7. FramesOf(words) \subseteq {f}
    BY <1>1 DEF FramesOf
<1>8. QED  BY <1>3, <1>4, <1>5, <1>6, <1>7 DEF Stream

(* And a word that is none of any frame.                                               *)
LEMMA StrayStream ==
    ASSUME NEW sent, WrittenOK(sent), NEW word \in Damaged
    PROVE  /\ word \in WordSet(sent) /\ word.frame = 0
           /\ Stream(<<word>>, sent) /\ FramesOf(<<word>>) = {}
<1>1. Len(sent) \in Nat
    BY DEF WrittenOK
<1>2. word.frame = 0 /\ word \in WordSet(sent)
    <2>1. 0 \in 0..Len(sent)
        BY <1>1
    <2>2. CASE word \in {Word(0, 0, kind, 0) : kind \in {"magic1", "magic2", "data"}}
        BY <2>1, <2>2 DEF Word, WordSet
    <2>3. CASE word \in {Word(0, 0, "length", claimed) : claimed \in Lengths}
        BY <2>1, <2>3, FramingAssumption DEF Word, WordSet
    <2>4. QED  BY <2>2, <2>3 DEF Damaged
<1> DEFINE words == <<word>>
<1>3. words \in Seq(WordSet(sent)) /\ DOMAIN words = {1} /\ words[1] = word
    BY <1>2
<1> HIDE DEF words
<1>4. \A j \in DOMAIN words : words[j].frame = 0
    BY <1>2, <1>3
<1>5. AsSent(words, sent) /\ Ordered(words) /\ Whole(words, sent) /\ FramesOf(words) = {}
    BY <1>4 DEF AsSent, Ordered, Whole, IntactAt, FramesOf
<1>6. Broken(words, sent)
    <2> SUFFICES ASSUME NEW frame \in DOMAIN sent
                 PROVE  \E m \in 1..SizeOf(sent, frame) :
                           \A j \in DOMAIN words : ~(words[j].frame = frame /\ words[j].place = m)
        BY DEF Broken
    <2>1. frame # 0 /\ 1 \in 1..SizeOf(sent, frame)
        BY WordsAre
    <2>2. QED  BY <1>4, <2>1
<1>7. Stream(words, sent)
    BY <1>3, <1>5, <1>6 DEF Stream
<1>8. QED  BY <1>2, <1>5, <1>7 DEF words

(* One word of a frame damaged.                                                     *)
LEMMA OneDamaged ==
    ASSUME NEW sent, WrittenOK(sent), NEW f \in DOMAIN sent, ~sent[f].intact,
           NEW i \in 1..SizeOf(sent, f), NEW word \in Damaged
    PROVE  /\ Stream([Words(f, sent[f].length) EXCEPT ![i] = word], sent)
           /\ FramesOf([Words(f, sent[f].length) EXCEPT ![i] = word]) \subseteq {f}
<1> DEFINE whole == Words(f, sent[f].length)
<1> DEFINE size == SizeOf(sent, f)
<1> DEFINE words == [whole EXCEPT ![i] = word]
<1>1. /\ whole \in Seq(WordSet(sent)) /\ Len(whole) = size /\ size \in Nat
      /\ DOMAIN whole = 1..size
      /\ \A p \in 1..size : whole[p].frame = f /\ whole[p].place = p
    BY WordsAre
<1>2. word \in WordSet(sent) /\ word.frame = 0
    BY StrayStream
<1> HIDE DEF whole, size
<1>3. i \in 1..size
    BY DEF size
<1>4. /\ DOMAIN words = 1..size /\ words[i] = word
      /\ \A p \in 1..size : p # i => words[p] = whole[p]
    BY <1>1, <1>3
<1>5. words \in Seq(WordSet(sent))
    BY <1>1, <1>2, <1>3
<1> HIDE DEF words
<1>6. \A j \in DOMAIN words : words[j].frame = 0 \/ \E p \in 1..size : words[j] = whole[p]
    BY <1>2, <1>4
<1>7. ASSUME NEW a \in DOMAIN words, NEW b \in DOMAIN words, a < b,
             words[a].frame # 0, words[b].frame # 0
      PROVE  words[a].place < words[b].place
    <2>1. a # i /\ b # i
        BY <1>2, <1>4, <1>7
    <2>2. words[a].place = a /\ words[b].place = b
        BY <1>1, <1>4, <2>1
    <2>3. QED  BY <1>7, <2>2
<1>8. ASSUME NEW j \in DOMAIN words, words[j].frame # 0 PROVE words[j].place # i
    <2>1. j # i
        BY <1>2, <1>4, <1>8
    <2>2. QED  BY <1>1, <1>4, <2>1
<1>9. Stream(words, sent) /\ FramesOf(words) \subseteq {f}
    BY <1>5, <1>6, <1>7, <1>8, DamagedStream DEF whole, size
<1>10. QED  BY <1>9 DEF words, whole

(* One word of a frame lost.                                                      *)
LEMMA OneLost ==
    ASSUME NEW sent, WrittenOK(sent), NEW f \in DOMAIN sent, ~sent[f].intact,
           NEW i \in 1..SizeOf(sent, f)
    PROVE  /\ Stream(RemoveAt(Words(f, sent[f].length), i), sent)
           /\ FramesOf(RemoveAt(Words(f, sent[f].length), i)) \subseteq {f}
<1> DEFINE whole == Words(f, sent[f].length)
<1> DEFINE size == SizeOf(sent, f)
<1> DEFINE words == RemoveAt(whole, i)
<1> DEFINE left == SubSeq(whole, 1, i - 1)
<1> DEFINE right == From(whole, i + 1)
<1>1. /\ whole \in Seq(WordSet(sent)) /\ Len(whole) = size /\ size \in Nat
      /\ DOMAIN whole = 1..size
      /\ \A p \in 1..size : whole[p].frame = f /\ whole[p].place = p
    BY WordsAre
<1> HIDE DEF whole, size
<1>2. i \in 1..size /\ i \in Nat
    BY DEF size
<1>3. /\ left \in Seq(WordSet(sent)) /\ Len(left) = i - 1
      /\ \A p \in 1..(i - 1) : left[p] = whole[p]
    <2>1. 1 \in Int /\ i - 1 \in Int /\ i - 1 <= Len(whole) /\ i - 1 >= 0
        BY <1>1, <1>2
    <2>2. /\ left \in Seq(WordSet(sent))
          /\ Len(left) = IF 1 <= i - 1 THEN (i - 1) - 1 + 1 ELSE 0
          /\ \A p \in 1..((i - 1) - 1 + 1) : left[p] = whole[1 + p - 1]
        BY <1>1, <2>1, SubSeqProperties
    <2>3. (i - 1) - 1 + 1 = i - 1 /\ \A p \in 1..(i - 1) : 1 + p - 1 = p
        BY <1>2
    <2>4. QED  BY <1>2, <2>2, <2>3
<1>4. /\ right \in Seq(WordSet(sent)) /\ Len(right) = size - i
      /\ \A p \in 1..(size - i) : right[p] = whole[i + p]
    <2>1. i \in 0..Len(whole)
        BY <1>1, <1>2
    <2> DEFINE S == WordSet(sent)
    <2>15. whole \in Seq(S)
        BY <1>1
    <2> HIDE DEF S
    <2>16. /\ From(whole, i + 1) \in Seq(S) /\ Len(From(whole, i + 1)) = Len(whole) - i
           /\ \A p \in 1..(Len(whole) - i) : From(whole, i + 1)[p] = whole[i + p]
        BY <2>1, <2>15, FromIs
    <2>2. /\ right \in Seq(WordSet(sent)) /\ Len(right) = Len(whole) - i
          /\ \A p \in 1..(Len(whole) - i) : right[p] = whole[i + p]
        BY <2>16 DEF S
    <2> HIDE DEF right
    <2>3. QED  BY <1>1, <2>2
<1>5. words = left \o right
    BY DEF RemoveAt, From
<1> HIDE DEF words, left, right
<1>6. /\ words \in Seq(WordSet(sent)) /\ Len(words) = (i - 1) + (size - i)
      /\ \A j \in 1..Len(words) : words[j] = IF j <= i - 1 THEN left[j] ELSE right[j - (i - 1)]
    <2>1. /\ words \in Seq(WordSet(sent)) /\ Len(words) = Len(left) + Len(right)
          /\ \A j \in 1..(Len(left) + Len(right)) :
                words[j] = IF j <= Len(left) THEN left[j] ELSE right[j - Len(left)]
        BY <1>3, <1>4, <1>5, ConcatProperties
    <2>2. QED  BY <1>3, <1>4, <2>1
<1>7. DOMAIN words = 1..(size - 1)
    <2>1. Len(words) = size - 1
        BY <1>1, <1>2, <1>6
    <2>2. QED  BY <1>6, <2>1
<1> DEFINE Place(j) == IF j < i THEN j ELSE j + 1
<1>8. ASSUME NEW j \in DOMAIN words
      PROVE  /\ Place(j) \in 1..size /\ Place(j) # i /\ words[j] = whole[Place(j)]
             /\ words[j].place = Place(j) /\ j \in Nat
    <2>1. j \in 1..(size - 1) /\ j \in Nat /\ j \in 1..Len(words) /\ Place(j) \in 1..size
          /\ Place(j) # i
        BY <1>1, <1>2, <1>6, <1>7
    <2>2. CASE j < i
        <3>1. j <= i - 1 /\ j \in 1..(i - 1)
            BY <1>2, <2>1, <2>2
        <3>2. QED  BY <1>1, <1>3, <1>6, <2>1, <2>2, <3>1
    <2>3. CASE ~(j < i)
        <3>1. ~(j <= i - 1) /\ j - (i - 1) \in 1..(size - i) /\ i + (j - (i - 1)) = j + 1
            BY <1>1, <1>2, <2>1, <2>3
        <3>2. words[j] = right[j - (i - 1)]
            BY <1>6, <2>1, <3>1
        <3>3. right[j - (i - 1)] = whole[j + 1]
            BY <1>4, <3>1
        <3>4. QED  BY <1>1, <2>1, <2>3, <3>2, <3>3
    <2>4. QED  BY <2>2, <2>3
<1>9. ASSUME NEW a \in DOMAIN words, NEW b \in DOMAIN words, a < b
      PROVE  words[a].place < words[b].place
    <2>1. a \in Nat /\ b \in Nat /\ words[a].place = Place(a) /\ words[b].place = Place(b)
        BY <1>8
    <2>2. Place(a) < Place(b)
        BY <1>2, <1>9, <2>1
    <2>3. QED  BY <2>1, <2>2
<1>10. \A j \in DOMAIN words : \E p \in 1..size : words[j] = whole[p]
    BY <1>8
<1>11. \A j \in DOMAIN words : words[j].place # i
    BY <1>8
<1>12. Stream(words, sent) /\ FramesOf(words) \subseteq {f}
    BY <1>2, <1>6, <1>9, <1>10, <1>11, DamagedStream DEF whole, size
<1>13. QED  BY <1>12 DEF words, whole

(* The invariant: what is on its way and in the parser is a stream of the frames written; the   *)
(* frames returned come before it, and are with those the buffer completes the frames owed,    *)
(* of which the bridge's parser holds none and the gimbal's only while it waits.             *)
FramingInv ==
    /\ p900 \in BOOLEAN /\ WrittenOK(written) /\ Len(written) <= MaxFrames
    /\ buffer \in Seq(WordSet(written)) /\ line \in Seq(WordSet(written))
    /\ Stream(buffer \o line, written)
    /\ parsed \in Seq(DOMAIN written) /\ Increasing(parsed)
    /\ Older(parsed, buffer \o line)
    /\ arrived = Range(parsed) \cup Completed(buffer)
    /\ Completed(buffer) # {} => ~p900 /\ WaitingOn(buffer)

(* What is read is what the buffer completed and what the words read do.                   *)
LEMMA CompletedJoin ==
    ASSUME WrittenOK(written), NEW words \in Seq(WordSet(written)),
           NEW more \in Seq(WordSet(written))
    PROVE  Completed(words \o more) = Completed(words) \cup Completed(more)
<1> DEFINE all == words \o more
<1> DEFINE n == Len(words)
<1>1. /\ n \in Nat /\ Len(more) \in Nat /\ DOMAIN words = 1..n /\ DOMAIN more = 1..Len(more)
      /\ DOMAIN all = 1..(n + Len(more))
    BY JoinWords
<1>2. \A j \in 1..(n + Len(more)) : all[j] = IF j <= n THEN words[j] ELSE more[j - n]
    BY <1>1, ConcatProperties
<1> HIDE DEF all, n
<1>3. ASSUME NEW j \in DOMAIN all
      PROVE  \/ j \in DOMAIN words /\ all[j] = words[j]
             \/ j - n \in DOMAIN more /\ all[j] = more[j - n]
    <2>1. j \in 1..(n + Len(more))
        BY <1>1
    <2>2. CASE j <= n
        <3>1. j \in 1..n
            BY <1>1, <2>1, <2>2
        <3>2. QED  BY <1>1, <1>2, <2>1, <2>2, <3>1
    <2>3. CASE ~(j <= n)
        <3>1. j - n \in 1..Len(more)
            BY <1>1, <2>1, <2>3
        <3>2. all[j] = more[j - n]
            BY <1>2, <2>1, <2>3
        <3>3. QED  BY <1>1, <3>1, <3>2
    <2>4. QED  BY <2>2, <2>3
<1>4. ASSUME NEW j \in DOMAIN words PROVE j \in DOMAIN all /\ all[j] = words[j]
    <2>1. j \in 1..(n + Len(more)) /\ j <= n
        BY <1>1
    <2>2. QED  BY <1>1, <1>2, <2>1
<1>5. ASSUME NEW j \in DOMAIN more PROVE n + j \in DOMAIN all /\ all[n + j] = more[j]
    <2>1. n + j \in 1..(n + Len(more)) /\ ~(n + j <= n) /\ (n + j) - n = j
        BY <1>1
    <2>2. QED  BY <1>1, <1>2, <2>1
<1> DEFINE Ends(chunk, frame) ==
        \E i \in DOMAIN chunk : /\ chunk[i].frame = frame
                                /\ chunk[i].place = written[frame].length + Overhead
<1>6. ASSUME NEW frame PROVE Ends(all, frame) <=> Ends(words, frame) \/ Ends(more, frame)
    <2>1. ASSUME Ends(all, frame) PROVE Ends(words, frame) \/ Ends(more, frame)
        BY <1>3, <2>1
    <2>2. ASSUME Ends(words, frame) PROVE Ends(all, frame)
        BY <1>4, <2>2
    <2>3. ASSUME Ends(more, frame) PROVE Ends(all, frame)
        BY <1>5, <2>3
    <2>4. QED  BY <2>1, <2>2, <2>3
<1>7. ASSUME NEW chunk
      PROVE  Completed(chunk) = {frame \in DOMAIN written :
                /\ written[frame].intact /\ Returns(frame) /\ Ends(chunk, frame)}
    BY DEF Completed
<1> HIDE DEF Ends
<1>8. Completed(all) = Completed(words) \cup Completed(more)
    BY <1>6, <1>7
<1>9. QED  BY <1>8 DEF all

(* The invariant holds at first.                                                   *)
LEMMA FramingInvInit == FramingInit => FramingInv
<1> SUFFICES ASSUME FramingInit PROVE FramingInv
    OBVIOUS
<1>1. p900 \in BOOLEAN /\ written = <<>> /\ line = <<>> /\ buffer = <<>> /\ parsed = <<>>
      /\ arrived = {}
    BY DEF FramingInit
<1>2. WrittenOK(written) /\ Len(written) = 0 /\ MaxFrames \in Nat
    BY <1>1, FramingAssumption DEF WrittenOK
<1>3. buffer \in Seq(WordSet(written)) /\ line \in Seq(WordSet(written))
      /\ buffer \o line \in Seq(WordSet(written)) /\ DOMAIN (buffer \o line) = {}
      /\ DOMAIN buffer = {} /\ DOMAIN written = {}
    BY <1>1
<1>4. Stream(buffer \o line, written)
    BY <1>3 DEF Stream, AsSent, Ordered, Whole, Broken
<1>5. parsed \in Seq(DOMAIN written) /\ Increasing(parsed) /\ Range(parsed) = {}
    BY <1>1 DEF Increasing, Range
<1>6. Completed(buffer) = {}
    BY <1>3 DEF Completed
<1>7. QED  BY <1>1, <1>2, <1>3, <1>4, <1>5, <1>6 DEF FramingInv, Older

(* A write: the frame is a stream however it goes, of a later frame than all.                 *)
LEMMA WriteKeepsInv ==
    ASSUME FramingInv, NEW length \in Payloads, NEW known \in BOOLEAN,
           WriteFrame(length, known)
    PROVE  FramingInv'
<1> DEFINE f == Len(written) + 1
<1> DEFINE whole == Words(f, length)
<1> DEFINE Sends(words, intact) ==
        /\ line' = line \o words
        /\ written' = Append(written, [length |-> length, known |-> known, intact |-> intact])
<1>1. /\ Len(written) < MaxFrames
      /\ \/ Sends(whole, TRUE)
         \/ \E i \in DOMAIN whole, word \in Damaged : Sends([whole EXCEPT ![i] = word], FALSE)
         \/ \E i \in DOMAIN whole : Sends(RemoveAt(whole, i), FALSE)
         \/ \E word \in Damaged : Sends(<<word>> \o whole, TRUE)
      /\ UNCHANGED <<p900, buffer, parsed, arrived>>
    BY DEF WriteFrame
<1>2. /\ p900 \in BOOLEAN /\ WrittenOK(written)
      /\ buffer \in Seq(WordSet(written)) /\ line \in Seq(WordSet(written))
      /\ Stream(buffer \o line, written)
      /\ parsed \in Seq(DOMAIN written) /\ Increasing(parsed)
      /\ Older(parsed, buffer \o line)
      /\ arrived = Range(parsed) \cup Completed(buffer)
      /\ Completed(buffer) # {} => ~p900 /\ WaitingOn(buffer)
    BY DEF FramingInv
<1> DEFINE Possible(words, intact) ==
        \/ words = whole /\ intact
        \/ /\ ~intact
           /\ \E i \in DOMAIN whole, word \in Damaged : words = [whole EXCEPT ![i] = word]
        \/ ~intact /\ \E i \in DOMAIN whole : words = RemoveAt(whole, i)
        \/ intact /\ \E word \in Damaged : words = <<word>> \o whole
<1>3. PICK words, intact :
        intact \in BOOLEAN /\ Sends(words, intact) /\ Possible(words, intact)
    <2> HIDE DEF Sends, whole
    <2>1. CASE Sends(whole, TRUE)
        <3>1. Possible(whole, TRUE)
            OBVIOUS
        <3>2. QED  BY <2>1, <3>1
    <2>2. CASE \E i \in DOMAIN whole, word \in Damaged : Sends([whole EXCEPT ![i] = word], FALSE)
        <3>1. PICK i \in DOMAIN whole, word \in Damaged : Sends([whole EXCEPT ![i] = word], FALSE)
            BY <2>2
        <3>2. Possible([whole EXCEPT ![i] = word], FALSE)
            OBVIOUS
        <3>3. QED  BY <3>1, <3>2
    <2>3. CASE \E i \in DOMAIN whole : Sends(RemoveAt(whole, i), FALSE)
        <3>1. PICK i \in DOMAIN whole : Sends(RemoveAt(whole, i), FALSE)
            BY <2>3
        <3>2. Possible(RemoveAt(whole, i), FALSE)
            OBVIOUS
        <3>3. QED  BY <3>1, <3>2
    <2>4. CASE \E word \in Damaged : Sends(<<word>> \o whole, TRUE)
        <3>1. PICK word \in Damaged : Sends(<<word>> \o whole, TRUE)
            BY <2>4
        <3>2. Possible(<<word>> \o whole, TRUE)
            OBVIOUS
        <3>3. QED  BY <3>1, <3>2
    <2>5. QED  BY <1>1, <2>1, <2>2, <2>3, <2>4
<1> DEFINE record == [length |-> length, known |-> known, intact |-> intact]
<1>4. record \in Records
    BY <1>3 DEF Records
<1>5. written' = Append(written, record) /\ line' = line \o words
    BY <1>3
<1>6. record.length = length /\ record.known = known /\ record.intact = intact
    OBVIOUS
<1> HIDE DEF record
<1> DEFINE sent == Append(written, record)
<1>7. /\ WrittenOK(sent) /\ Len(written) \in Nat /\ Len(sent) = Len(written) + 1
      /\ DOMAIN written = 1..Len(written) /\ DOMAIN sent = 1..(Len(written) + 1)
      /\ \A g \in DOMAIN written : sent[g] = written[g]
      /\ sent[f] = record
    BY <1>2, <1>4, OneMore
<1> HIDE DEF sent
<1>8. f \in DOMAIN sent /\ sent[f].length = length /\ sent[f].intact = intact
    BY <1>6, <1>7
<1>9. DOMAIN whole = 1..SizeOf(sent, f)
    BY <1>7, <1>8, WordsAre
<1>10. whole = Words(f, sent[f].length)
    BY <1>8
<1> HIDE DEF whole, f
<1>11. Stream(words, sent) /\ FramesOf(words) \subseteq {f}
    <2>1. CASE words = whole /\ intact
        BY <1>7, <1>8, <1>10, <2>1, WholeStream
    <2>2. CASE /\ ~intact
               /\ \E i \in DOMAIN whole, word \in Damaged : words = [whole EXCEPT ![i] = word]
        <3>1. PICK i \in DOMAIN whole, word \in Damaged : words = [whole EXCEPT ![i] = word]
            BY <2>2
        <3>2. i \in 1..SizeOf(sent, f) /\ ~sent[f].intact
            BY <1>8, <1>9, <2>2
        <3>3. QED  BY <1>7, <1>8, <1>10, <3>1, <3>2, OneDamaged
    <2>3. CASE ~intact /\ \E i \in DOMAIN whole : words = RemoveAt(whole, i)
        <3>1. PICK i \in DOMAIN whole : words = RemoveAt(whole, i)
            BY <2>3
        <3>2. i \in 1..SizeOf(sent, f) /\ ~sent[f].intact
            BY <1>8, <1>9, <2>3
        <3>3. QED  BY <1>7, <1>8, <1>10, <3>1, <3>2, OneLost
    <2>4. CASE intact /\ \E word \in Damaged : words = <<word>> \o whole
        <3>1. PICK word \in Damaged : words = <<word>> \o whole
            BY <2>4
        <3>2. Stream(<<word>>, sent) /\ FramesOf(<<word>>) = {}
            BY <1>7, StrayStream
        <3>3. Stream(whole, sent) /\ FramesOf(whole) \subseteq {f}
            BY <1>7, <1>8, <1>10, <2>4, WholeStream
        <3>4. Apart(<<word>>, whole)
            BY <3>2 DEF Apart
        <3>5. WrittenOK(sent)
            BY <1>7
        <3> DEFINE stray == <<word>>
        <3>6. Stream(stray, sent) /\ Apart(stray, whole) /\ FramesOf(stray) = {}
            BY <3>2, <3>4
        <3> HIDE DEF stray
        <3>7. /\ Stream(stray \o whole, sent)
              /\ FramesOf(stray \o whole) = FramesOf(stray) \cup FramesOf(whole)
            BY <3>3, <3>5, <3>6, StreamJoin
        <3>8. words = stray \o whole
            BY <3>1 DEF stray
        <3>9. QED  BY <3>3, <3>6, <3>7, <3>8
    <2>5. QED  BY <1>3, <2>1, <2>2, <2>3, <2>4
<1> DEFINE all == buffer \o line
<1>12. Stream(all, sent)
    BY <1>2, <1>4, StreamGrows DEF sent
<1>13. FramesOf(all) \subseteq DOMAIN written
    <2>1. all \in Seq(WordSet(written))
        BY <1>2, JoinWords
    <2>2. QED  BY <1>2, <2>1, StreamTypes
<1> HIDE DEF all
<1>14. Apart(all, words)
    <2>1. \A g \in DOMAIN written : g < f
        BY <1>7 DEF f
    <2>2. QED  BY <1>11, <1>13, <2>1 DEF Apart
<1>15. Stream(all \o words, sent) /\ FramesOf(all \o words) = FramesOf(all) \cup FramesOf(words)
    BY <1>7, <1>11, <1>12, <1>14, StreamJoin
<1>16. WordSet(written) \subseteq WordSet(sent)
    BY <1>7 DEF WordSet
<1>17. buffer \in Seq(WordSet(sent)) /\ line \in Seq(WordSet(sent))
    BY <1>2, <1>16, SeqMonotonic
<1>18. words \in Seq(WordSet(sent))
    BY <1>11 DEF Stream
<1>19. line \o words \in Seq(WordSet(sent)) /\ buffer \o (line \o words) = all \o words
    <2> DEFINE S == WordSet(sent)
    <2>1. buffer \in Seq(S) /\ line \in Seq(S) /\ words \in Seq(S)
        BY <1>17, <1>18
    <2> HIDE DEF S
    <2>2. line \o words \in Seq(S)
        BY <2>1, ConcatProperties
    <2>3. (buffer \o line) \o words = buffer \o (line \o words)
        BY <2>1, ConcatAssociative
    <2>4. QED  BY <2>2, <2>3 DEF S, all
<1>20. parsed \in Seq(DOMAIN sent)
    <2>1. DOMAIN written \subseteq DOMAIN sent
        BY <1>7
    <2>2. QED  BY <1>2, <2>1, SeqMonotonic
<1>21. Older(parsed, all \o words)
    <2>1. Range(parsed) \subseteq DOMAIN written
        BY <1>2 DEF Range
    <2>2. \A g \in DOMAIN written : g < f
        BY <1>7 DEF f
    <2>3. QED  BY <1>2, <1>11, <1>15, <2>1, <2>2 DEF Older, all
<1>22. written' = sent /\ line' = line \o words /\ UNCHANGED <<p900, buffer, parsed, arrived>>
    BY <1>1, <1>5 DEF sent
<1>23. Completed(buffer)' = Completed(buffer)
    <2>1. ASSUME NEW j \in DOMAIN buffer PROVE buffer[j].frame \in 0..Len(written)
        <3>1. buffer[j] \in WordSet(written)
            BY <1>2
        <3>2. QED  BY <3>1 DEF WordSet
    <2>2. ASSUME NEW frame, \E i \in DOMAIN buffer : buffer[i].frame = frame,
                 frame \in DOMAIN sent
          PROVE  frame \in DOMAIN written /\ sent[frame] = written[frame]
        BY <1>7, <2>1, <2>2
    <2>3. ASSUME NEW frame \in Completed(buffer) PROVE frame \in Completed(buffer)'
        <3>1. frame \in DOMAIN sent /\ sent[frame] = written[frame]
            BY <1>7 DEF Completed
        <3>2. QED  BY <1>22, <3>1 DEF Completed, Returns
    <2>4. ASSUME NEW frame \in Completed(buffer)' PROVE frame \in Completed(buffer)
        <3>1. frame \in DOMAIN sent /\ \E i \in DOMAIN buffer : buffer[i].frame = frame
            BY <1>22 DEF Completed
        <3>2. frame \in DOMAIN written /\ sent[frame] = written[frame]
            BY <2>2, <3>1
        <3>3. QED  BY <1>22, <3>2 DEF Completed, Returns
    <2>5. QED  BY <2>3, <2>4
<1>24. Len(sent) <= MaxFrames
    BY <1>1, <1>7, FramingAssumption
<1>25. (Completed(buffer) # {} => ~p900 /\ WaitingOn(buffer))'
    BY <1>2, <1>22, <1>23 DEF WaitingOn, IsMagicAt, HeaderOK, FrameSize
<1>26. arrived' = Range(parsed') \cup Completed(buffer)'
    BY <1>2, <1>22, <1>23
<1>27. QED
    BY <1>2, <1>7, <1>15, <1>17, <1>19, <1>20, <1>21, <1>22, <1>24, <1>25, <1>26
       DEF FramingInv

(* A read: the parser is fed the start of the line, and the rest stays there.               *)
LEMMA SplitLine ==
    ASSUME NEW S, NEW words \in Seq(S), NEW n \in 1..Len(words)
    PROVE  /\ SubSeq(words, 1, n) \in Seq(S) /\ From(words, n + 1) \in Seq(S)
           /\ SubSeq(words, 1, n) \o From(words, n + 1) = words
<1>1. Len(words) \in Nat /\ n \in Nat /\ n >= 1 /\ n <= Len(words)
    OBVIOUS
<1>2. SubSeq(words, 1, n) \in Seq(S)
    BY <1>1, SubSeqProperties
<1>3. From(words, n + 1) \in Seq(S)
    BY <1>1, FromIs
<1>4. 1 \in 1..(Len(words) + 1) /\ n \in (1 - 1)..Len(words) /\ Len(words) \in n..Len(words)
    BY <1>1
<1>5. SubSeq(words, 1, n) \o SubSeq(words, n + 1, Len(words)) = SubSeq(words, 1, Len(words))
    BY <1>4, ConcatAdjacentSubSeq
<1>6. SubSeq(words, 1, Len(words)) = words
    BY SubSeqFull
<1>7. QED  BY <1>2, <1>3, <1>5, <1>6 DEF From

(* A read keeps the invariant: what feed returns is later than what was returned before.       *)
LEMMA ReadKeepsInv ==
    ASSUME FramingInv, NEW n \in 1..Len(line), ReadChunk(n)
    PROVE  FramingInv'
<1> DEFINE chunk == SubSeq(line, 1, n)
<1> DEFINE rest == From(line, n + 1)
<1> DEFINE words == buffer \o chunk
<1> DEFINE fed == Feed(words)
<1>1. /\ p900 \in BOOLEAN /\ WrittenOK(written) /\ Len(written) <= MaxFrames
      /\ buffer \in Seq(WordSet(written)) /\ line \in Seq(WordSet(written))
      /\ Stream(buffer \o line, written)
      /\ parsed \in Seq(DOMAIN written) /\ Increasing(parsed)
      /\ Older(parsed, buffer \o line)
      /\ arrived = Range(parsed) \cup Completed(buffer)
    BY DEF FramingInv
<1>2. /\ line' = rest /\ buffer' = fed.words /\ parsed' = parsed \o fed.frames
      /\ arrived' = arrived \cup Completed(chunk) /\ UNCHANGED <<p900, written>>
    BY DEF ReadChunk, From
<1>3. chunk \in Seq(WordSet(written)) /\ rest \in Seq(WordSet(written)) /\ chunk \o rest = line
    BY <1>1, SplitLine
<1> HIDE DEF chunk, rest
<1>4. words \in Seq(WordSet(written)) /\ words \o rest = buffer \o line
    <2> DEFINE S == WordSet(written)
    <2>1. buffer \in Seq(S) /\ chunk \in Seq(S) /\ rest \in Seq(S)
        BY <1>1, <1>3
    <2> HIDE DEF S
    <2>2. (buffer \o chunk) \o rest = buffer \o (chunk \o rest)
        BY <2>1, ConcatAssociative, SMTT(30)
    <2>3. buffer \o chunk \in Seq(S)
        BY <2>1, ConcatProperties
    <2>4. QED  BY <1>3, <2>2, <2>3 DEF S
<1>5. Completed(words) = Completed(buffer) \cup Completed(chunk)
    BY <1>1, <1>3, CompletedJoin
<1> HIDE DEF words
<1>6. RunOK(words, rest, fed, Len(words) + 1) /\ ~fed.goes_on
    BY <1>1, <1>3, <1>4, FeedReturns
<1> HIDE DEF fed
<1>7. /\ fed.words \in Seq(WordSet(written)) /\ Stream(fed.words \o rest, written)
      /\ fed.frames \in Seq(DOMAIN written) /\ Increasing(fed.frames)
      /\ Older(fed.frames, fed.words \o rest)
      /\ Completed(words) = Completed(fed.words) \cup Range(fed.frames)
      /\ FramesOf(fed.words \o rest) \subseteq FramesOf(words \o rest)
      /\ Completed(fed.words) # {} => ~p900 /\ WaitingOn(fed.words)
    BY <1>6 DEF RunOK
<1> DEFINE frames == fed.frames
<1>8. Range(frames) \subseteq FramesOf(buffer \o line)
    <2>1. Completed(words) \subseteq FramesOf(words \o rest)
        BY <1>1, <1>3, <1>4, CompletedFrames
    <2>2. QED  BY <1>4, <1>7, <2>1
<1>9. Before(parsed, frames)
    BY <1>1, <1>8 DEF Before, Older
<1>10. frames \in Seq(DOMAIN written) /\ Increasing(frames)
    BY <1>7
<1> HIDE DEF frames
<1>11. /\ parsed \o frames \in Seq(DOMAIN written) /\ Increasing(parsed \o frames)
       /\ Range(parsed \o frames) = Range(parsed) \cup Range(frames)
    <2> DEFINE S == DOMAIN written
    <2>1. /\ parsed \in Seq(S) /\ frames \in Seq(S)
          /\ Increasing(parsed) /\ Increasing(frames)
        BY <1>1, <1>10
    <2> HIDE DEF S
    <2>2. /\ parsed \o frames \in Seq(S) /\ Increasing(parsed \o frames)
          /\ Range(parsed \o frames) = Range(parsed) \cup Range(frames)
        BY <1>9, <2>1, JoinFrames
    <2>3. QED  BY <2>2 DEF S
<1>12. Older(parsed \o frames, fed.words \o rest)
    <2>1. Older(parsed, fed.words \o rest)
        BY <1>1, <1>4, <1>7 DEF Older
    <2>2. QED  BY <1>7, <1>11, <2>1 DEF Older, frames
<1>13. arrived' = Range(parsed \o frames) \cup Completed(fed.words)
    BY <1>1, <1>2, <1>5, <1>7, <1>11 DEF frames
<1>14. parsed' = parsed \o frames
    BY <1>2 DEF frames
<1>15. Completed(buffer)' = Completed(fed.words)
    BY <1>2 DEF Completed, Returns
<1>16. (Completed(buffer) # {} => ~p900 /\ WaitingOn(buffer))'
    BY <1>2, <1>7, <1>15 DEF WaitingOn, IsMagicAt, HeaderOK, FrameSize
<1>17. Stream(buffer \o line, written)' /\ Older(parsed, buffer \o line)'
    BY <1>2, <1>7, <1>12, <1>14
<1>18. QED
    BY <1>1, <1>2, <1>3, <1>7, <1>11, <1>13, <1>14, <1>15, <1>16, <1>17 DEF FramingInv

(* Every step keeps the invariant.                                                  *)
LEMMA FramingInvStep == FramingInv /\ [FramingNext]_framingVars => FramingInv'
<1> SUFFICES ASSUME FramingInv, [FramingNext]_framingVars PROVE FramingInv'
    OBVIOUS
<1>1. CASE \E length \in Payloads, known \in BOOLEAN : WriteFrame(length, known)
    BY <1>1, WriteKeepsInv
<1>2. CASE \E n \in 1..Len(line) : ReadChunk(n)
    BY <1>2, ReadKeepsInv
<1>3. CASE UNCHANGED framingVars
    BY <1>3 DEF framingVars, FramingInv, Completed, Returns, WaitingOn, IsMagicAt, HeaderOK,
                FrameSize
<1>4. QED  BY <1>1, <1>2, <1>3 DEF FramingNext

(* The bridge's parser returns every intact frame as soon as its last byte is read, and the    *)
(* gimbal's all but the last ones while a header claims more than has come (FramesRecovered).  *)
THEOREM FramesAreRecovered == FramingSpec => []FramesRecovered
<1>1. FramingInv => FramesRecovered
    <2> SUFFICES ASSUME FramingInv PROVE FramesRecovered
        OBVIOUS
    <2>1. /\ WrittenOK(written) /\ buffer \in Seq(WordSet(written))
          /\ line \in Seq(WordSet(written)) /\ Increasing(parsed)
          /\ Older(parsed, buffer \o line) /\ arrived = Range(parsed) \cup Completed(buffer)
          /\ Completed(buffer) # {} => ~p900 /\ WaitingOn(buffer)
        BY DEF FramingInv
    <2>2. Completed(buffer) \subseteq FramesOf(buffer \o line)
        BY <2>1, CompletedFrames
    <2>3. ASSUME NEW frame \in arrived \ Range(parsed)
          PROVE  ~p900 /\ Waiting /\ \A i \in DOMAIN parsed : parsed[i] < frame
        <3>1. frame \in Completed(buffer)
            BY <2>1
        <3>2. ~p900 /\ Waiting
            BY <2>1, <3>1 DEF WaitingOn, Waiting
        <3>3. \A i \in DOMAIN parsed : parsed[i] < frame
            BY <2>1, <2>2, <3>1 DEF Older, Range
        <3>4. QED  BY <3>2, <3>3
    <2>4. QED  BY <2>1, <2>3 DEF FramesRecovered, Increasing
<1>2. QED  BY <1>1, FramingInvInit, FramingInvStep, PTL DEF FramingSpec

(* The types of the parsers' state (FramingTypeOK).                                        *)
THEOREM FramingTypeCorrect == FramingSpec => []FramingTypeOK
<1>1. FramingInv => FramingTypeOK
    <2> SUFFICES ASSUME FramingInv PROVE FramingTypeOK
        OBVIOUS
    <2>1. /\ p900 \in BOOLEAN /\ WrittenOK(written) /\ Len(written) <= MaxFrames
          /\ buffer \in Seq(WordSet(written)) /\ line \in Seq(WordSet(written))
          /\ parsed \in Seq(DOMAIN written) /\ arrived = Range(parsed) \cup Completed(buffer)
        BY DEF FramingInv
    <2>2. /\ \A i \in DOMAIN line : line[i].frame \in 0..Len(written)
          /\ \A i \in DOMAIN buffer : buffer[i].frame \in 0..Len(written)
        BY <2>1, StreamTypes
    <2>3. Range(parsed) \subseteq DOMAIN written /\ Completed(buffer) \subseteq DOMAIN written
        BY <2>1 DEF Range, Completed
    <2>4. QED  BY <2>1, <2>2, <2>3 DEF FramingTypeOK, WrittenOK
<1>2. QED  BY <1>1, FramingInvInit, FramingInvStep, PTL DEF FramingSpec
=================================================================================
