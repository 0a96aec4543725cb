------------------------------ MODULE FrameChannel ------------------------------
(***************************************************************************)
(* What the serial transport promises the bridge about the frames it        *)
(* accepts with send(): a bounded queue that may lose a frame but never      *)
(* duplicates one or overtakes it.  SerialTransport implements this module.  *)
(***************************************************************************)
EXTENDS Naturals, Sequences

CONSTANTS Frames, Capacity

VARIABLES accepted,   \* the frames accepted and neither delivered nor lost yet
          delivered   \* the frames put on the wire, in order

Init == accepted = <<>> /\ delivered = <<>>

Accept(f) ==
    /\ Len(accepted) <= Capacity
    /\ accepted' = Append(accepted, f)
    /\ UNCHANGED delivered

Deliver ==
    /\ accepted # <<>>
    /\ delivered' = Append(delivered, Head(accepted))
    /\ accepted' = Tail(accepted)

Lose ==
    /\ accepted # <<>>
    /\ accepted' = Tail(accepted)
    /\ UNCHANGED delivered

Next == (\E f \in Frames : Accept(f)) \/ Deliver \/ Lose

Spec == Init /\ [][Next]_<<accepted, delivered>>
=============================================================================
