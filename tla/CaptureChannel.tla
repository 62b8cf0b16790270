--------------------------- MODULE CaptureChannel ---------------------------
(***************************************************************************)
(* What the capture pipeline promises its caller (spec, 4.3): a FIFO       *)
(* channel.  An accepted request joins the pending requests; completion    *)
(* answers the oldest pending request, and every pending request is       *)
(* eventually answered.                                                    *)
(***************************************************************************)
EXTENDS Sequences

CONSTANT Items      \* the requests that can be submitted

VARIABLES
    pending,        \* accepted and not yet answered, oldest first
    done            \* answered, in the order they were answered

chanVars == <<pending, done>>

ChanInit ==
    /\ pending = <<>>
    /\ done = <<>>

Submit(r) ==
    /\ pending' = Append(pending, r)
    /\ UNCHANGED done

Complete ==
    /\ pending # <<>>
    /\ done' = Append(done, Head(pending))
    /\ pending' = Tail(pending)

ChanNext == (\E r \in Items : Submit(r)) \/ Complete

ChanSpec == ChanInit /\ [][ChanNext]_chanVars /\ WF_chanVars(Complete)
=============================================================================
