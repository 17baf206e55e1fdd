------------------------------ MODULE FrameQueue ------------------------------
(***************************************************************************)
(* What the receive side of the network card promises its driver: frames   *)
(* are handed over in the order in which they were accepted, each once and *)
(* as it came.  The card may refuse a frame; the driver may, when it       *)
(* recovers from an overflow, forget the newest ones, and a reset forgets  *)
(* them all.                                                               *)
(***************************************************************************)
EXTENDS Sequences, Naturals

CONSTANTS Frame, None

VARIABLES
  queue,
  delivered       \* the frame that is being handed over
vars == <<queue, delivered>>

Init == queue = <<>> /\ delivered = None

Accept == \E f \in Frame : queue' = Append(queue, f) /\ UNCHANGED delivered

Deliver ==
  /\ queue # <<>> /\ delivered = None
  /\ delivered' = Head(queue) /\ queue' = Tail(queue)

Taken == delivered' = None /\ UNCHANGED queue

Forget ==
  /\ \E n \in 0 .. Len(queue) : queue' = SubSeq(queue, 1, n)
  /\ delivered' \in {delivered, None}

Spec == Init /\ [][Accept \/ Deliver \/ Taken \/ Forget]_vars
=============================================================================
