------------------------------ MODULE BlockPort ------------------------------
(***************************************************************************)
(* What the block port promises both of its sides: a four-phase handshake  *)
(* for one block at a time.  The request names an operation, a drive and a *)
(* sector; it is acknowledged once, on that drive's line; the operation is *)
(* withdrawn under the acknowledge, and the acknowledge falls before       *)
(* anything else is asked.  Drive and sector do not change from the        *)
(* request to the end of the acknowledge.                                  *)
(***************************************************************************)
EXTENDS Naturals

CONSTANTS Drives, Operations

VARIABLES phase, request, acks
vars == <<phase, request, acks>>

NoRequest == [op |-> "none", drv |-> 0, lba |-> 0]
Requests == [op : Operations, drv : Drives, lba : Nat]

Init == phase = "idle" /\ request = NoRequest /\ acks = {}

Ask ==
  /\ phase = "idle" /\ phase' = "asked"
  /\ request' \in Requests
  /\ UNCHANGED acks

Acknowledge ==
  /\ phase = "asked" /\ phase' = "acknowledged"
  /\ acks' = {request.drv}
  /\ UNCHANGED request

Withdraw ==
  /\ phase = "acknowledged" /\ phase' = "withdrawn"
  /\ request' = [request EXCEPT !.op = "none"]
  /\ UNCHANGED acks

Release ==
  /\ phase = "withdrawn" /\ phase' = "released"
  /\ acks' = {}
  /\ UNCHANGED request

Finish ==
  /\ phase = "released" /\ phase' = "idle"
  /\ request' = NoRequest
  /\ UNCHANGED acks

Next == Ask \/ Acknowledge \/ Withdraw \/ Release \/ Finish

Spec == Init /\ [][Next]_vars
=============================================================================
