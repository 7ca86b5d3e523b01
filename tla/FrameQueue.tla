------------------------------ MODULE FrameQueue ------------------------------
(***************************************************************************)
(* What the ring between workThread() and pqBufferThread() promises: a      *)
(* first-in first-out queue of at most K frames.  A frame that finds it     *)
(* full is dropped; switching PQ on empties it.                             *)
(***************************************************************************)
EXTENDS Naturals, Sequences

CONSTANTS K, Frames

VARIABLE q

Init == q = <<>>

Put(f) == Len(q) < K /\ q' = Append(q, f)
Take == q # <<>> /\ q' = Tail(q)
Clear == q' = <<>>

Next == Take \/ Clear \/ \E f \in Frames : Put(f)

Spec == Init /\ [][Next]_q
==============================================================================
