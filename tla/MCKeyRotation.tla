---------------------------- MODULE MCKeyRotation ----------------------------
(* Instances of KeyRotation for TLC: two pods, the first serves the requests. *)
EXTENDS KeyRotation, TLC

CONSTANTS p1, p2, w1, w2

OnFirst == [w \in Writers |-> IF w = w1 THEN p1 ELSE p2]
==============================================================================
