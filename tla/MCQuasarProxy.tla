---------------------------- MODULE MCQuasarProxy ----------------------------
(* Instances of QuasarProxy for TLC: one speaker each, served by one pod    *)
(* or by two.                                                               *)
EXTENDS QuasarProxy

CONSTANTS r1, r2, r3, c1, c2, p1, p2, d1, o1, f1

OneSpeaker == [s \in Ids |-> d1]
OnePod     == [r \in Senders |-> p1]
TwoPods    == [r \in Senders |-> IF r = r1 THEN p2 ELSE p1]
==============================================================================
