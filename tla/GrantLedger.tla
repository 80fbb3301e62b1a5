----------------------------- MODULE GrantLedger -----------------------------
(***************************************************************************)
(* What the token endpoint promises about grants, whatever requests are    *)
(* under way: a code opens at most one grant; a grant holds at most one    *)
(* pair; a pair that left never returns; a grant that ended stays ended.   *)
(***************************************************************************)
CONSTANTS Codes, Legacy, Grants, Pairs

VARIABLES
  used,    \* the codes that have opened a grant
  status,  \* of each grant: "unborn", "open" or "closed"
  held     \* the pairs of each grant a client can use

vars == <<used, status, held>>

Init ==
  /\ used = {}
  /\ status = [g \in Grants |-> "unborn"]
  /\ held = [g \in Grants |-> {}]

(* A code is redeemed; its pair is not there yet.                          *)
OpenByCode(g, c) ==
  /\ status[g] = "unborn" /\ c \notin used
  /\ used' = used \cup {c}
  /\ status' = [status EXCEPT ![g] = "open"]
  /\ UNCHANGED held

(* A pair older than grant ids enters a grant when it is rotated.          *)
OpenByRotation(g) ==
  /\ status[g] = "unborn"
  /\ status' = [status EXCEPT ![g] = "open"]
  /\ UNCHANGED <<used, held>>

Issue(g, p) ==
  /\ status[g] = "open" /\ held[g] = {}
  /\ held' = [held EXCEPT ![g] = {p}]
  /\ UNCHANGED <<used, status>>

(* The presented pair is withdrawn; its successor is to follow.            *)
Withdraw(g) ==
  /\ status[g] = "open"
  /\ held' = [held EXCEPT ![g] = {}]
  /\ UNCHANGED <<used, status>>

(* Revocation, reuse, deletion, expiry or a lost request: the pairs of     *)
(* some grants go, and the grants nobody is rotating end with them.        *)
End(gone, ended) ==
  /\ ended \subseteq gone
  /\ \A g \in gone : status[g] = "open"
  /\ held' = [g \in Grants |-> IF g \in gone THEN {} ELSE held[g]]
  /\ status' = [g \in Grants |-> IF g \in ended THEN "closed" ELSE status[g]]
  /\ UNCHANGED used

Next ==
  \/ \E g \in Grants, c \in Codes : OpenByCode(g, c)
  \/ \E g \in Grants : OpenByRotation(g) \/ Withdraw(g)
  \/ \E g \in Grants : \E p \in Pairs \ UNION {held[h] : h \in Grants} : Issue(g, p)
  \/ \E gone \in SUBSET Grants : \E ended \in SUBSET gone : End(gone, ended)

Spec == Init /\ [][Next]_vars
==============================================================================
