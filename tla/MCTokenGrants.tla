---------------------------- MODULE MCTokenGrants ----------------------------
(* TokenGrants on a small instance: two accounts' worth of names are model  *)
(* values; the code and the legacy pair belong to the first account.        *)
EXTENDS TokenGrants, TLC, FiniteSets

CONSTANTS alice, web, none

MCOwner  == [s \in Codes \cup Legacy |-> alice]
MCClient == [s \in Codes \cup Legacy |-> web]

Symmetry == Permutations(Requests)
==============================================================================
