---------------------------- MODULE MCCredentials ----------------------------
(* Instances of Credentials for TLC: two requests that renew tokens for a    *)
(* tool call, and one of every other kind.                                  *)
EXTENDS Credentials, TLC

CONSTANTS call1, call2, cookie, token, connect, disconnect, signin, delete

KindOf ==
  [r \in Requests |->
     CASE r \in {call1, call2} -> "call"
       [] r = cookie -> "cookie" [] r = token -> "token"
       [] r = connect -> "connect" [] r = disconnect -> "disconnect"
       [] r = signin -> "signin" [] r = delete -> "delete"]

SameKind == Permutations({call1, call2})
==============================================================================
