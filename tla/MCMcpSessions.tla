--------------------------- MODULE MCMcpSessions ---------------------------
(* An instance of McpSessions for TLC: an account with two grants of one    *)
(* client.                                                                  *)
EXTENDS McpSessions, TLC

CONSTANTS r1, r2, r3, t1, t2, u, c, p, q

OneUser   == [t \in Tokens |-> u]
OneClient == [t \in Tokens |-> c]

A(kind, token, pod, to) == [kind |-> kind, token |-> token, pod |-> pod, to |-> to]
Three(a, b, e) == (r1 :> a) @@ (r2 :> b) @@ (r3 :> e)

Mixes ==
  {Three(A("rpc", t1, p, None), A("rest", t2, p, None), None),
   Three(A("rpc", t1, p, None), A("delete", t2, q, None), None),
   Three(A("stream", t1, p, None), A("message", t1, p, r1), A("revoke", t1, p, None)),
   Three(A("stream", t1, p, None), A("message", t1, p, r1), A("delete", t2, q, None)),
   Three(A("stream", t1, p, None), A("message", t2, p, r1), None),
   Three(A("stream", t1, p, None), A("stream", t2, p, None), A("revokeGrant", t1, p, None)),
   Three(A("stream", t1, q, None), A("stream", t2, p, None), A("delete", t1, p, None)),
   Three(A("stream", t1, p, None), A("revoke", t1, p, None), A("delete", t1, p, None))}
============================================================================
