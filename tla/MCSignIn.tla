------------------------------ MODULE MCSignIn ------------------------------
(* An instance of SignIn for TLC: mixes of requests that can meet.          *)
EXTENDS SignIn, TLC

CONSTANTS r1, r2, r3, r4, r5

Mix(a, b, c, d, e) == (r1 :> a) @@ (r2 :> b) @@ (r3 :> c) @@ (r4 :> d) @@ (r5 :> e)

Mixes ==
  {Mix("erase", "authorize", "answer", "login", "callback"),
   Mix("authorize", "answer", "answer", "logout", None),
   Mix("authorize", "authorize", "answer", "register", None),
   Mix("login", "callback", "login", "saveToken", None),
   Mix("login", "callback", "saveToken", "erase", None),
   Mix("qr", "poll", "poll", "poll", None),
   Mix("qr", "poll", "poll", "erase", None)}

Alike == Permutations(Browsers) \cup Permutations(Accounts) \cup Permutations(Uris)
==============================================================================
