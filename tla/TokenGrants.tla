----------------------------- MODULE TokenGrants -----------------------------
(***************************************************************************)
(* The token endpoint of the hosted server (AUTH_REQUIRED, PostgreSQL):    *)
(* redemption of authorization codes, rotation of refresh tokens, the      *)
(* detection of replayed secrets, and the account operations that race     *)
(* with them (revoke, revoke-grant, delete, sign-in).                      *)
(*                                                                         *)
(* Every HTTP request is a process.  A request takes one step per awaited  *)
(* storage or upstream call, because that is where src/ gives up the event *)
(* loop and where another pod may run; each such call is atomic (one SQL   *)
(* statement or one transaction).                                          *)
(*                                                                         *)
(* Secrets come from crypto.randomUUID and never repeat, so whatever       *)
(* request r mints is named r: the access/refresh pair, the grant id and   *)
(* the Yandex token it obtains.                                            *)
(***************************************************************************)
EXTENDS Integers

CONSTANTS
  Users, Clients,
  Codes,        \* authorization codes approved before the behaviour starts
  Legacy,       \* token pairs issued before grant ids were recorded
  Requests,
  Owner,        \* the account a code or a legacy pair belongs to
  Client,       \* the MCP client it was issued to
  Renewable,    \* accounts whose Yandex link came with a refresh token
  None,         \* the absent value: undefined, or a missing row
  Ops,          \* the operations the environment may request
  Faults,       \* whether a request may die between two steps
  CodeTTL,      \* 5 minutes
  SpentTTL,     \* SPENT_CODE_TTL_MS, 1 hour
  TokenTTL,     \* 30 days
  Grace,        \* REFRESH_REUSE_GRACE_MS, 10 seconds
  RequestBound, \* how long a request may run after it spent its secret
  MaxTime       \* bound on the clock, for TLC

Operations == {"redeem", "refresh", "revoke", "revokeGrant", "erase", "signIn"}

ASSUME ParameterAssumption ==
  /\ Owner \in [Codes \cup Legacy -> Users]
  /\ Client \in [Codes \cup Legacy -> Clients]
  /\ Renewable \subseteq Users
  /\ Ops \subseteq Operations
  /\ Faults \in BOOLEAN

ASSUME TimeAssumption ==
  /\ {CodeTTL, SpentTTL, TokenTTL, Grace, RequestBound, MaxTime} \subseteq Nat
  /\ RequestBound <= SpentTTL

Pairs   == Legacy \cup Requests
Grants  == Requests
Secrets == Codes \cup Pairs
YandexTokens == Users \cup Requests   \* u: the token of u's first sign-in

Row == [owner: Users, client: Clients, grant: Grants \cup {None}, expires: Nat]
Spent == [grant: Grants, client: Clients, owner: Users,
          at: Nat, expires: Nat, reused: BOOLEAN]

ASSUME IdentityAssumption ==
  /\ Codes \cap Pairs = {}
  /\ Legacy \cap Requests = {}
  /\ None \notin Clients \cup YandexTokens \cup Secrets
  /\ None \notin Row
  /\ None \notin Spent

VARIABLES
  now,
  users,    \* table users: the accounts that exist
  creds,    \* table user_credentials: the Yandex token stored for a user
  codes,    \* table oauth_codes
  tokens,   \* table oauth_tokens: one row per pair
  spent,    \* table oauth_spent_secrets
  pc,       \* where each request is: the call it makes next, or how it ended
  arg,      \* the secret or the account the request is about
  by,       \* the client_id the request presents
  seen,     \* the row the handler read (authCode, existing)
  cur,      \* the credentials the handler read (current)
  fam,      \* the grant id the handler works on
  revoked,  \* history: grants alive when their owner revoked the client
  erased    \* history: grants alive when their owner deleted the account

tables  == <<users, creds, codes, tokens, spent>>
locals  == <<arg, by, seen, cur, fam>>
history == <<revoked, erased>>
vars    == <<now, tables, pc, locals, history>>

(* The calls of each kind of request, by what its argument is.             *)
CodeCalls    == { "consume", "vetCode", "mint", "recheck", "recallOwn",
                  "spentCode", "flag", "recallCode" }
RefreshCalls == { "vetPair", "readCreds", "renew", "reread", "reuser", "regrant",
                  "saveCreds", "rotate" }
PairCalls    == RefreshCalls \cup
                { "lookup", "remember", "mintNext", "spentPair", "recallPair", "revoke" }
AccountCalls == { "revokeGrant", "erase", "saveUser", "saveLink" }
Ended        == { "issued", "done", "failed", "dead" }
Labels       == CodeCalls \cup PairCalls \cup AccountCalls \cup Ended \cup {"idle"}

(* A request that has spent its secret and will insert a row holds its    *)
(* grant in hand, with no row to show for it.                             *)
Holding(r) == pc[r] \in {"vetCode", "mint", "remember", "mintNext"}

(* Every variable has its type, and every request has at hand what the     *)
(* call it is about to make needs.                                         *)
TypeOK ==
  /\ now \in Nat
  /\ users \subseteq Users
  /\ creds \in [Users -> YandexTokens \cup {None}]
  /\ codes \subseteq Codes
  /\ tokens \in [Pairs -> Row \cup {None}]
  /\ spent \in [Secrets -> Spent \cup {None}]
  /\ pc \in [Requests -> Labels]
  /\ arg \in [Requests -> Secrets \cup Users \cup {None}]
  /\ by \in [Requests -> Clients \cup {None}]
  /\ seen \in [Requests -> Row \cup {None}]
  /\ cur \in [Requests -> YandexTokens \cup {None}]
  /\ fam \in [Requests -> Grants \cup {None}]
  /\ revoked \subseteq Grants
  /\ erased \subseteq Grants
  /\ \A r \in Requests :
       /\ pc[r] \in CodeCalls => arg[r] \in Codes
       /\ pc[r] \in PairCalls => arg[r] \in Pairs
       /\ pc[r] \in AccountCalls => arg[r] \in Users
       /\ Holding(r) \/ pc[r] \in RefreshCalls => seen[r] # None
       /\ Holding(r) \/ pc[r] \in {"recheck", "recallOwn", "recallCode", "recallPair"} => fam[r] # None

------------------------------------------------------------------------------
(* Rows.  A row is expired when its expires_at is below Date.now().        *)

Live(p)    == tokens[p] # None /\ tokens[p].expires >= now
Recalls(s) == spent[s] # None /\ spent[s].expires >= now

Sweep(table) == [s \in DOMAIN table |->
                   IF table[s] # None /\ table[s].expires < now THEN None ELSE table[s]]

DropRows(P) == tokens' = [p \in Pairs |-> IF p \in P THEN None ELSE tokens[p]]

Family(g)    == {p \in Pairs : tokens[p] # None /\ tokens[p].grant = g}
RowsOf(u, C) == {p \in Pairs : tokens[p] # None /\ tokens[p].owner = u /\ tokens[p].client \in C}

GrantsOf(u, C) ==
  {g \in Grants : \/ Family(g) \cap RowsOf(u, C) # {}
                  \/ \E r \in Requests : /\ Holding(r) /\ fam[r] = g
                                         /\ seen[r].owner = u /\ seen[r].client \in C}

Init ==
  /\ now = 0
  /\ users = Users
  /\ creds = [u \in Users |-> u]
  /\ codes = Codes
  /\ tokens = [p \in Pairs |->
       IF p \in Legacy
       THEN [owner |-> Owner[p], client |-> Client[p], grant |-> None, expires |-> TokenTTL]
       ELSE None]
  /\ spent = [s \in Secrets |-> None]
  /\ pc = [r \in Requests |-> "idle"]
  /\ arg = [r \in Requests |-> None]
  /\ by = [r \in Requests |-> None]
  /\ seen = [r \in Requests |-> None]
  /\ cur = [r \in Requests |-> None]
  /\ fam = [r \in Requests |-> None]
  /\ revoked = {} /\ erased = {}

------------------------------------------------------------------------------
(* Control flow of one request.                                            *)

At(r, label) == pc[r] = label
Goto(r, label) == pc' = [pc EXCEPT ![r] = label]

(* The handler returns or throws: what it had read goes out of scope.      *)
Finish(r, label) ==
  /\ Goto(r, label)
  /\ seen' = [seen EXCEPT ![r] = None]
  /\ cur' = [cur EXCEPT ![r] = None]
  /\ UNCHANGED <<arg, by, fam>>

Start(r, op, label, what, client) ==
  /\ op \in Ops
  /\ At(r, "idle")
  /\ Goto(r, label)
  /\ arg' = [arg EXCEPT ![r] = what]
  /\ by' = [by EXCEPT ![r] = client]
  /\ UNCHANGED <<now, tables, seen, cur, fam, history>>

(* A step that reads and goes on to `yes' when ok holds, and ends the      *)
(* request otherwise.                                                      *)
Check(r, from, ok, yes) ==
  /\ At(r, from)
  /\ IF ok THEN Goto(r, yes) /\ UNCHANGED locals ELSE Finish(r, "failed")
  /\ UNCHANGED <<now, tables, history>>

(* The secrets a client can present: every code reached its client with   *)
(* the redirect, a pair only when the response that carries it was sent.  *)
Presentable(p) == p \in Legacy \/ (p \in Requests /\ pc[p] = "issued")

StartRedeem(r, c, k)  == Start(r, "redeem", "consume", c, k)
StartRefresh(r, p, k) == Presentable(p) /\ Start(r, "refresh", "lookup", p, k)

------------------------------------------------------------------------------
(* grant_type=authorization_code.                                          *)

CodesKept(c) == codes               \* faulty: SELECT where the code has DELETE
CodesLeft(c) == codes \ {c}

(* consumeAuthCode: one statement deletes the code and, unless it has      *)
(* expired, remembers it as spent on a fresh grant id.                     *)
Consume(r) ==
  LET c == arg[r]
      fresh == c \in codes /\ CodeTTL >= now
      row == [owner |-> Owner[c], client |-> Client[c], grant |-> r, expires |-> CodeTTL]
      memo == [grant |-> r, client |-> Client[c], owner |-> Owner[c],
               at |-> now, expires |-> now + SpentTTL, reused |-> FALSE]
  IN /\ At(r, "consume")
     /\ codes' = CodesLeft(c)
     /\ IF fresh
        THEN /\ spent' = [Sweep(spent) EXCEPT ![c] = IF @ = None THEN memo ELSE @]
             /\ seen' = [seen EXCEPT ![r] = row]
             /\ fam' = [fam EXCEPT ![r] = r]
             /\ Goto(r, "vetCode")
        ELSE /\ spent' = Sweep(spent)
             /\ Goto(r, "spentCode")
             /\ UNCHANGED <<seen, fam>>
     /\ UNCHANGED <<now, users, creds, tokens, arg, by, cur, history>>

(* The owner must exist and the client match; the code stays burnt when    *)
(* they do not.                                                            *)
VetCode(r) ==
  Check(r, "vetCode", seen[r].owner \in users /\ by[r] = seen[r].client, "mint")

(* The redirect_uri or the PKCE verifier presented is not the right one.   *)
WrongVerifier(r) == Check(r, "vetCode", FALSE, "mint")

(* saveToken, in either grant type.                                        *)
InsertPair(r) ==
  tokens' = [tokens EXCEPT ![r] = [owner |-> seen[r].owner, client |-> seen[r].client,
                                   grant |-> fam[r], expires |-> now + TokenTTL]]

Mint(r) ==
  /\ At(r, "mint")
  /\ InsertPair(r)
  /\ Goto(r, "recheck")
  /\ UNCHANGED <<now, users, creds, codes, spent, locals, history>>

NeverReplayed(c) == FALSE           \* faulty: no look back after saveToken
Replayed(c) == Recalls(c) /\ spent[c].reused

(* Was the code presented again while its tokens were being issued?        *)
Recheck(r) ==
  /\ At(r, "recheck")
  /\ IF Replayed(arg[r])
     THEN Goto(r, "recallOwn") /\ UNCHANGED locals
     ELSE Finish(r, "issued")
  /\ UNCHANGED <<now, tables, history>>

(* revokeGrantFamily, from the three places that call it.                  *)
Recall(r) ==
  /\ pc[r] \in {"recallOwn", "recallCode", "recallPair"}
  /\ DropRows(Family(fam[r]))
  /\ Finish(r, "failed")
  /\ UNCHANGED <<now, users, creds, codes, spent, history>>

AnyClient(r)  == TRUE               \* faulty: keyed on the code alone
SameClient(r) == spent[arg[r]].client = by[r]

(* The code is gone: presented again by its own client, it is flagged.     *)
SpentCode(r) == Check(r, "spentCode", Recalls(arg[r]) /\ SameClient(r), "flag")

(* flagSpentSecretReuse: the statement that flags also returns the grant.  *)
Flag(r) ==
  LET c == arg[r]
  IN /\ At(r, "flag")
     /\ IF Recalls(c)
        THEN /\ spent' = [spent EXCEPT ![c].reused = TRUE]
             /\ fam' = [fam EXCEPT ![r] = spent[c].grant]
             /\ Goto(r, "recallCode")
             /\ UNCHANGED <<arg, by, seen, cur>>
        ELSE Finish(r, "failed") /\ UNCHANGED spent
     /\ UNCHANGED <<now, users, creds, codes, tokens, history>>

------------------------------------------------------------------------------
(* grant_type=refresh_token.                                               *)

Lookup(r) ==
  LET p == arg[r]
  IN /\ At(r, "lookup")
     /\ IF Live(p)
        THEN seen' = [seen EXCEPT ![r] = tokens[p]] /\ Goto(r, "vetPair")
        ELSE UNCHANGED seen /\ Goto(r, "spentPair")
     /\ UNCHANGED <<now, tables, arg, by, cur, fam, history>>

(* The token is gone: one rotated more than the grace period ago is reuse. *)
SpentPair(r) ==
  LET p == arg[r]
  IN /\ At(r, "spentPair")
     /\ IF Recalls(p) /\ now - spent[p].at > Grace
        THEN /\ fam' = [fam EXCEPT ![r] = spent[p].grant]
             /\ Goto(r, "recallPair")
             /\ UNCHANGED <<arg, by, seen, cur>>
        ELSE Finish(r, "failed")
     /\ UNCHANGED <<now, tables, history>>

VetPair(r) ==
  Check(r, "vetPair", seen[r].owner \in users /\ by[r] = seen[r].client, "readCreds")

ReadCreds(r) ==
  LET c == creds[seen[r].owner]
  IN /\ At(r, "readCreds")
     /\ IF c # None
        THEN /\ cur' = [cur EXCEPT ![r] = c]
             /\ Goto(r, "renew")
             /\ UNCHANGED <<arg, by, seen, fam>>
        ELSE Finish(r, "failed")
     /\ UNCHANGED <<now, tables, history>>

(* The call to oauth.yandex.ru, when the link can be renewed; it may be    *)
(* refused.                                                                *)
Renew(r) ==
  \/ Check(r, "renew", TRUE, "reread")
  \/ At(r, "renew") /\ seen[r].owner \in Renewable /\ Check(r, "renew", FALSE, "reread")

Reread(r)  == Check(r, "reread", creds[seen[r].owner] = cur[r], "reuser")
Reuser(r)  == Check(r, "reuser", seen[r].owner \in users, "regrant")
Regrant(r) == Check(r, "regrant", Live(arg[r]), "saveCreds")

(* saveUserCredentials: the foreign key refuses a user who is gone.        *)
SaveCreds(r) ==
  LET u == seen[r].owner
      renewed == IF u \in Renewable THEN r ELSE cur[r]
  IN /\ At(r, "saveCreds")
     /\ IF u \in users
        THEN /\ creds' = [creds EXCEPT ![u] = renewed]
             /\ Goto(r, "rotate")
             /\ UNCHANGED locals
        ELSE UNCHANGED creds /\ Finish(r, "failed")
     /\ UNCHANGED <<now, users, codes, tokens, spent, history>>

DeleteIssued(p) == TRUE             \* faulty: ignores the DELETE's row count
RowFound(p)     == tokens[p] # None

FreshGrant(r)  == r                 \* faulty: every rotation starts a family
SeenGrant(r)   == seen[r].grant     \* faulty: no grant id for a legacy pair
GrantOfRotation(r) == IF seen[r].grant = None THEN r ELSE seen[r].grant

(* revokeToken: of two requests that present one token, the one whose      *)
(* DELETE finds the row goes on.                                           *)
Rotate(r) ==
  LET p == arg[r]
  IN /\ At(r, "rotate")
     /\ IF RowFound(p)
        THEN /\ DropRows({p})
             /\ fam' = [fam EXCEPT ![r] = GrantOfRotation(r)]
             /\ Goto(r, "remember")
             /\ UNCHANGED <<arg, by, seen, cur, history>>
        ELSE Finish(r, "failed") /\ UNCHANGED <<tokens, history>>
     /\ UNCHANGED <<now, users, creds, codes, spent>>

OwnLife(r) == seen[r].expires       \* faulty: forgotten with the old token's own life
KeepUntil(r) == IF seen[r].expires >= now + TokenTTL THEN seen[r].expires ELSE now + TokenTTL

(* recordSpentSecret: kept as long as the successor it protects.           *)
Remember(r) ==
  LET memo == [grant |-> fam[r], client |-> seen[r].client, owner |-> seen[r].owner,
               at |-> now, expires |-> KeepUntil(r), reused |-> FALSE]
  IN /\ At(r, "remember")
     /\ spent' = [Sweep(spent) EXCEPT ![arg[r]] = memo]
     /\ Goto(r, "mintNext")
     /\ UNCHANGED <<now, users, creds, codes, tokens, locals, history>>

MintNext(r) ==
  /\ At(r, "mintNext")
  /\ InsertPair(r)
  /\ Finish(r, "issued")
  /\ UNCHANGED <<now, users, creds, codes, spent, history>>

------------------------------------------------------------------------------
(* The operations that end a grant from outside, and signing in again.     *)

StartRevoke(r, p)         == Presentable(p) /\ Start(r, "revoke", "revoke", p, None)
StartRevokeGrant(r, u, k) == u \in users /\ Start(r, "revokeGrant", "revokeGrant", u, k)
StartErase(r, u)          == u \in users /\ Start(r, "erase", "erase", u, None)
StartSignIn(r, u)         == Start(r, "signIn", "saveUser", u, None)

(* POST /oauth/revoke.                                                     *)
Revoke(r) ==
  /\ At(r, "revoke")
  /\ DropRows({arg[r]})
  /\ Finish(r, "done")
  /\ UNCHANGED <<now, users, creds, codes, spent, history>>

(* POST /account/revoke-grant.                                             *)
RevokeGrant(r) ==
  /\ At(r, "revokeGrant")
  /\ DropRows(RowsOf(arg[r], {by[r]}))
  /\ revoked' = revoked \cup GrantsOf(arg[r], {by[r]})
  /\ Finish(r, "done")
  /\ UNCHANGED <<now, users, creds, codes, spent, erased>>

(* POST /account/delete: one transaction clears every owner-keyed table.   *)
Erase(r) ==
  LET u == arg[r]
  IN /\ At(r, "erase")
     /\ users' = users \ {u}
     /\ creds' = [creds EXCEPT ![u] = None]
     /\ codes' = {c \in codes : Owner[c] # u}
     /\ DropRows(RowsOf(u, Clients))
     /\ spent' = [s \in Secrets |->
                    IF spent[s] # None /\ spent[s].owner = u THEN None ELSE spent[s]]
     /\ erased' = erased \cup GrantsOf(u, Clients)
     /\ Finish(r, "done")
     /\ UNCHANGED <<now, revoked>>

(* GET /auth/callback: the account row, then its credentials.              *)
SaveUser(r) ==
  /\ At(r, "saveUser")
  /\ users' = users \cup {arg[r]}
  /\ Goto(r, "saveLink")
  /\ UNCHANGED <<now, creds, codes, tokens, spent, locals, history>>

SaveLink(r) ==
  /\ At(r, "saveLink")
  /\ IF arg[r] \in users
     THEN creds' = [creds EXCEPT ![arg[r]] = r] /\ Finish(r, "done")
     ELSE UNCHANGED creds /\ Finish(r, "failed")
  /\ UNCHANGED <<now, users, codes, tokens, spent, history>>

------------------------------------------------------------------------------
(* The environment.                                                        *)

(* The request dies where it stands: the pod is killed or storage fails.   *)
Fail(r) ==
  /\ Faults
  /\ pc[r] \notin Ended \cup {"idle"}
  /\ Finish(r, "dead")
  /\ UNCHANGED <<now, tables, history>>

(* ExpiredRecordPruner: rows every reader already treats as absent.        *)
Prune ==
  /\ codes' = IF CodeTTL < now THEN {} ELSE codes
  /\ tokens' = Sweep(tokens)
  /\ spent' = Sweep(spent)
  /\ <<codes, tokens, spent>>' # <<codes, tokens, spent>>
  /\ UNCHANGED <<now, users, creds, pc, locals, history>>

(* Time passes, but a request that has spent its secret completes within   *)
(* RequestBound of doing so.                                               *)
Tick ==
  /\ now < MaxTime
  /\ \A r \in Requests :
       pc[r] \in {"vetCode", "mint", "recheck", "mintNext"} /\ spent[arg[r]] # None
         => now + 1 <= spent[arg[r]].at + RequestBound
  /\ now' = now + 1
  /\ UNCHANGED <<tables, pc, locals, history>>

Begin(r) ==
  \/ \E c \in Codes, k \in Clients : StartRedeem(r, c, k)
  \/ \E p \in Pairs, k \in Clients : StartRefresh(r, p, k)
  \/ \E p \in Pairs : StartRevoke(r, p)
  \/ \E u \in Users, k \in Clients : StartRevokeGrant(r, u, k)
  \/ \E u \in Users : StartErase(r, u) \/ StartSignIn(r, u)

Step(r) ==
  \/ Consume(r) \/ VetCode(r) \/ WrongVerifier(r) \/ Mint(r) \/ Recheck(r) \/ Recall(r)
  \/ SpentCode(r) \/ Flag(r)
  \/ Lookup(r) \/ SpentPair(r) \/ VetPair(r) \/ ReadCreds(r) \/ Renew(r)
  \/ Reread(r) \/ Reuser(r) \/ Regrant(r) \/ SaveCreds(r)
  \/ Rotate(r) \/ Remember(r) \/ MintNext(r)
  \/ Revoke(r) \/ RevokeGrant(r) \/ Erase(r) \/ SaveUser(r) \/ SaveLink(r)

Next ==
  \/ \E r \in Requests : Begin(r) \/ Step(r) \/ Fail(r)
  \/ Prune
  \/ Tick

Spec == Init /\ [][Next]_vars

(* The event loop resumes every request whose call has been answered.      *)
FairSpec == Spec /\ \A r \in Requests : WF_vars(Step(r))

------------------------------------------------------------------------------
(* Properties.                                                             *)

Opened(g) == fam[g] = g      \* g is the id of a grant, not of a mere request

Quiet == \A r \in Requests : pc[r] \in Ended \cup {"idle"}

(* handleToken redeems a code at most once: no two requests ever get past  *)
(* consumeAuthCode with the same code, however they interleave.            *)
CodeRedeemedOnce ==
  \A r, q \in Requests :
    Opened(r) /\ Opened(q) /\ arg[r] = arg[q] /\ arg[r] \in Codes => r = q

(* A grant has at most one usable pair: rotation hands the grant from one  *)
(* pair to the next, and simultaneous refreshes with one token leave one   *)
(* winner.                                                                 *)
OneLivePair == \A g \in Grants : \A p, q \in Family(g) : p = q

(* The first half of what makes OneLivePair inductive: a grant is either in *)
(* a row or in the hands of one request that will insert one, never both.  *)
OneHolder ==
  /\ OneLivePair
  /\ \A r \in Requests : Holding(r) => fam[r] # None /\ Family(fam[r]) = {}
  /\ \A r, q \in Requests : Holding(r) /\ Holding(q) /\ fam[r] = fam[q] => r = q

(* The second half: where rows and grant ids come from.                    *)

(* A row is in the family its request worked on, once that inserted it.    *)
RowsHaveAnIssuer ==
  \A r \in Requests : tokens[r] # None =>
    /\ pc[r] \in {"recheck", "recallOwn", "issued", "failed", "dead"}
    /\ tokens[r].grant = fam[r] /\ fam[r] # None

(* Up to the call that spends its secret, a request works on no grant.     *)
Unspent == {"idle", "consume", "spentCode", "flag", "lookup", "spentPair"} \cup RefreshCalls
UnspentHaveNoGrant == \A r \in Requests : pc[r] \in Unspent => fam[r] = None

ArgumentsWereIssued == \A r \in Requests : pc[r] \in PairCalls => Presentable(arg[r])

(* What a refresh read of its row is still what the row says, if it is     *)
(* still there.                                                            *)
SeenIsCurrent ==
  \A r \in Requests : pc[r] \in RefreshCalls => tokens[arg[r]] \in {seen[r], None}

(* No request holds, and no row carries, a grant that was not opened; the  *)
(* pairs from before grant ids carry none.                                 *)
HeldGrantsAreOpen == \A r \in Requests : Holding(r) => Opened(fam[r])
GrantsOfRowsAreOpen ==
  \A p \in Pairs : tokens[p] # None =>
    IF p \in Legacy THEN tokens[p].grant = None ELSE Opened(tokens[p].grant)

(* A code that opened a grant is gone.                                     *)
OpenedCodesAreGone == \A r \in Requests : Opened(r) /\ arg[r] \in Codes => arg[r] \notin codes

(* What is remembered of a spent secret leads to the grant it was part of, *)
(* and for a code to the request that redeemed it.                         *)
SpentNamesItsGrant ==
  \A s \in Secrets : spent[s] # None =>
    /\ Opened(spent[s].grant)
    /\ s \in Codes => arg[spent[s].grant] = s

Provenance ==
  /\ RowsHaveAnIssuer /\ UnspentHaveNoGrant /\ ArgumentsWereIssued /\ SeenIsCurrent
  /\ HeldGrantsAreOpen /\ GrantsOfRowsAreOpen /\ OpenedCodesAreGone
  /\ SpentNamesItsGrant

(* "Either it revoked them or this check sees it" (handleToken): once a    *)
(* replay of a code has been flagged, the pair that was handed out for the *)
(* code is gone, or a replay that flagged it is about to remove it (or     *)
(* died before it could).                                                  *)
ReplayedCodeIsRecalled ==
  \A c \in Codes :
    spent[c] # None /\ spent[c].reused =>
      LET g == spent[c].grant
      IN tokens[g] # None /\ pc[g] = "issued" =>
           \E q \in Requests \ {g} :
             /\ arg[q] = c /\ fam[q] = g
             /\ pc[q] \in {"recallCode", "dead"}

(* Only the client a code was issued to can get its tokens revoked by      *)
(* presenting it again, and the recall reaches no other account or client. *)
CodeReplayStaysWithItsClient ==
  \A r \in Requests : pc[r] = "recallCode" =>
    \A p \in Family(fam[r]) : tokens[p].client = by[r] /\ tokens[p].owner = Owner[arg[r]]

(* A rotated refresh token is remembered as long as the pair that replaced *)
(* it can be used, up to the time its request took: reuse of the old one   *)
(* stays detectable while there is something to revoke.                    *)
SpentOutlivesSuccessor ==
  \A r \in Requests :
    arg[r] \in Pairs /\ pc[r] = "issued" /\ tokens[r] # None
      /\ tokens[r].grant \notin erased /\ tokens[r].expires >= now + RequestBound
    => Recalls(arg[r]) /\ spent[arg[r]].grant = tokens[r].grant

(* A flagged replay ends with the redeemed pair gone.                      *)
ReplayEndsTheGrant ==
  \A c \in Codes :
    (spent[c] # None /\ spent[c].reused) ~> (spent[c] = None \/ tokens[spent[c].grant] = None)

(* The grants as the clients see them: what the rows and the requests in   *)
(* flight add up to.                                                       *)
InHand(g)  == \E r \in Requests : Holding(r) /\ fam[r] = g
Status(g)  == IF ~Opened(g) THEN "unborn"
              ELSE IF Family(g) # {} \/ InHand(g) THEN "open" ELSE "closed"
Redeemed   == {c \in Codes : \E r \in Requests : Opened(r) /\ arg[r] = c}

Ledger == INSTANCE GrantLedger WITH
            used   <- Redeemed,
            status <- [g \in Grants |-> Status(g)],
            held   <- [g \in Grants |-> Family(g)]

(* The token endpoint implements the ledger: a code opens one grant, a     *)
(* grant has one pair at a time, and a grant that ended never comes back.  *)
ImplementsLedger == Ledger!Spec

------------------------------------------------------------------------------
(* What the documentation says and the code does not do.                   *)

(* A grant that was ended stays ended: once everything has settled, no     *)
(* pair works that belongs to a replayed code (rotated successors          *)
(* included), to a client the user revoked at /account, or to an account   *)
(* that was deleted, should it return.                                     *)
EndedGrantsStayEnded ==
  LET replayed == {spent[c].grant : c \in {d \in Codes : spent[d] # None /\ spent[d].reused}}
  IN Quiet => \A g \in revoked \cup erased \cup replayed :
                \A p \in Family(g) : tokens[p].owner \notin users
==============================================================================
