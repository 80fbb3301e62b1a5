# mctl-alice: TLA+ models and proofs

mctl-alice is an MCP server that lets AI assistants operate a Yandex smart home. The hosted
server (`AUTH_REQUIRED`, PostgreSQL, any number of pods) is an OAuth authorization server for the
assistants, a keeper of the users' Yandex credentials, and a client of two Yandex APIs. This
directory models the parts of it whose correctness depends on the order in which requests,
storage calls, upstream calls, crashes and clocks interleave.

Paths below are relative to the repository; line numbers are those of the modelled commit.

## 1. The system

| Component | State | Operations | Interacts with |
|---|---|---|---|
| Token endpoint (`auth/oauth-controller.ts` `handleToken`, `handleRevoke`) | `oauth_codes`, `oauth_tokens`, `oauth_spent_secrets` | redeem a code, rotate a refresh token, revoke | credentials (reads and renews the Yandex token), Yandex OAuth |
| Consent (`handleAuthorize`, `approveAuthorization`, `denyAuthorization`) | `oauth_pending` | open, approve, deny | issues codes to the token endpoint; web sessions |
| Client registration and metadata | `oauth_clients` | register, fetch a client id metadata document | upstream fetch with guards |
| Browser sign-in (`/auth/login`, `/auth/callback`, POST `/auth/save-token`) | `browser_transactions`, `users`, `web_sessions` | start, complete | Yandex OAuth; credentials |
| QR sign-in (`auth/yandex-qr-auth.ts`) | `browser_transactions` (one session per QR code) | create, poll | Yandex passport; credentials |
| Stored credentials (`user_credentials`) | one row per user: Yandex tokens, Quasar cookie | renewals, connect, disconnect, sign-in, deletion | every other component |
| Quasar proxy scenarios (`client/quasar-client.ts`) | scenarios in the user's Yandex account, `quasar_proxy_scenarios`, the lock map of the process | say, command, clean up | Yandex Quasar |
| Smart Home client (`client/yandex-api.ts`, `client/upstream.ts`) | token of one request | call with one refresh and one retry | Yandex Smart Home API, credentials |
| Station service and tools (`services/station-service.ts`, `tools/`) | a short-lived cache of the device list | resolve a name, act | both clients |
| MCP transport (`server/http-server.ts`) | `sseTransports`, `sseOwners`, readiness | JSON-RPC, SSE, close sessions | token check on each call |
| Limits (`server/rate-limit.ts`, `request-body.ts`, `public-stats.ts`) | sliding windows, buckets | admit, evict | every route |
| Keys (`storage/crypto.ts`, `credential-rotation.ts`, `restore-check.ts`) | ciphertexts of every table | encrypt, re-encrypt, rehash | all storage |
| Background work (`services/expired-records.ts`, `telemetry-*.ts`) | timers | prune, sample, retain | storage |
| Local mode (`storage/oauth-storage.ts`, `auth/oauth-helper.ts`, `token-storage.ts`, `cli.ts`) | SQLite, keychain, `.env` | one user, one process | |

What is hard in it:

* **Requests interleave at every `await`**, and pods at every SQL statement. There are no row
  locks and, but for `deleteUser`, no transactions: each handler is a sequence of single
  statements, and what one of them read may be stale when the next one runs.
* **A secret is presented twice**: by a client that lost the answer, by two tabs, or by a thief.
  The server must tell rotation from reuse without remembering who asked.
* **A pod dies between two statements**, or the pool has no connection to give for minutes (it
  has no statement timeout).
* **Upstream calls have deadlines**; a call that timed out may still have had its effect.
* **Clocks**: codes live 5 minutes, spent codes are remembered for an hour, pairs live 30 days,
  reuse has a grace of ten seconds.

What makes each component correct: a code is redeemed once, a grant has one usable pair, what a
user ended stays ended (token endpoint); one approval, one code (consent); a stored credential is
never replaced by an older one, nor a removed one brought back (credentials); a trigger speaks the
words of the request that pulled it, and cleanup removes all of the server's scenarios and none of
the user's (Quasar); a closed session is gone (MCP transport); no client is admitted more often
than its window allows, and none is locked out for ever (limits); a value stays readable through
a key rotation (keys); timers neither overlap nor outlive `stop` (background).

## 2. Plan

| Order | Modules | Models | State |
|---|---|---|---|
| 1 | `TokenGrants`, `GrantLedger`, `TokenGrants_proofs`, `Replay_proofs` | token endpoint and account operations; what it promises; theorems | done |
| 2 | `QuasarProxy`, `QuasarProxy_proofs` | line per speaker, PUT and trigger, ownership, cleanup; theorems | done |
| 3 | `Credentials`, `Credentials_proofs` | the writers of `user_credentials`; theorems | done |
| 4 | `KeyRotation`, `KeyRotation_proofs` | the re-encryption pass beside writers, through the steps of the operator; theorems | done |
| 5 | `SignIn` | sign-in, consent, registration, QR sign-in, log-out, deletion: requests tied together by expiring rows and cookies | done |
| 6 | `Commands` | the tools: name resolution, the cached device list, Quasar with its fallback, the deadlines of the Smart Home client | done |
| 7 | `McpSessions` | bearer checks, batches, event streams and the operations that close them | done |
| 8 | `SignIn_proofs`, `McpSessions_proofs`, `Commands_proofs` | theorems about the last three | done |

Each `X_proofs` holds the theorems about `X` (`Replay_proofs` the rest of those about `TokenGrants`); each `MCX` gives its constants their values and each
`X_*.cfg` is one run. `TokenGrants` is shown to implement `GrantLedger`. The other modules stand
alone and meet at the tables: a code that `SignIn` saves is one that `TokenGrants` starts with, the
rows that `TokenGrants` removes are the `live` tokens of `McpSessions`, what a tool does once
`McpSessions` lets it run is `Commands`, and the single request to Quasar of `Commands` is the whole
of `QuasarProxy`.

Every invariant and every action property that a passing run checks, and the refinement, is also a
theorem for all values of the constants. Three properties are left to TLC, all of them liveness
(section 11).

## 3. The token endpoint: `TokenGrants`

### Correspondence

Every HTTP request is a process (a member of `Requests`). `pc[r]` names the storage or upstream
call the handler makes next, and an action makes that one call and runs on to the next `await`:

| Code (`oauth-controller.ts`) | Labels and actions |
|---|---|
| 741 `consumeAuthCode` | `Consume` |
| 752-770 owner, client, redirect, PKCE | `VetCode`, `WrongVerifier` |
| 777 `saveToken`, 792 look back, 793 recall | `Mint`, `Recheck`, `Recall` |
| 743-747 replayed code | `SpentCode`, `Flag`, `Recall` |
| 811 lookup, 815-816 reuse | `Lookup`, `SpentPair`, `Recall` |
| 820-842 vetting, credentials, Yandex refresh | `VetPair`, `ReadCreds`, `Renew` |
| 845-848 second look and save | `Reread`, `Reuser`, `Regrant`, `SaveCreds` |
| 854 `revokeToken`, 859 `recordSpentSecret`, 866 `saveToken` | `Rotate`, `Remember`, `MintNext` |
| `/oauth/revoke`, `/account/revoke-grant`, `/account/delete`, `/auth/callback` | `Revoke`, `RevokeGrant`, `Erase`, `SaveUser` then `SaveLink` |
| `ExpiredRecordPruner.runOnce` | `Prune` |
| a thrown storage error, a killed pod | `Fail` |

The variables `users`, `creds`, `codes`, `tokens`, `spent` are the tables of the same meaning;
`seen`, `cur`, `fam` are the handler's locals `authCode`/`existing`, `current` and `grantId`.
Secrets are random UUIDs and never repeat, so the pair, the grant id and the Yandex token a request
creates are named after the request. `revoked` and `erased` are history variables: no action
reads them.

Abstractions: scopes are not modelled (a scope the grant does not include ends the request before
it changes anything, like a client mismatch); redirect URI and PKCE checks are one guard that may
fail (`WrongVerifier`); an access token and its refresh token are one row and are presented
as one secret; a refresh that omits `client_id` is one that presents the right client, as the code
treats it. The statement that deletes expired spent secrets and the one that follows it in
`consumeAuthCode` and `recordSpentSecret` are one step: every reader ignores expired rows
already.

### What the runs show

`MCTokenGrants` gives one account, two clients, one code and one legacy pair (from before grant
ids). The single account is enough because a row is only ever matched by equality with its own
owner, client, grant or secret; two clients are needed for a replay by a stranger.

| Run | Question | Bounds |
|---|---|---|
| `TokenGrants_all` | Whatever four requests do and wherever they die: `CodeRedeemedOnce`, `OneHolder`, `Provenance`, `ReplayedCodeIsRecalled`, `CodeReplayStaysWithItsClient`, and the refinement `ImplementsLedger` of `GrantLedger` | clock stopped: a replay, the redeemer, a refresher and an account operation overlap in every order |
| `TokenGrants_clock` | while everything expires and is pruned: `SpentOutlivesSuccessor`, and `ReplayEndsTheGrant` under fairness | three requests that redeem, replay, refresh or delete; `MaxTime` 3, past the life of a code, of a spent code and of a pair |
| `TokenGrants_ended` | *violated:* what a replay, a revocation or a deletion ended stays ended | |

The shortest counterexample of `TokenGrants_ended` is a revocation in the middle of a refresh.
While a refresh is between `revokeToken` (854) and `saveToken` (866), the grant exists only in the
memory of the request: whatever revokes by deleting rows (a replayed code, "revoke" on the account
page, deleting the account followed by signing in again) finds none, and the row appears
afterwards. The authorization-code branch has a look back (792) for this; the refresh branch has
none. The invariant `OneHolder` says exactly when a grant is in that state.

Deadlock checking is off in these runs because a finite set of requests ends.

Fairness: `FairSpec` asks only that a request whose call has been answered goes on (weak fairness
of `Step(r)` for each request), which the event loop gives. Nothing obliges a client to make a
request, time to pass, or the pruner to run. The run has `Faults = FALSE`: a pod that dies after
flagging a code does leave the pair in place.

Time: `RequestBound` says how long a request may run after spending its secret; the code has no
such bound, so properties that depend on it (`SpentOutlivesSuccessor`) name it.

### What is proved

`TokenGrants_proofs` proves, for every set of accounts, clients, codes, legacy pairs and requests
and every choice of the time constants that satisfies the three assumptions of the module:

* `TypeCorrect`: `Spec => []TypeOK`.
* `OnePairPerGrant`: `Spec => []OneHolder`.
* `GrantsAreAccountedFor`: `Spec => []Provenance`.
* `SingleUse`: `Spec => []CodeRedeemedOnce`.

`OneLivePair` alone is not inductive: `MintNext` would break it if another row of the grant existed
at that moment. `OneHolder` adds that a grant is either in a row or held by one request. That in
turn needs to know that the row a refresh saw is still the row it deletes (`SeenIsCurrent`), that
request ids are used for one grant only (`UnspentHaveNoGrant`, `HeldGrantsAreOpen`,
`GrantsOfRowsAreOpen`), and that a row with a grant id was inserted by the request it is named
after (`RowsHaveAnIssuer`). `Inductive` is their conjunction. The step proof groups the actions by
what they do to a grant: `Forward` (rows may go, nothing is taken), `NamingInductive` (a request
learns a grant id), `TakingInductive` (a secret leaves its table and the request holds the grant),
`InsertInductive` (the held grant becomes a row). `SingleUse` follows from `OpenedCodesAreGone` by
`OpensByTaking`: the only step that opens a grant for a code takes the code out of its table.

`EndpointKeepsTheLedger` is the refinement, `Spec => ImplementsLedger`. A grant is
opened in the ledger by the step that takes a secret out of its table (`OpensByTaking`); `Shrinks` shows
that a step which opens nothing and leaves each grant with the pairs and the holder it had, or fewer,
is an `End` of the ledger or a stutter; the remaining ones hand a grant from one holder or pair to the
next.

`Replay_proofs` has the three theorems about a secret that is presented again. Each adds an
invariant of its own to `Inductive`:

* `ReplaysAreTheClients` (`CodeReplayStaysWithItsClient`) rests on `Personal`: the rows of a grant
  have the account and client of the code it began with, a spent code keeps its client, and a
  request that flags or recalls presented the code as that client.
* `ReplaysAreRecalled` (`ReplayedCodeIsRecalled`) rests on `Recalled`: what is remembered of a code
  lasts `SpentTTL` from the moment it was taken (`SpentCodesKeepTheirHour`), and a request that took
  one is no older than `RequestBound` (`RedemptionsAreInTime`). With `RequestBound <= SpentTTL`, the
  second half of "either it revoked them or this check sees it" (790) always finds the flag.
* `RotatedAreRemembered` (`SpentOutlivesSuccessor`) rests on `Remembered`: a pair is withdrawn by
  one request, which is in time, and until that request has inserted the successor the spent secret
  is remembered long enough (`RotationIsRemembered`, `SuccessorIsCovered`).

Model-checked only: `ReplayEndsTheGrant`, which is liveness.

## 4. Speech through Quasar: `QuasarProxy`

### Correspondence

One hosted user. A sender is a call of `sendTts` or `sendCommand`, a cleaner a request to
`/account/disconnect-quasar` or `/account/delete`; a step is one awaited call.

| Code | Actions |
|---|---|
| `quasar-client.ts` 172-190 `runWithLock` | `Enqueue` (the synchronous part), `Acquire`, `Release` (its `finally`) |
| 368 list, 409-417 choice, 419 POST, 435 record | `List`, `Adopt`, `Create`, `Record`; `NotRead` when one of the reads fails |
| PUT and trigger | `Put`, `Trigger` |
| 525-550 `cleanupAllProxyScenarios` | `ListRecorded`, `ListAll`, `Delete` (one scenario), `Swept`, `Forget` |
| `http-server.ts` 1864-1922 | `StartClean`, `Count`, `GiveUp`, `Unlink`, `ForgetAgain` |
| Yandex, the user, the platform | `Apply`, `Lost`, `Land`; `Rename`; `Crash` |

`tail` is `sharedLocks` (one line per pod and speaker), `prev` the promise a request awaits,
`owned` the table `quasar_proxy_scenarios`, `linked` whether the cookie is stored. `ticket`, `said`
and `left` are history variables. A call to Yandex is answered, or its answer is lost with or
without effect, or (`Late`) it takes effect at any later time. Only the name, the speaker and the
words of a scenario are kept. The check of the bearer, which reads the row with the cookie
(`http-server.ts` 546), and the joining of the line are one step: a request admitted before a
disconnect and not yet in the line is in the model one that joined before it. Left out: the CSRF
token and the renewed cookie (`Credentials` has the latter's write); `deleteSpeakerScenario`, which
nothing calls; and the `triggerCallback` that nothing passes.

### Runs

| Run | Question | Bounds |
|---|---|---|
| `QuasarProxy_line` | `Exclusive`, `InTurn`, `OwnWords`, and `EveryTurnComes` under fairness | three senders, one pod and speaker, a proxy from before and a scenario of the user's; calls fail and the pod dies. Three is the least number for a line to be forgotten while somebody stands in it |
| `QuasarProxy_pods` | `CleanupComplete`, `ForeignKept` | two pods and a cleaner; late calls, renames |
| `QuasarProxy_leftbehind` | *violated:* after a cleanup that reports success no proxy is left | without any failure |

`CleanupComplete` promises the weaker thing the code can keep: of the proxies that were there when
the cleanup began, and that no request has written to since, none is left if it reports success.
`QuasarProxy_leftbehind` shows why it must be weaker.

What a cleaner can find (`left`) depends on the cookie. With it, these are the proxies in the list;
without it, those whose record it reads (1868). This matters with two cleaners, and it was the
attempt at the proof that brought it up: a disconnect that fails to delete a proxy still removes the
cookie (1912); if that proxy was never recorded, because the pod died between POST and INSERT,
the next disconnect counts no records and reports that nothing is left. The comment at 1862 asks for
`false` "when that could not be done", which the server can no longer know.

Fairness: weak fairness of `Send(r)` for each sender. Every fetch has an `AbortSignal` deadline and
storage answers or fails, so a call in flight ends. `EveryTurnComes` counts a sender whose pod died
as ended.

### Proofs

For every number of senders, cleaners, pods and speakers: `TypeCorrect`, `OneAtATime`
(`Exclusive`), `FirstComeFirstServed` (`InTurn`), `UsersScenariosKept` (`ForeignKept`), and
`WordsAreOwn` (`OwnWords`) under two assumptions it names: a speaker is served by one pod
(`OnePodEach`; the comment at `quasar-client.ts` 127 states this limit) and nothing arrives late.

`Exclusive` is not inductive: nothing in it says that the one a sender awaits is the last before
it. `Line` describes the line: distinct tickets; the tail of a line is active and has the highest
ticket of it; and of two active senders of one line the later waits, and waits for a sender that
is no earlier than the other one. The cases of its step are `LineGrows`, `LineEntered`,
`LineShrinks`, `LineLost` and, for everything else, `LineUnseen`. `ForeignKept` rests on `Known`:
ids the server holds (records, lists to delete, calls in flight) are never the user's, because a
list entry is believed only under the exact generated name, which the user's scenarios never have.
`Written` says that a scenario about to be triggered speaks the words of the request that will
trigger it, and follows from `Line` because senders at work on one scenario are one sender.

`SuccessMeansClean` (`CleanupComplete`) rests on two invariants. `BornOnce`: a scenario that its sender has
yet to create, or whose creation was given up and may still land, is not there and in nobody's
`left`; so what a cleaner found cannot be created again behind its back. `Cleaned`: what a cleaner
found and has not failed to remove is on its list as long as it deletes, and gone afterwards.

Model-checked only: `EveryTurnComes`, which is liveness.

## 5. Stored credentials: `Credentials`

### Correspondence

The row of `user_credentials` of one user, and every writer of it as a kind of request; an action
is one storage or upstream call.

| Kind | Code | Calls |
|---|---|---|
| `call` | `http-server.ts` 546-552 `onRefresh`, `yandex-api.ts` 127-145 | `renew`, `exists`, `checkAccess`, `save` |
| `token` | `oauth-controller.ts` 828-849 | `renew`, `checkAccess`, `exists`, `save` |
| `cookie` | `http-server.ts` 557-563 `onCookieRefresh` | `checkCookie`, `exists`, `save` |
| `connect`, `disconnect` | QR status, save-cookie, disconnect-quasar | `read`, `save` |
| `signin` | `/auth/callback` 2062-2077, POST `/auth/save-token` 2178-2199 | `saveUser`, `read`, `save` |
| `delete` | `deleteUser`, one transaction | `erase` |

`snap` is what a request was admitted with, `cur` the row it last read, `new` what Yandex answered.
`Merged` is the upsert's `COALESCE` of the refresh token and `HasOwner` its foreign key. The row that
`saveUserCredentials` itself reads (351) matters to sign-in only, the one caller that passes no
cookie: it is `read` there. A token is the sign-in it stems from and the request that got it; a cookie likewise.
`bare` are the sign-ins that came with an access token alone: Yandex may answer a code without a
refresh token, and the callback page posts none to `/auth/save-token`. A renewal (`Renewed`,
`RefreshAfter`) yields tokens of the sign-in its refresh token stems from, and keeps that refresh
token unless Yandex sends another. `cut`, `over`, `racers`, `back` and `undone` are history variables. `Fail` stands for every thrown error and for
the death of the pod at any call. `revoked` holds the token requests whose grant went with the
account while they ran: `Exists` refuses them ("Grant revoked", `oauth-controller.ts` 845). Without
that check `OverForGood` is not even true: a request admitted with a refresh token alone compares no
access token with none, and would bring back the tokens of a deleted account after its user signed
in again. That the grant may be missing for other reasons is part of `Fail`.

### Runs

`Credentials_any`: eight requests, one of each kind and a second `call`, of which any `MaxBusy = 4`
run, with each of the two sign-ins (the stored one and the one that comes) with or without a
refresh token: all triples and quadruples of writers, in every interleaving with every failure. The two
calls are alike, so the run is symmetric in them. It checks `NoOrphanRow`, `PairMatches`,
`OverForGood` and `CutForGood` (8.9 million states, two minutes).

The upsert's `COALESCE` decides what the two properties about tokens can say. A sign-in without a
refresh token leaves the older one in the row, beside its own access token; the next renewal then
stores tokens of the *earlier* sign-in again, with no race at all. So `PairMatches` allows a foreign
refresh token only beside an access token of a `bare` sign-in, and `OverForGood` calls a sign-in over
when the row holds no token of it any more, neither access nor refresh: replaced by a sign-in that
brought both, renewed away, or deleted. Both would be violated by a renewal that forgot the refresh
token Yandex did not replace (`OnlyReplaced`). They do not say which of two pairs of one sign-in
wins: a disconnect that reads the row before a renewal and writes it after stores the older pair
again (`http-server.ts` 1914), and nothing in the code prevents it.

`OverForGood` and `CutForGood` say that what was cut comes back only through a
request that had already read the row when it was cut (`back` are the cookies such requests have
stored; others copy those in good faith); `Credentials_disconnected` (*violated*)
shows that this exception is real: a tool call renewing its token checks the access token only and
writes back the whole row, cookie included.

### Proofs

For any number of requests of any kinds: `TypeCorrect`, `NoRowWithoutUser` (`NoOrphanRow`),
`TokensMatch` (`PairMatches`), `CutStaysCut` (`CutForGood`). `PairsInv` is stronger
than `PairMatches`: in the row, and in whatever a request may write to it, an access token of a
sign-in that brought a refresh token comes with a refresh token of the same one, so that the upsert
keeps a refresh token only for a `bare` sign-in, or beside no access token. `CutInv` adds to `CutForGood` that a cookie is known only once its connect has saved
it (so nothing can be cut before it is stored), that a renewed cookie replaces the one it was
renewed from, and that a request holding a cookie that has been cut is among the `racers`, unless one of those had stored it
(`back`).

`OverStaysOver` (`OverForGood`) rests on `OverInv`. Like `CutInv` it says that a sign-in is known only
once it is stored (`SignInsKnown`) and that a request about to save tokens of a sign-in that is over
is among the `racers`; what Yandex answered stems from what was sent (`AnswersMatch`). The hard part is
a renewal of such a sign-in that has not compared yet (`Stale`): the access token in the row, and in
whatever will be saved, is another than it started from, so that its comparison fails. That holds of
one admitted with a refresh token alone, too, which compares no access token with none.

## 6. Retiring an encryption key: `KeyRotation`

### Correspondence

The operator follows the steps of the README ("Rotating the encryption key"): `step` is the
configuration that pods start with, `config` what each pod did start with. `Advance` goes to the next
step once every pod runs with the current one and, before removing the old key, once a start has
reported nothing stale. `Start` restarts a pod at any time and begins its pass
(`postgres-storage.ts` 86-93); `Scan`, `Rewrite` and `PageDone` are the loop of `rotateCredentials`
(265-291): one SELECT of a page, one conditional UPDATE per value, and the next page after the last
row of a full one. `Stop` is a query that fails. `Encrypt` and `Write` are a request that seals a
value with the active key of its pod and sends it later; `Remove` deletes a row.

A sealed value is a key and a text. The three tables are paged in the same way one after the
other and are one table; values sealed with a key that no longer exists (`Lost`) are there from the
start. A v1 value is one under an `Old` key without an id (`Named = FALSE`).

### Run

`KeyRotation_steps`: two pods, two rows of one column, pages of one row, a request, and `MaxSpare`
1 restart beyond those the steps need. A page of one row makes every page full, the case where
paging could skip rows or repeat itself. It checks `TextKept` (no value is lost, changed or
restored by the pass), `Readable` (no pod meets a value under a key it lacks, but for `Lost` ones),
`NothingStaleLeft` (a rewrite that ran to its end leaves nothing under the old key), and, under weak
fairness of each pass, `EveryPassEnds`. The queries of a pass are answered or fail, and a failure
ends it. A request whose SQL is executed only after its pod was replaced is not modelled.

### Proofs

For any number of pods, rows, requests and restarts and any size of a page: `TypeCorrect`,
`NothingLost` (`TextKept`), `EveryKeyAtHand` (`Readable`) and `NothingStaleAfterPass`
(`NothingStaleLeft`). `TextKept` needs only `SealedOwn`: what a request sealed is its own, under
the key its pod writes with. The other two follow from `Rotating`. `KeysInStep` says that a pod is
at most one step behind the operator, that nothing is under the new key before a pod may write
with it, and that nothing is under the old one once it is retired; the last part holds at
`Advance` because of `OldIsAhead`: while a pod rewrites, every value under the old key is ahead of
its pass, or on its page and unchanged since it was read. That is kept because every pod writes
with the new key by then (`NewIsActive`), so values under the old key can only go, and because a
page that leaves rows out is a full one (`ScanMoves`). The proof shows that the condition that the
*report* be clean is not needed: a rewriting pass that ran to its end is enough.

## 7. The browser side: `SignIn`

### Correspondence

A request of a browser (or of an OAuth client, for `register`) is a process; `kind` is its route and
`pc` the call it awaits next. `jar` and `tag` are the cookies `mctl_session` and `mctl_login` in each
browser: a request carries what was there when it was sent, and its response changes them later.

| Code | Actions |
|---|---|
| `http-server.ts` `getSessionUser`, on every route | `ReadSession`, `ReadUser`; a second time in an approval and a finished poll: `ReadUserAgain` |
| `/auth/login`; `/auth/callback` and POST `/auth/save-token` (`Completing`) | `SaveLogin`; `GetLogin` (`LiveLogin`: `liveLoginTransaction`), `DropLogin`, `SaveUser`, `SaveLink`, `SaveSession` |
| `handleAuthorize` | `FindClient`, `Fetch`, `SaveClient` (`resolveClientMetadata`), `Redirect` (`isAllowedRedirectUri`), `FindOwner`, `SavePending`, `SaveConsent` |
| POST `/oauth/authorize`, `approveAuthorization`, `denyAuthorization` | `GetConsent`, `ReadOwner` (`SameBrowser`), `DropConsent`, `GetPending` (`Approvable`), `FindOwner`, `DropPending`, `ReadLink`, `SaveCode` |
| `/auth/qr-code`, `/auth/qr-status`, `yandex-qr-auth.ts` | `SaveQr`, `SaveOwner`; `GetOwner`, `ReadOwner` (`SameOwner`), `GetQr`, `Status`, `SaveBack`, `DropQr`, `DropOwner`, `CheckCookie`, `SaveCookie` |
| `/oauth/register`, `/auth/logout`, `/account/delete` | `Register`, `DropSession`, `Erase` |
| response headers, the QR scan, expiry | `Reply`, `Scan`, `Expire` |

States, consents, QR sessions and web sessions have random ids and are named after the request that
made them. `old` says that ten minutes have passed since a request. A QR session expires after five
of them, before its owner row does; both are "old" here. `answered`, `named`, `ended` and `racing`
are history variables. The two routes that end a sign-in make the same calls behind the same
`liveLoginTransaction`, with Yandex's answer to a code in the one and a token the callback page hands
in in the other; they are two kinds of request and share their actions. Left out: the branches of the
local mode; PKCE, scope and CSRF-origin checks,
which end a request before it changes anything; which address a metadata document may be
fetched from.

### Run

`SignIn_all`: two browsers, two accounts, one client with a metadata document and one that registers,
two redirect URIs, and seven mixes of up to five requests. The mixes are those whose members meet in
a row: an answer, a deletion and a sign-in; two answers and a log-out; two openings whose document
changes in between, and a registration; two sign-ins, one ended by each route; the two routes for one sign-in
and a deletion; three polls; two
polls and a deletion. Within a mix everything happens in every order. `Expiring` says whose rows may
be left for ten minutes: in each mix those of the first sign-in, consent or QR code, except in the
first mix, where a consent that has expired would end what the mix is for. A request that is never
answered stays where it is, which is also how a killed pod looks; so deadlock is not checked, and
no fairness is assumed. The run is symmetric in browsers, accounts and URIs.

`AnsweredOnce` and `QrConnectsOnce` speak of requests sent after an answer was complete. Two answers
sent at the same moment may both get a code, and an approval may get one after a denial, because
the transaction is read and dropped in two statements (`http-server.ts`, POST `/oauth/authorize`);
both codes are the user's, for the client and URI shown. `Approvable` compares the account again
after `SameBrowser` compared the web session; since a web session never changes its account, it
alone refuses nothing.

### Proofs

`SignIn_proofs`, for any number of browsers, accounts, clients, URIs and requests of any kinds.
`Course` says what a request of each kind was sent with, which calls it makes, and what it
has found by each of them; it is proved together with `TypeOK` (`TypeCorrect`), one lemma for the
requests that move (`TypeStep`) and one for browsers and time (`TypeOther`). On it rest:

| Theorem | Property | Invariant besides `Course` |
|---|---|---|
| `SessionsGoHome` | `SignInStaysInItsBrowser` | `Logins_OK`: a login cookie names a sign-in of its browser, and a callback (or a token handed in) past its first read brought the cookie of its own; `Sessions_OK`: a session that some browser was given is not written again but to end |
| `ConsentsArePersonal`, `CodesAreRegistered` | `ConsentIsPersonal`, `CodesGoWhereRegistered` | `Opened_OK`: a pending row has the account of the request that opened it and a URI named for its client, and its consent the web session; `Answers_OK`: an answer let through has that session and goes by that row; `Codes_OK`: the same of the code |
| `OneAnswer`, `OneConnection` | `AnsweredOnce`, `QrConnectsOnce` | `Used_OK`: the row of an answered transaction is gone; `Late_OK`: a request sent later finds nothing and gets no further than its check; `Cookies_OK` |
| `ErasureEnds` | `ErasureEndsConsents` | `Ended_OK`: once an account was deleted, the session a consent was opened in is not a session of it, and every answer that still acts for it was under way (`racing`) |

A theorem of this module never says which rows expire or when: expiry only removes.

## 8. The tools: `Commands`

### Correspondence

| Code | Definitions |
|---|---|
| `station-service.ts` `uniqueMatch`, `resolveRoom`, `resolveSpeaker`, `resolveDevice` | the operators of these names over a list; `FirstTier`, `ByName`, `InRoom` |
| the methods of `StationService` | an operator each: the things it chooses to act on by what it sees; `CanDo`, `Controllable` |
| how they go on with a list | `Tell`, `Choose` with `Send`; the second look of `setVolume` and `mediaControl`: `ChooseAgain`, `Instead` |
| `getUserInfo` and its cache | `FromCache`, `AskForList`, `PutTogether`, `RetryList`, `ListCame`, `ListFailed` |
| `tools/handlers.ts` `checkScope`, `handleToolCall` | `Permitted`, `Start`, `Targets`, `Found` |
| the request that acts, `client/upstream.ts`, `yandex-api.ts` `request`, `quasar-client.ts` | `Answered`, `Refused`, `Resent`, `GivenUp`; `Failed` with `FallsBack` |
| Yandex, the user's home, time | `Serve`, `Lost`, `PutTogether`; `Change`; `Tick` |

Names and rooms are model values, and `Within` says which are part of which; what a text looks like
after normalisation is not modelled. What survives of matching is what decides: which tier matches first,
and how many things match in it. Without a query the speaker that the list has first is taken (`lead`, which Yandex chooses); where
`DEFAULT_SPEAKER` is set, a call without a query is one with that query. A home also says what each device
can do (`Able`) and of which type it is (`TypeOf`): `controlDevice` and `setLight` refuse a device that can do
nothing of what is asked for, and `controlRoom` leaves out speakers, what cannot be switched, and for
"light", "socket" or "climate" the other types (`OfType`; any further word means all). Values are left out.

`setVolume` and `mediaControl` look for the speaker themselves and then, through Quasar, have `sendCommand` look for
it again (537 and 556, 598 and 613). A list that took as long as `CACHE_TTL` is too old by then, since it is stamped with
the time it was asked for: the second look fetches another one, while everything may change. So a call has an
`aim`, what it found first, and the set `used` of the lists it went by; Quasar is told what the second look
found, and the fallback, as well as the report, goes by `aim`. The second look is a step of its own also when it
finds the list in the cache. A request to Quasar for one thing is one step (its PUT, trigger and lines are
`QuasarProxy`). A request that its caller gave up on stays in `flight`, and Yandex may act on it
at any later time or never. A failed read of the scenarios gives a list without them, and that
is cached like any other. An answer 200 with `action_result` ERROR counts as a success, as it
does in the code. `/api/*` routes call the same methods.

### Run

`Commands_calls`: two calls that share a cache, a home with a speaker, a TV with Alice that can be switched, a
lamp, a vacuum cleaner and a scenario, in two layouts of which the second makes a name and a room ambiguous;
thirteen mixes that have every tool in them; local or hosted, with and without each of the two accounts. A tick is 15
seconds, so `CACHE_TTL` is 2 and `BUDGET` (`USER_INFO_BUDGET`) 1. Time runs while a call
needs a list (`MaxClock` 2: a first request, a renewal and a retry make a list of age 2, and the second look needs
another) and the home changes once. 3.7 million states in a minute and a half. Deadlock is not checked: calls end.

`ActsOnTheNamed` states matching independently of the tiers: whatever is acted on fits more
closely than anything else it could have been, in a list less than `CACHE_TTL` old *from when Yandex
put it together*, can do some of what is wanted, and is of the type that is wanted. The stamp `began` (and not
the time of arrival) is what makes the age true. For "climate" the property has to admit two types
that `tools/definitions.ts` 284-288 does not promise: the code looks for "ac" anywhere in the type, which is
also in `vacuum_cleaner` and `washing_machine`, so these are switched with the air conditioners.
`RepeatedOnlyUnheard` bounds what fallback and retry can do. `SuccessMeansOver` says that a success is the
success of everything that *one* list of the call names, and that this is what it reports, with one
exception, which the run reaches: after two looks by different lists `setVolume` and `mediaControl` report the
speaker of the first (557-562) while another has obeyed. Its last part excepts calls that fell back: a room
switched through Quasar falls back as a whole when one device fails, and requests for the others may
still be on their way.

### Proofs

`Commands_proofs`, for any home, layout, vocabulary (`Within`), plan, number of calls and number of
changes. `CommandsAssumption` asks that a text is part of itself, that homes, abilities, types, plans and
queries are of their types, that there are finitely many things and rooms, and `1 < CACHE_TTL` and
`BUDGET < CACHE_TTL` (30 and 15 seconds in the code).

The first half is about matching and has no steps. `FirstTierIs` says what the first tier with a match
is, `Unique` and `Named` what a unique match excludes, `NamedIsCloser`, `SpeakerIsCloser` and
`RoomNamed` turn that into `Closer`, and `TargetsMeant` concludes for every tool: whatever the
resolution by tiers returns is what the independent definition `Meant` allows.

The inductive invariant `Inv` is `TypeOK` with four parts. `Timely`: when each list was asked for and put
together, and how long a call has waited. `Course`: a call has asked for nothing (`Unasked`) or has
found its `aim` in a list it went by and asks for things `T` that such a list names too, which are its aim unless
two lists differed (`Told`); everything it asks for, has heard of or has brought about is among those, and among
its aim once it fell back. Every list it went by was younger than `CACHE_TTL`. `Apart`: no two requests of a call ask for one thing in
one way, and the second way follows the first. `Excused`: requests in flight are counted with what
was already carried out (`Tries`), since a late one may still be; a second try has a reason.

* `TypeCorrect`: `TypeOK`.
* `NamedAreMeant`: `ActsOnTheNamed`, from `Told` and `TargetsMeant`.
* `RepeatsAreExcused`: `RepeatedOnlyUnheard`, from `Excused` and `Apart`.
* `SuccessIsOver`: `SuccessMeansOver`, from `Course` and `Apart`.

`RepeatedOnlyUnheard` alone is not inductive: nothing in it counts the request that is still in
flight when its caller gives up.

Two remarks. The budget covers the choice of the second way and its own request, not the first:
a 401 with a refresh and a retry makes the Smart Home call outlast it. And a timeout of the *retried*
request reaches the caller as an authentication error rather than as the 504 that
`SECURITY.md` 46 promises.

## 9. Tokens in use: `McpSessions`

### Correspondence

| Code (`http-server.ts`) | Actions |
|---|---|
| routes, limits, session lookup of a message | `Arrive` |
| `checkBearer`: token, user, credentials | `ReadToken`, `ReadUser`, `ReadCreds`; `Pass`, `Reject` |
| body and batch, the reuse of an admission | `ReadBody`, `NextCall`, `Fresh`, `Finish` |
| the event stream | `Admit` (kind `stream`), `Leave` |
| `/oauth/revoke`, `/account/revoke-grant`, `/account/delete` | `LookUp`, `End`, then `closeSessions`: `CloseNext`, `WalkEnds` |
| rotation and expiry of a token; disconnecting, signing in | `Retire`; `Unlink`, `Link` |

`sessions` is the pair of maps `sseTransports` and `sseOwners`, each stream on its pod. `CloseNext`
closes one session and awaits; since a `Map` iterator also meets entries added meanwhile,
`Remaining` is evaluated anew at each step. Rate limits, body limits and a failing storage are one
choice: the request is refused. The scope of a stream is not modelled (it is read with the same
token row each time), nor are the answer of `/readyz` and its cache and the tool counter.

### Run

`McpSessions_ended`: three requests on two pods, one account with two tokens of one client, in
eight mixes: batches and REST calls beside retirement and deletion; a stream and its messages beside
each operation that ends it, on its pod and on the other; a foreign message; two streams that come
and go while a walk is under way; two walks. `REAUTH_AFTER` is 2 ticks (1 s), batches have up to two
calls, `MaxClock` 3 lets an admission age out. `ReadBound` 1 is an assumption: the code bounds its three
reads by the pool's timeouts only, so `EndedNotHonoured` names it.

Streams on another pod are not closed by these operations. They cannot be used: every message is
checked again, which is what `EndedNotHonoured` says. `NoneLeftOpen` excepts a stream that passed its
token check just before the row went (`racing`); it stays open until its client leaves, and cannot
call anything.

### Proofs

`McpSessions_proofs`, for any number of users, tokens, pods and requests, any batches, and
`REAUTH_AFTER > 0` (1000 ms in the code).

* `TypeCorrect`, with `Course`: which labels a request of each kind passes, that whoever has a body or
  a tool under way was admitted, and that a batch checked again has calls left. `TypeOK` includes
  that the sessions of a pod are exactly the streams open on it.
* `EndedTokensRunNothing` (`EndedNotHonoured`), from `Times_OK`. A check has read the token no
  later than it went and is not over its time (`Read_OK`); an admission is at most `ReadBound`
  later than the end of the token and no later than that of the credentials (`Admitted_OK`);
  a tool begins within `REAUTH_AFTER` of an admission (`Ran_OK`). The property speaks of the present
  moment only; what makes it inductive is that each of the three is measured from the one before.
* `NoSessionOutlivesItsGrant` (`NoneLeftOpen`), from `Closed_OK`: what a request ended is not live
  again (`Over_OK`); so a stream can become a session of it only if it had read its token before, and is
  then `racing`, and a walk ends only when no other session is `Remaining` (`Caught_OK`).

## 10. Findings

The violated runs, each of which quotes the sentence it refutes in `PROJECT.json`:

* A revocation, replay or deletion that meets a refresh in flight is undone by it
  (`TokenGrants_ended`).
* A request in flight creates a proxy while Quasar is disconnected, and the cleanup reports success
  (`QuasarProxy_leftbehind`).
* A tool call that renews its token stores a disconnected cookie again (`Credentials_disconnected`).

A remark without a run: the reuse grace of ten seconds starts when the token is rotated, so a
duplicate of a refresh that takes longer than that to reach its lookup is treated as theft.

## 11. What is not modelled

* Pages, routing, OpenAPI, static answers, metrics: they keep no state, or a counter nothing reads.
* Rate limiting and public statistics: windows weighted by elapsed fractions and buckets evicted at
  a limit are arithmetic over one map that is used synchronously; the modules above let any request
  be refused instead. The readiness cache is one probe shared for a second.
* Telemetry (sampler, retention): best effort by design, and read only by operators.
* SQLite storage, keychain, command line and the local mode: one user and one synchronous process;
  the operations are those of the PostgreSQL storage.
* Validation of URIs, client documents and addresses before a fetch: pure checks of one string.
* The rehash of raw secrets (one transaction) and the restore check (reads only).
* Tool definitions and the widget resource (tables), capability values.
* The sealed payloads of `browser_transactions` in `KeyRotation`: `ENCRYPTED_COLUMNS` leaves them
  out, no pass rewrites them, and they live for ten minutes. One sealed under a key that was taken
  away meanwhile is not read again: its sign-in or consent has to be begun anew.

Proved for all values of the constants: every invariant and action property of the passing runs, and
the refinement (`OwnWords` under the two conditions of `WordsAreOwn`, which its run fulfils).
Model-checked only: `ReplayEndsTheGrant`, `EveryTurnComes` and `EveryPassEnds`, which hold under
fairness and are out of TLAPS's reach.
