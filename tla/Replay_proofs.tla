---------------------------- MODULE Replay_proofs ----------------------------
(***************************************************************************)
(* Theorems about what TokenGrants does with a secret that is presented    *)
(* again: a code whose grant is recalled, a rotated pair that is           *)
(* remembered.  For every value of the constants, like TokenGrants_proofs. *)
(***************************************************************************)
EXTENDS TokenGrants_proofs

USE ParameterAssumption, TimeAssumption, IdentityAssumption

(* A grant that was opened stays opened, by the same request for the same  *)
(* secret.                                                                 *)
LEMMA OpenedStay ==
  ASSUME Inductive, [Next]_vars, NEW g \in Grants, Opened(g)
  PROVE  Opened(g)' /\ arg'[g] = arg[g]
<1> USE DEF Inductive, TypeOK, Provenance
<1>1. pc[g] \notin Unspent
  BY DEF UnspentHaveNoGrant, Opened, Grants, YandexTokens
<1>2. ASSUME NEW r \in Requests, Begin(r)
      PROVE  fam' = fam /\ pc[r] \in Unspent /\ \A q \in Requests : q # r => arg'[q] = arg[q]
  BY <1>2 DEF Begin, StartRedeem, StartRefresh, StartRevoke, StartRevokeGrant, StartErase,
     StartSignIn, Start, At, Unspent
<1>3. ASSUME NEW r \in Requests, Consume(r) \/ Flag(r) \/ SpentPair(r) \/ Rotate(r)
      PROVE  arg' = arg /\ pc[r] \in Unspent /\ \A q \in Requests : q # r => fam'[q] = fam[q]
  BY <1>3 DEF Consume, Flag, SpentPair, Rotate, At, Finish, Unspent, RefreshCalls
<1>4. ASSUME NEW r \in Requests,
             ~(Begin(r) \/ Consume(r) \/ Flag(r) \/ SpentPair(r) \/ Rotate(r)),
             Step(r) \/ Fail(r)
      PROVE  UNCHANGED <<arg, fam>>
  BY <1>4 DEF Step, Fail, VetCode, WrongVerifier, Mint, Recheck, Recall, SpentCode, Lookup, VetPair,
     ReadCreds, Renew, Reread, Reuser, Regrant, SaveCreds, Remember, MintNext, Revoke, RevokeGrant,
     Erase, SaveUser, SaveLink, Check, Finish, locals
<1>5. Prune \/ Tick \/ UNCHANGED vars => UNCHANGED <<arg, fam>>
  BY DEF Prune, Tick, vars, locals
<1>6. UNCHANGED <<arg, fam>> => Opened(g)' /\ arg'[g] = arg[g]
  BY DEF Opened
<1> QED  BY <1>1, <1>2, <1>3, <1>4, <1>5, <1>6 DEF Next, Opened, Grants

(* A row that is new is the one its request inserts.                       *)
LEMMA RowsOfSteps ==
  ASSUME Inductive, [Next]_vars, NEW p \in Pairs, tokens'[p] # None, tokens'[p] # tokens[p]
  PROVE  /\ p \in Requests /\ (Mint(p) \/ MintNext(p)) /\ seen[p] \in Row
         /\ tokens'[p] = [owner |-> seen[p].owner, client |-> seen[p].client,
                          grant |-> fam[p], expires |-> now + TokenTTL]
<1> USE DEF Inductive, TypeOK
<1>1. ASSUME NEW r \in Requests, Begin(r) \/ Step(r) \/ Fail(r), ~Mint(r), ~MintNext(r)
      PROVE  tokens' = tokens \/ \E P : DropRows(P)
  BY <1>1 DEF Begin, StartRedeem, StartRefresh, StartRevoke, StartRevokeGrant, StartErase,
     StartSignIn, Start, Step, Fail, Consume, VetCode, WrongVerifier, Recheck, Recall, SpentCode,
     Flag, Lookup, SpentPair, VetPair, ReadCreds, Renew, Reread, Reuser, Regrant, SaveCreds, Rotate,
     Remember, Revoke, RevokeGrant, Erase, SaveUser, SaveLink, Check, tables
<1>2. Prune => \A s \in Pairs : tokens'[s] \in {tokens[s], None}
  BY SweepKeeps DEF Prune
<1>3. Tick \/ UNCHANGED vars => tokens' = tokens
  BY DEF Tick, vars, tables
<1>4. PICK r \in Requests : Mint(r) \/ MintNext(r)
  BY <1>1, <1>2, <1>3, DropKeeps DEF Next
<1>5. seen[r] \in Row
  BY <1>4 DEF Mint, MintNext, At, Holding
<1>6. tokens' = [tokens EXCEPT ![r] = [owner |-> seen[r].owner, client |-> seen[r].client,
                                       grant |-> fam[r], expires |-> now + TokenTTL]]
  BY <1>4 DEF Mint, MintNext, InsertPair
<1>7. p = r
  BY <1>6
<1> QED  BY <1>4, <1>5, <1>6, <1>7 DEF Pairs

(* The steps that leave what is remembered alone, or forget some of it.    *)
LEMMA OthersForget ==
  ASSUME Inductive, [Next]_vars,
         \A r \in Requests : ~Consume(r) /\ ~Flag(r) /\ ~Remember(r)
  PROVE  \A s \in Secrets : spent'[s] \in {spent[s], None}
<1> USE DEF Inductive, TypeOK
<1>1. ASSUME NEW r \in Requests, Begin(r) \/ Step(r) \/ Fail(r), ~Erase(r) PROVE spent' = spent
  BY <1>1 DEF Begin, StartRedeem, StartRefresh, StartRevoke, StartRevokeGrant, StartErase,
     StartSignIn, Start, Step, Fail, VetCode, WrongVerifier, Mint, MintNext, Recheck, Recall,
     SpentCode, Lookup, SpentPair, VetPair, ReadCreds, Renew, Reread, Reuser, Regrant, SaveCreds,
     Rotate, Revoke, RevokeGrant, SaveUser, SaveLink, Check, tables
<1>2. ASSUME NEW r \in Requests, Erase(r) PROVE \A s \in Secrets : spent'[s] \in {spent[s], None}
  BY <1>2 DEF Erase
<1>3. Prune => \A s \in Secrets : spent'[s] \in {spent[s], None}
  BY SweepKeeps DEF Prune
<1>4. Tick \/ UNCHANGED vars => spent' = spent
  BY DEF Tick, vars, tables
<1> QED  BY <1>1, <1>2, <1>3, <1>4 DEF Next

(* What is remembered of a code is written once, when it is taken; after   *)
(* that it is flagged, or forgotten.                                       *)
LEMMA MemosOfCodes ==
  ASSUME Inductive, [Next]_vars, NEW c \in Codes, spent'[c] # None
  PROVE  \/ spent'[c] = spent[c]
         \/ \E r \in Requests :
              /\ Consume(r) /\ arg[r] = c /\ spent[c] = None
              /\ spent'[c] = [grant |-> r, client |-> Client[c], owner |-> Owner[c],
                              at |-> now, expires |-> now + SpentTTL, reused |-> FALSE]
         \/ \E r \in Requests :
              /\ Flag(r) /\ arg[r] = c /\ spent[c] # None
              /\ spent'[c] = [spent[c] EXCEPT !.reused = TRUE]
              /\ fam' = [fam EXCEPT ![r] = spent[c].grant]
<1> USE DEF Inductive, TypeOK
<1>1. c \in Secrets /\ c \notin Pairs
  BY DEF Secrets
<1>2. ASSUME NEW r \in Requests, Consume(r)
      PROVE  \/ spent'[c] = spent[c]
             \/ /\ arg[r] = c /\ spent[c] = None
                /\ spent'[c] = [grant |-> r, client |-> Client[c], owner |-> Owner[c],
                                at |-> now, expires |-> now + SpentTTL, reused |-> FALSE]
  <2> DEFINE memo == [grant |-> r, client |-> Client[arg[r]], owner |-> Owner[arg[r]],
                      at |-> now, expires |-> now + SpentTTL, reused |-> FALSE]
  <2>1. /\ Sweep(spent) \in [Secrets -> Spent \cup {None}]
        /\ Sweep(spent)[c] \in {spent[c], None}
    BY <1>1, SweepKeeps
  <2>2. arg[r] \in Codes /\ arg[r] \in Secrets
    BY <1>2 DEF Consume, At, CodeCalls, Secrets
  <2>3. CASE arg[r] \in codes /\ CodeTTL >= now
    <3>1. spent' = [Sweep(spent) EXCEPT ![arg[r]] = IF @ = None THEN memo ELSE @]
      BY <1>2, <2>3 DEF Consume
    <3>2. spent[arg[r]] = None
      BY <2>2, <2>3 DEF SpentNamesItsGrant, OpenedCodesAreGone, Provenance, Spent, Grants
    <3>3. c # arg[r] => spent'[c] = spent[c]
      BY <1>1, <2>1, <3>1
    <3>4. c = arg[r] => spent'[c] = memo
      BY <1>1, <2>1, <3>1, <3>2
    <3> QED  BY <3>2, <3>3, <3>4
  <2>4. CASE ~(arg[r] \in codes /\ CodeTTL >= now)
    BY <1>2, <2>1, <2>4 DEF Consume
  <2> QED  BY <2>3, <2>4
<1>3. ASSUME NEW r \in Requests, Flag(r)
      PROVE  \/ spent'[c] = spent[c]
             \/ /\ arg[r] = c /\ spent[c] # None
                /\ spent'[c] = [spent[c] EXCEPT !.reused = TRUE]
                /\ fam' = [fam EXCEPT ![r] = spent[c].grant]
  <2>1. arg[r] \in Secrets
    BY <1>3 DEF Flag, At, CodeCalls, Secrets
  <2>2. CASE Recalls(arg[r])
    <3>1. /\ spent' = [spent EXCEPT ![arg[r]] = [spent[arg[r]] EXCEPT !.reused = TRUE]]
          /\ fam' = [fam EXCEPT ![r] = spent[arg[r]].grant] /\ spent[arg[r]] # None
      BY <1>3, <2>2 DEF Flag, Recalls
    <3> QED  BY <1>1, <2>1, <3>1
  <2>3. CASE ~Recalls(arg[r])
    BY <1>3, <2>3 DEF Flag
  <2> QED  BY <2>2, <2>3
<1>4. ASSUME NEW r \in Requests, Remember(r) PROVE spent'[c] = spent[c]
  <2>1. Sweep(spent)[c] \in {spent[c], None} /\ arg[r] \in Pairs
    BY <1>1, <1>4, SweepKeeps DEF Remember, At, PairCalls
  <2> QED  BY <1>1, <1>4, <2>1 DEF Remember
<1>5. CASE \A r \in Requests : ~Consume(r) /\ ~Flag(r) /\ ~Remember(r)
  BY <1>1, <1>5, OthersForget
<1> QED  BY <1>2, <1>3, <1>4, <1>5

(* What is remembered of a pair is what its rotation wrote.                *)
LEMMA MemosOfPairs ==
  ASSUME Inductive, [Next]_vars, NEW p \in Pairs, spent'[p] # None, spent'[p] # spent[p]
  PROVE  \E r \in Requests : Remember(r) /\ arg[r] = p
<1> USE DEF Inductive, TypeOK
<1>1. p \in Secrets /\ p \notin Codes
  BY DEF Secrets
<1>2. ASSUME NEW r \in Requests, Consume(r) PROVE spent'[p] \in {spent[p], None}
  <2>1. /\ Sweep(spent) \in [Secrets -> Spent \cup {None}]
        /\ Sweep(spent)[p] \in {spent[p], None}
    BY <1>1, SweepKeeps
  <2>2. arg[r] \in Codes
    BY <1>2 DEF Consume, At, CodeCalls
  <2> QED  BY <1>1, <1>2, <2>1, <2>2 DEF Consume
<1>3. ASSUME NEW r \in Requests, Flag(r) PROVE spent'[p] = spent[p]
  <2>1. arg[r] \in Codes
    BY <1>3 DEF Flag, At, CodeCalls
  <2> QED  BY <1>1, <1>3, <2>1 DEF Flag
<1>4. ASSUME NEW r \in Requests, Remember(r), arg[r] # p PROVE spent'[p] \in {spent[p], None}
  <2>1. /\ Sweep(spent) \in [Secrets -> Spent \cup {None}]
        /\ Sweep(spent)[p] \in {spent[p], None}
    BY <1>1, SweepKeeps
  <2> QED  BY <1>1, <1>4, <2>1 DEF Remember
<1>5. CASE \A r \in Requests : ~Consume(r) /\ ~Flag(r) /\ ~Remember(r)
  BY <1>1, <1>5, OthersForget
<1> QED  BY <1>2, <1>3, <1>4, <1>5

(* What is forgotten is out of date, or its owner is gone with the grants  *)
(* the owner had.                                                          *)
LEMMA MemosForgotten ==
  ASSUME Inductive, [Next]_vars, NEW s \in Secrets, spent[s] # None, spent'[s] = None
  PROVE  \/ spent[s].expires < now
         \/ \E r \in Requests : Erase(r) /\ arg[r] \in Users /\ spent[s].owner = arg[r]
<1> USE DEF Inductive, TypeOK
<1>1. Sweep(spent)[s] = IF spent[s].expires < now THEN None ELSE spent[s]
  BY DEF Sweep
<1>2. Sweep(spent) \in [Secrets -> Spent \cup {None}]
  BY SweepKeeps
<1>3. ASSUME NEW r \in Requests, Consume(r) PROVE spent[s].expires < now
  <2> DEFINE memo == [grant |-> r, client |-> Client[arg[r]], owner |-> Owner[arg[r]],
                      at |-> now, expires |-> now + SpentTTL, reused |-> FALSE]
  <2>1. arg[r] \in Codes
    BY <1>3 DEF Consume, At, CodeCalls
  <2>2. memo \in Spent
    BY <2>1 DEF Spent, Grants
  <2>3. spent' = Sweep(spent) \/ spent' = [Sweep(spent) EXCEPT ![arg[r]] = IF @ = None THEN memo ELSE @]
    BY <1>3 DEF Consume
  <2>4. Sweep(spent)[s] = None
    BY <1>2, <2>2, <2>3
  <2> QED  BY <1>1, <2>4
<1>4. ASSUME NEW r \in Requests, Flag(r) PROVE FALSE
  <2>1. CASE spent' = spent
    BY <2>1
  <2>2. CASE arg[r] = s /\ spent' = [spent EXCEPT ![s].reused = TRUE]
    <3>1. spent[s] \in Spent
      OBVIOUS
    <3>2. [spent[s] EXCEPT !.reused = TRUE] \in Spent
      BY <3>1 DEF Spent
    <3> QED  BY <2>2, <3>2
  <2>3. CASE arg[r] # s /\ spent' = [spent EXCEPT ![arg[r]].reused = TRUE]
    BY <2>3
  <2> QED  BY <1>4, <2>1, <2>2, <2>3 DEF Flag
<1>5. ASSUME NEW r \in Requests, Remember(r) PROVE spent[s].expires < now
  <2> DEFINE memo == [grant |-> fam[r], client |-> seen[r].client, owner |-> seen[r].owner,
                      at |-> now, expires |-> KeepUntil(r), reused |-> FALSE]
  <2>1. seen[r] \in Row /\ fam[r] \in Grants
    BY <1>5 DEF Remember, At, Holding
  <2>2. memo \in Spent
    BY <2>1 DEF Spent, Row, KeepUntil
  <2>3. spent' = [Sweep(spent) EXCEPT ![arg[r]] = memo]
    BY <1>5 DEF Remember
  <2>4. Sweep(spent)[s] = None
    BY <1>2, <2>2, <2>3
  <2> QED  BY <1>1, <2>4
<1>6. ASSUME NEW r \in Requests, Begin(r) \/ Step(r) \/ Fail(r), ~Erase(r),
             ~Consume(r), ~Flag(r), ~Remember(r)
      PROVE spent' = spent
  BY <1>6 DEF Begin, StartRedeem, StartRefresh, StartRevoke, StartRevokeGrant, StartErase,
     StartSignIn, Start, Step, Fail, VetCode, WrongVerifier, Mint, MintNext, Recheck, Recall,
     SpentCode, Lookup, SpentPair, VetPair, ReadCreds, Renew, Reread, Reuser, Regrant, SaveCreds,
     Rotate, Revoke, RevokeGrant, SaveUser, SaveLink, Check, tables
<1>7. ASSUME NEW r \in Requests, Erase(r) PROVE arg[r] \in Users /\ spent[s].owner = arg[r]
  BY <1>7 DEF Erase, At, AccountCalls
<1>8. Prune => spent[s].expires < now
  BY <1>1 DEF Prune
<1>9. Tick \/ UNCHANGED vars => spent' = spent
  BY DEF Tick, vars, tables
<1> QED  BY <1>3, <1>4, <1>5, <1>6, <1>7, <1>8, <1>9 DEF Next

-----------------------------------------------------------------------------
(* A replay reaches only what the code's own client and account got.       *)

(* The pairs of a grant that a code opened, and the requests that have it  *)
(* in hand, are the code's account's and client's.                         *)
FamiliesKeepTheirClient ==
  /\ \A p \in Pairs : tokens[p] # None /\ tokens[p].grant # None =>
       LET c == arg[tokens[p].grant]
       IN c \in Codes => tokens[p].owner = Owner[c] /\ tokens[p].client = Client[c]
  /\ \A r \in Requests : Holding(r) =>
       LET c == arg[fam[r]]
       IN c \in Codes => seen[r].owner = Owner[c] /\ seen[r].client = Client[c]

CodesRememberTheirClient == \A c \in Codes : spent[c] # None => spent[c].client = Client[c]

(* A request that flags a code, or recalls its grant, presented the code   *)
(* as its client, and the grant is the one that code opened.               *)
RecallsAreByTheClient ==
  \A r \in Requests :
    /\ pc[r] = "flag" => by[r] = Client[arg[r]]
    /\ pc[r] = "recallCode" =>
         by[r] = Client[arg[r]] /\ Opened(fam[r]) /\ arg[fam[r]] = arg[r]

Personal == FamiliesKeepTheirClient /\ CodesRememberTheirClient /\ RecallsAreByTheClient

(* A request comes to have a grant in hand by taking a code or a pair.     *)
LEMMA HoldersOfSteps ==
  ASSUME Inductive, [Next]_vars, NEW r \in Requests, Holding(r)'
  PROVE  \/ Holding(r) /\ seen'[r] = seen[r] /\ fam'[r] = fam[r]
         \/ /\ Consume(r) /\ arg[r] \in Codes /\ fam'[r] = r /\ arg' = arg
            /\ seen'[r] = [owner |-> Owner[arg[r]], client |-> Client[arg[r]],
                           grant |-> r, expires |-> CodeTTL]
         \/ /\ Rotate(r) /\ arg[r] \in Pairs /\ fam'[r] = GrantOfRotation(r)
            /\ seen'[r] = seen[r] /\ arg' = arg
            /\ tokens[arg[r]] # None /\ tokens[arg[r]] = seen[r]
<1> USE DEF Inductive, TypeOK, Holding
<1>1. CASE Consume(r)
  BY <1>1 DEF Consume, At, Goto, CodeCalls
<1>2. CASE Rotate(r)
  <2>1. pc[r] = "rotate" /\ arg[r] \in Pairs /\ tokens[arg[r]] \in {seen[r], None}
    BY <1>2 DEF Rotate, At, PairCalls, RefreshCalls, Provenance, SeenIsCurrent
  <2> QED  BY <1>2, <2>1 DEF Rotate, Goto, Finish, RowFound
<1>3. ASSUME NEW q \in Requests, Begin(q) \/ Step(q) \/ Fail(q), q # r
      PROVE  Holding(r) /\ seen'[r] = seen[r] /\ fam'[r] = fam[r]
  BY <1>3 DEF Begin, StartRedeem, StartRefresh, StartRevoke, StartRevokeGrant, StartErase,
     StartSignIn, Start, Step, Fail, Consume, VetCode, WrongVerifier, Mint, Recheck, Recall,
     SpentCode, Flag, Lookup, SpentPair, VetPair, ReadCreds, Renew, Reread, Reuser, Regrant,
     SaveCreds, Rotate, Remember, MintNext, Revoke, RevokeGrant, Erase, SaveUser, SaveLink, Check,
     Finish, Goto, locals
<1>4. ASSUME Begin(r) \/ Step(r) \/ Fail(r), ~Consume(r), ~Rotate(r)
      PROVE  Holding(r) /\ seen'[r] = seen[r] /\ fam'[r] = fam[r]
  BY <1>4 DEF Begin, StartRedeem, StartRefresh, StartRevoke, StartRevokeGrant, StartErase,
     StartSignIn, Start, Step, Fail, VetCode, WrongVerifier, Mint, Recheck, Recall,
     SpentCode, Flag, Lookup, SpentPair, VetPair, ReadCreds, Renew, Reread, Reuser, Regrant,
     SaveCreds, Remember, MintNext, Revoke, RevokeGrant, Erase, SaveUser, SaveLink, Check,
     Finish, Goto, At, locals
<1>5. Prune \/ Tick \/ UNCHANGED vars => UNCHANGED <<pc, seen, fam>>
  BY DEF Prune, Tick, vars, locals
<1> QED  BY <1>1, <1>2, <1>3, <1>4, <1>5 DEF Next

LEMMA FamiliesNext ==
  ASSUME Inductive, [Next]_vars, FamiliesKeepTheirClient
  PROVE  FamiliesKeepTheirClient'
<1> USE DEF Inductive, TypeOK
<1>1. ASSUME NEW p \in Pairs, tokens'[p] # None, tokens'[p].grant # None,
             NEW c \in Codes, c = arg'[tokens'[p].grant]
      PROVE  tokens'[p].owner = Owner[c] /\ tokens'[p].client = Client[c]
  <2>1. CASE tokens'[p] = tokens[p]
    <3>1. tokens[p].grant \in Grants /\ Opened(tokens[p].grant)
      BY <1>1, <2>1 DEF Provenance, GrantsOfRowsAreOpen, Row
    <3>2. c = arg[tokens[p].grant]
      BY <1>1, <2>1, <3>1, OpenedStay
    <3> QED  BY <1>1, <2>1, <3>2 DEF FamiliesKeepTheirClient
  <2>2. CASE tokens'[p] # tokens[p]
    <3>1. /\ p \in Requests /\ Holding(p) /\ seen[p] \in Row
          /\ tokens'[p] = [owner |-> seen[p].owner, client |-> seen[p].client,
                           grant |-> fam[p], expires |-> now + TokenTTL]
      BY <1>1, <2>2, RowsOfSteps DEF Mint, MintNext, At, Holding
    <3>2. fam[p] \in Grants /\ Opened(fam[p])
      BY <3>1 DEF Provenance, HeldGrantsAreOpen
    <3>3. c = arg[fam[p]]
      BY <1>1, <3>1, <3>2, OpenedStay
    <3> QED  BY <1>1, <3>1, <3>3 DEF FamiliesKeepTheirClient
  <2> QED  BY <2>1, <2>2
<1>2. ASSUME NEW r \in Requests, Holding(r)', NEW c \in Codes, c = arg'[fam'[r]]
      PROVE  seen'[r].owner = Owner[c] /\ seen'[r].client = Client[c]
  <2>1. CASE Holding(r) /\ seen'[r] = seen[r] /\ fam'[r] = fam[r]
    <3>1. fam[r] \in Grants /\ Opened(fam[r])
      BY <2>1 DEF Provenance, HeldGrantsAreOpen
    <3>2. c = arg[fam[r]]
      BY <1>2, <2>1, <3>1, OpenedStay
    <3> QED  BY <2>1, <3>2 DEF FamiliesKeepTheirClient
  <2>2. CASE /\ Consume(r) /\ arg[r] \in Codes /\ fam'[r] = r /\ arg' = arg
             /\ seen'[r] = [owner |-> Owner[arg[r]], client |-> Client[arg[r]],
                            grant |-> r, expires |-> CodeTTL]
    BY <1>2, <2>2
  <2>3. CASE /\ Rotate(r) /\ arg[r] \in Pairs /\ fam'[r] = GrantOfRotation(r)
             /\ seen'[r] = seen[r] /\ arg' = arg
             /\ tokens[arg[r]] # None /\ tokens[arg[r]] = seen[r]
    <3>1. GrantOfRotation(r) # r \/ seen[r].grant # None
      BY <1>2, <2>3 DEF GrantOfRotation
    <3>2. seen[r].grant # None /\ fam'[r] = seen[r].grant
      BY <1>2, <2>3, <3>1 DEF GrantOfRotation
    <3> QED  BY <1>2, <2>3, <3>2 DEF FamiliesKeepTheirClient
  <2> QED  BY <1>2, <2>1, <2>2, <2>3, HoldersOfSteps
<1> QED  BY <1>1, <1>2 DEF FamiliesKeepTheirClient

LEMMA RecallsNext ==
  ASSUME Inductive, [Next]_vars, CodesRememberTheirClient, RecallsAreByTheClient
  PROVE  CodesRememberTheirClient' /\ RecallsAreByTheClient'
<1>1. CodesRememberTheirClient'
  <2> SUFFICES ASSUME NEW c \in Codes, spent'[c] # None PROVE spent'[c].client = Client[c]
    BY DEF CodesRememberTheirClient
  <2>1. spent[c] # None => spent[c] \in Spent
    BY DEF Inductive, TypeOK, Secrets
  <2>2. spent[c] # None => [spent[c] EXCEPT !.reused = TRUE].client = spent[c].client
    BY <2>1 DEF Spent
  <2>3. ASSUME NEW r, spent'[c] = [grant |-> r, client |-> Client[c], owner |-> Owner[c],
                                   at |-> now, expires |-> now + SpentTTL, reused |-> FALSE]
        PROVE  spent'[c].client = Client[c]
    BY <2>3
  <2>4. \/ spent'[c] = spent[c] \/ spent'[c].client = Client[c]
        \/ spent[c] # None /\ spent'[c] = [spent[c] EXCEPT !.reused = TRUE]
    BY <2>3, MemosOfCodes
  <2> QED  BY <2>2, <2>4 DEF CodesRememberTheirClient
<1> USE DEF Inductive, TypeOK
<1>2. ASSUME NEW r \in Requests,
             pc'[r] \in {"flag", "recallCode"}
      PROVE  \/ pc[r] = pc'[r] /\ by'[r] = by[r] /\ arg'[r] = arg[r] /\ fam'[r] = fam[r]
             \/ SpentCode(r) /\ pc[r] = "spentCode" /\ by' = by /\ arg' = arg /\ pc'[r] = "flag"
                /\ Recalls(arg[r]) /\ SameClient(r)
             \/ Flag(r) /\ pc[r] = "flag" /\ by' = by /\ arg' = arg /\ pc'[r] = "recallCode"
                /\ spent[arg[r]] # None /\ fam'[r] = spent[arg[r]].grant
  <2>1. ASSUME NEW q \in Requests, Begin(q) \/ Step(q) \/ Fail(q), q # r
        PROVE  pc[r] = pc'[r] /\ by'[r] = by[r] /\ arg'[r] = arg[r] /\ fam'[r] = fam[r]
    BY <2>1 DEF Begin, StartRedeem, StartRefresh, StartRevoke, StartRevokeGrant, StartErase,
       StartSignIn, Start, Step, Fail, Consume, VetCode, WrongVerifier, Mint, Recheck, Recall,
       SpentCode, Flag, Lookup, SpentPair, VetPair, ReadCreds, Renew, Reread, Reuser, Regrant,
       SaveCreds, Rotate, Remember, MintNext, Revoke, RevokeGrant, Erase, SaveUser, SaveLink,
       Check, Finish, Goto, locals
  <2>2. ASSUME SpentCode(r) PROVE pc[r] = "spentCode" /\ by' = by /\ arg' = arg /\ pc'[r] = "flag"
                                  /\ Recalls(arg[r]) /\ SameClient(r)
    BY <1>2, <2>2 DEF SpentCode, Check, Finish, Goto, At, locals
  <2>3. ASSUME Flag(r) PROVE pc[r] = "flag" /\ by' = by /\ arg' = arg /\ pc'[r] = "recallCode"
                             /\ spent[arg[r]] # None /\ fam'[r] = spent[arg[r]].grant
    BY <1>2, <2>3 DEF Flag, Recalls, Finish, Goto, At
  <2>4. ASSUME Begin(r) \/ Step(r) \/ Fail(r), ~SpentCode(r), ~Flag(r) PROVE FALSE
    BY <1>2, <2>4 DEF Begin, StartRedeem, StartRefresh, StartRevoke, StartRevokeGrant, StartErase,
       StartSignIn, Start, Step, Fail, Consume, VetCode, WrongVerifier, Mint, Recheck, Recall,
       Lookup, SpentPair, VetPair, ReadCreds, Renew, Reread, Reuser, Regrant,
       SaveCreds, Rotate, Remember, MintNext, Revoke, RevokeGrant, Erase, SaveUser, SaveLink,
       Check, Finish, Goto, locals
  <2>5. Prune \/ Tick \/ UNCHANGED vars => UNCHANGED <<pc, by, arg, fam>>
    BY DEF Prune, Tick, vars, locals
  <2> QED  BY <2>1, <2>2, <2>3, <2>4, <2>5 DEF Next
<1>3. ASSUME NEW r \in Requests, pc'[r] = "flag" PROVE by'[r] = Client[arg'[r]]
  <2>1. pc[r] = "spentCode" => arg[r] \in Codes
    BY DEF CodeCalls
  <2> QED  BY <1>2, <1>3, <2>1
           DEF RecallsAreByTheClient, CodesRememberTheirClient, Recalls, SameClient
<1>4. ASSUME NEW r \in Requests, pc'[r] = "recallCode"
      PROVE  by'[r] = Client[arg'[r]] /\ fam'[fam'[r]] = fam'[r] /\ arg'[fam'[r]] = arg'[r]
  <2>1. /\ by'[r] = Client[arg'[r]] /\ fam'[r] \in Grants /\ arg'[r] = arg[r]
        /\ Opened(fam'[r]) /\ arg[fam'[r]] = arg[r]
    <3>1. CASE pc[r] = pc'[r] /\ by'[r] = by[r] /\ arg'[r] = arg[r] /\ fam'[r] = fam[r]
      BY <1>4, <3>1 DEF RecallsAreByTheClient
    <3>2. CASE /\ Flag(r) /\ pc[r] = "flag" /\ by' = by /\ arg' = arg /\ pc'[r] = "recallCode"
               /\ spent[arg[r]] # None /\ fam'[r] = spent[arg[r]].grant
      <4>1. arg[r] \in Codes /\ arg[r] \in Secrets
        BY <3>2 DEF CodeCalls, Secrets
      <4>2. spent[arg[r]].grant \in Grants
        BY <3>2, <4>1 DEF Spent
      <4> QED  BY <3>2, <4>1, <4>2 DEF RecallsAreByTheClient, Provenance, SpentNamesItsGrant
    <3> QED  BY <1>2, <1>4, <3>1, <3>2
  <2>2. ASSUME NEW g \in Grants, g = fam'[r] PROVE fam'[g] = g /\ arg'[g] = arg[g]
    BY <2>1, <2>2, OpenedStay DEF Opened
  <2> QED  BY <2>1, <2>2
<1> QED  BY <1>1, <1>3, <1>4 DEF RecallsAreByTheClient, Opened

LEMMA PersonalCorrect == Spec => [](Inductive /\ Personal)
<1>1. Init => Personal
  <2>1. Init => \A p \in Pairs : tokens[p] # None => tokens[p].grant = None
    BY DEF Init
  <2> QED  BY <2>1 DEF Init, Personal, FamiliesKeepTheirClient, CodesRememberTheirClient,
            RecallsAreByTheClient, Holding, Secrets
<1>2. Inductive /\ Personal /\ [Next]_vars => Personal'
  BY FamiliesNext, RecallsNext DEF Personal
<1> QED  BY <1>1, <1>2, InductiveCorrect, PTL DEF Spec

(* Only the client a code was issued to gets its tokens revoked by         *)
(* presenting it again, and that recall (handleToken's revokeGrantFamily)  *)
(* takes no pair of another account or client.                             *)
THEOREM ReplaysAreTheClients == Spec => []CodeReplayStaysWithItsClient
<1>1. ASSUME Inductive, Personal PROVE CodeReplayStaysWithItsClient
  <2> SUFFICES ASSUME NEW r \in Requests, pc[r] = "recallCode", NEW p \in Family(fam[r])
               PROVE  tokens[p].client = by[r] /\ tokens[p].owner = Owner[arg[r]]
    BY DEF CodeReplayStaysWithItsClient
  <2>1. arg[r] \in Codes /\ fam[r] # None
    BY <1>1 DEF Inductive, TypeOK, CodeCalls
  <2>2. by[r] = Client[arg[r]] /\ arg[fam[r]] = arg[r]
    BY <1>1 DEF Personal, RecallsAreByTheClient
  <2>3. p \in Pairs /\ tokens[p] # None /\ tokens[p].grant = fam[r]
    BY DEF Family
  <2> QED  BY <1>1, <2>1, <2>2, <2>3 DEF Personal, FamiliesKeepTheirClient
<1> QED  BY <1>1, PersonalCorrect, PTL

-----------------------------------------------------------------------------
(* The pair of a replayed code is recalled.                                *)

SpentCodesKeepTheirHour ==
  \A c \in Codes : spent[c] # None => spent[c].expires = spent[c].at + SpentTTL

(* A request that took a code is still within the time it has.             *)
RedemptionsAreInTime ==
  \A r \in Requests :
    pc[r] \in {"vetCode", "mint", "recheck"} /\ spent[arg[r]] # None
      => now <= spent[arg[r]].at + RequestBound

Recalled == SpentCodesKeepTheirHour /\ RedemptionsAreInTime /\ ReplayedCodeIsRecalled

(* What is remembered of a code keeps its times and its grant as long as   *)
(* it is remembered.                                                       *)
LEMMA MemosKeep ==
  ASSUME Inductive, [Next]_vars, NEW c \in Codes, spent[c] # None, spent'[c] # None
  PROVE  /\ spent'[c].at = spent[c].at /\ spent'[c].expires = spent[c].expires
         /\ spent'[c].grant = spent[c].grant
<1>1. spent[c] \in Spent
  BY DEF Inductive, TypeOK, Secrets
<1>2. spent'[c] = spent[c] \/ spent'[c] = [spent[c] EXCEPT !.reused = TRUE]
  BY MemosOfCodes
<1> QED  BY <1>1, <1>2 DEF Spent

(* One step of a request that has taken a code.                            *)
LEMMA HoursNext ==
  ASSUME Inductive, [Next]_vars, SpentCodesKeepTheirHour
  PROVE  SpentCodesKeepTheirHour'
<1> SUFFICES ASSUME NEW c \in Codes, spent'[c] # None
             PROVE  spent'[c].expires = spent'[c].at + SpentTTL
  BY DEF SpentCodesKeepTheirHour
<1>1. CASE spent[c] # None
  BY <1>1, MemosKeep DEF SpentCodesKeepTheirHour
<1>2. ASSUME NEW r, spent'[c] = [grant |-> r, client |-> Client[c], owner |-> Owner[c],
                                 at |-> now, expires |-> now + SpentTTL, reused |-> FALSE]
      PROVE  spent'[c].expires = spent'[c].at + SpentTTL
  BY <1>2
<1>3. CASE spent[c] = None
  BY <1>2, <1>3, MemosOfCodes
<1> QED  BY <1>1, <1>3

LEMMA InTimeNext ==
  ASSUME Inductive, [Next]_vars, RedemptionsAreInTime
  PROVE  RedemptionsAreInTime'
<1> SUFFICES ASSUME NEW r \in Requests, pc'[r] \in {"vetCode", "mint", "recheck"},
                    spent'[arg'[r]] # None
             PROVE  now' <= spent'[arg'[r]].at + RequestBound
  BY DEF RedemptionsAreInTime
<1>1. /\ pc[r] \in {"vetCode", "mint", "recheck"} \/ Consume(r)
      /\ arg'[r] = arg[r] /\ arg[r] \in Codes
  <2>1. ASSUME NEW q \in Requests, Begin(q) \/ Step(q) \/ Fail(q), q # r
        PROVE  pc'[r] = pc[r] /\ arg'[r] = arg[r]
    BY <2>1 DEF Inductive, TypeOK, Begin, StartRedeem, StartRefresh, StartRevoke,
       StartRevokeGrant, StartErase,
       StartSignIn, Start, Step, Fail, Consume, VetCode, WrongVerifier, Mint, Recheck, Recall,
       SpentCode, Flag, Lookup, SpentPair, VetPair, ReadCreds, Renew, Reread, Reuser, Regrant,
       SaveCreds, Rotate, Remember, MintNext, Revoke, RevokeGrant, Erase, SaveUser, SaveLink,
       Check, Finish, Goto, locals
  <2>2. ASSUME Begin(r) \/ Step(r) \/ Fail(r)
        PROVE  (pc[r] \in {"vetCode", "mint", "recheck"} \/ Consume(r)) /\ arg'[r] = arg[r]
    BY <2>2 DEF Inductive, TypeOK, Begin, StartRedeem, StartRefresh, StartRevoke,
       StartRevokeGrant, StartErase,
       StartSignIn, Start, Step, Fail, Consume, VetCode, WrongVerifier, Mint, Recheck, Recall,
       SpentCode, Flag, Lookup, SpentPair, VetPair, ReadCreds, Renew, Reread, Reuser, Regrant,
       SaveCreds, Rotate, Remember, MintNext, Revoke, RevokeGrant, Erase, SaveUser, SaveLink,
       Check, Finish, Goto, At, locals
  <2>3. Prune \/ Tick \/ UNCHANGED vars => UNCHANGED <<pc, arg>>
    BY DEF Prune, Tick, vars, locals
  <2>4. /\ pc[r] \in {"vetCode", "mint", "recheck"} \/ Consume(r)
        /\ arg'[r] = arg[r]
    BY <2>1, <2>2, <2>3 DEF Next
  <2> QED  BY <2>4 DEF Inductive, TypeOK, CodeCalls, Consume, At
<1>2. now' = now \/ Tick
  BY DEF Next, Begin, StartRedeem, StartRefresh, StartRevoke, StartRevokeGrant, StartErase,
     StartSignIn, Start, Step, Fail, Consume, VetCode, WrongVerifier, Mint, Recheck, Recall,
     SpentCode, Flag, Lookup, SpentPair, VetPair, ReadCreds, Renew, Reread, Reuser, Regrant,
     SaveCreds, Rotate, Remember, MintNext, Revoke, RevokeGrant, Erase, SaveUser, SaveLink,
     Check, Finish, Prune, vars
<1>3. CASE spent[arg[r]] # None /\ pc[r] \in {"vetCode", "mint", "recheck"}
  <2>1. spent'[arg[r]].at = spent[arg[r]].at
    BY <1>1, <1>3, MemosKeep
  <2> QED  BY <1>1, <1>2, <1>3, <2>1 DEF RedemptionsAreInTime, Tick
<1>4. ASSUME NEW q, spent'[arg[r]] = [grant |-> q, client |-> Client[arg[r]],
                                      owner |-> Owner[arg[r]], at |-> now,
                                      expires |-> now + SpentTTL, reused |-> FALSE]
      PROVE  spent'[arg[r]].at = now
  BY <1>4
<1>5. CASE spent[arg[r]] = None
  <2>1. spent'[arg[r]].at = now /\ \E q \in Requests : Consume(q)
    BY <1>1, <1>4, <1>5, MemosOfCodes
  <2>2. now' = now
    BY <2>1 DEF Consume
  <2> QED  BY <1>1, <2>1, <2>2 DEF Inductive, TypeOK
<1>6. CASE spent[arg[r]] # None /\ Consume(r)
  <2>1. pc'[r] = "vetCode" => arg[r] \in codes
    BY <1>6 DEF Consume, Goto, Inductive, TypeOK
  <2>2. pc'[r] = "vetCode"
    BY <1>6 DEF Consume, Goto, Inductive, TypeOK
  <2>3. arg[r] \notin codes
    BY <1>1, <1>6 DEF Inductive, TypeOK, Provenance, SpentNamesItsGrant, OpenedCodesAreGone,
       Secrets, Spent, Grants
  <2> QED  BY <2>1, <2>2, <2>3
<1> QED  BY <1>1, <1>3, <1>5, <1>6

(* A request that recalls a code's grant goes on to do so, or dies.        *)
LEMMA RecallersStay ==
  ASSUME Inductive, [Next]_vars, NEW q \in Requests, pc[q] \in {"recallCode", "dead"}
  PROVE  \/ pc'[q] \in {"recallCode", "dead"} /\ arg'[q] = arg[q] /\ fam'[q] = fam[q]
         \/ Recall(q)
<1> USE DEF Inductive, TypeOK
<1>1. ASSUME NEW r \in Requests, Begin(r) \/ Step(r) \/ Fail(r), r # q
      PROVE  pc'[q] = pc[q] /\ arg'[q] = arg[q] /\ fam'[q] = fam[q]
  BY <1>1 DEF Begin, StartRedeem, StartRefresh, StartRevoke, StartRevokeGrant, StartErase,
     StartSignIn, Start, Step, Fail, Consume, VetCode, WrongVerifier, Mint, Recheck, Recall,
     SpentCode, Flag, Lookup, SpentPair, VetPair, ReadCreds, Renew, Reread, Reuser, Regrant,
     SaveCreds, Rotate, Remember, MintNext, Revoke, RevokeGrant, Erase, SaveUser, SaveLink,
     Check, Finish, Goto, locals
<1>2. ASSUME Begin(q) \/ Step(q) \/ Fail(q), ~Recall(q)
      PROVE  pc'[q] = "dead" /\ arg'[q] = arg[q] /\ fam'[q] = fam[q]
  BY <1>2 DEF Begin, StartRedeem, StartRefresh, StartRevoke, StartRevokeGrant, StartErase,
     StartSignIn, Start, Step, Fail, Consume, VetCode, WrongVerifier, Mint, Recheck,
     SpentCode, Flag, Lookup, SpentPair, VetPair, ReadCreds, Renew, Reread, Reuser, Regrant,
     SaveCreds, Rotate, Remember, MintNext, Revoke, RevokeGrant, Erase, SaveUser, SaveLink,
     Check, Finish, Goto, At
<1>3. Prune \/ Tick \/ UNCHANGED vars => UNCHANGED <<pc, arg, fam>>
  BY DEF Prune, Tick, vars, locals
<1> QED  BY <1>1, <1>2, <1>3 DEF Next

(* The pair of a code is handed out by the look back after saveToken.      *)
LEMMA IssuedAfterRecheck ==
  ASSUME Inductive, [Next]_vars, NEW g \in Requests, arg'[g] \in Codes,
         pc'[g] = "issued", pc[g] # "issued"
  PROVE  /\ pc[g] = "recheck" /\ arg'[g] = arg[g] /\ now' = now /\ spent' = spent
         /\ ~Replayed(arg[g])
<1> USE DEF Inductive, TypeOK
<1>1. ASSUME NEW r \in Requests, Begin(r) \/ Step(r) \/ Fail(r), r # g
      PROVE  pc'[g] = pc[g]
  BY <1>1 DEF Begin, StartRedeem, StartRefresh, StartRevoke, StartRevokeGrant, StartErase,
     StartSignIn, Start, Step, Fail, Consume, VetCode, WrongVerifier, Mint, Recheck, Recall,
     SpentCode, Flag, Lookup, SpentPair, VetPair, ReadCreds, Renew, Reread, Reuser, Regrant,
     SaveCreds, Rotate, Remember, MintNext, Revoke, RevokeGrant, Erase, SaveUser, SaveLink,
     Check, Finish, Goto
<1>2. CASE Recheck(g)
  BY <1>2 DEF Recheck, Finish, Goto, At, tables
<1>3. ASSUME MintNext(g) PROVE FALSE
  BY <1>3 DEF MintNext, Finish, At, PairCalls
<1>4. ASSUME Begin(g) \/ Step(g) \/ Fail(g), ~Recheck(g), ~MintNext(g)
      PROVE  pc'[g] # "issued"
  BY <1>4 DEF Begin, StartRedeem, StartRefresh, StartRevoke, StartRevokeGrant, StartErase,
     StartSignIn, Start, Step, Fail, Consume, VetCode, WrongVerifier, Mint, Recall,
     SpentCode, Flag, Lookup, SpentPair, VetPair, ReadCreds, Renew, Reread, Reuser, Regrant,
     SaveCreds, Rotate, Remember, Revoke, RevokeGrant, Erase, SaveUser, SaveLink,
     Check, Finish, Goto
<1>5. Prune \/ Tick \/ UNCHANGED vars => pc' = pc
  BY DEF Prune, Tick, vars
<1> QED  BY <1>1, <1>2, <1>3, <1>4, <1>5 DEF Next

LEMMA RecalledNext ==
  ASSUME Inductive, [Next]_vars, Recalled
  PROVE  ReplayedCodeIsRecalled'
<1> SUFFICES ASSUME NEW c \in Codes, spent'[c] # None, spent'[c].reused,
                    NEW g, g = spent'[c].grant, tokens'[g] # None, pc'[g] = "issued"
             PROVE  \E q \in Requests \ {g} :
                      arg'[q] = c /\ fam'[q] = g /\ pc'[q] \in {"recallCode", "dead"}
  BY DEF ReplayedCodeIsRecalled
<1>1. c \in Secrets
  BY DEF Secrets
<1>2. spent[c] # None
  <2>1. ASSUME NEW r, spent'[c] = [grant |-> r, client |-> Client[c], owner |-> Owner[c],
                                   at |-> now, expires |-> now + SpentTTL, reused |-> FALSE]
        PROVE  FALSE
    BY <2>1
  <2> QED  BY <2>1, MemosOfCodes
<1>3. spent[c] \in Spent /\ g = spent[c].grant /\ g \in Requests /\ Opened(g) /\ arg[g] = c
  <2>1. spent[c] \in Spent
    BY <1>1, <1>2 DEF Inductive, TypeOK
  <2>2. g = spent[c].grant
    BY <1>2, MemosKeep
  <2> QED  BY <1>1, <1>2, <2>1, <2>2 DEF Inductive, Provenance, SpentNamesItsGrant, Spent, Grants
<1>4. arg'[g] = c
  BY <1>3, OpenedStay DEF Grants
<1>5. CASE ~spent[c].reused
  <2>1. PICK r \in Requests : Flag(r) /\ arg[r] = c /\ fam' = [fam EXCEPT ![r] = g]
    <3>1. spent'[c] # spent[c] /\ spent[c] # None
      BY <1>2, <1>5
    <3>2. spent[c].grant = g
      BY <1>3
    <3>3. PICK r \in Requests : Flag(r) /\ arg[r] = c /\ fam' = [fam EXCEPT ![r] = spent[c].grant]
      BY <3>1, MemosOfCodes, Zenon
    <3> QED  BY <3>2, <3>3
  <2>2. r # g
    BY <1>3, <2>1 DEF Flag, At, Inductive, Provenance, UnspentHaveNoGrant, Unspent, Opened,
       YandexTokens
  <2>3. fam'[r] = g
    BY <2>1 DEF Inductive, TypeOK
  <2>4. arg' = arg /\ pc'[r] = "recallCode"
    <3>1. Recalls(c) \/ spent' = spent
      BY <2>1 DEF Flag
    <3>2. spent' # spent
      BY <1>5
    <3> QED  BY <2>1, <3>1, <3>2 DEF Flag, Goto, Inductive, TypeOK
  <2> QED  BY <2>1, <2>2, <2>3, <2>4
<1>6. CASE spent[c].reused /\ pc[g] = "issued" /\ tokens[g] # None
  <2>1. PICK q \in Requests \ {g} :
          arg[q] = c /\ fam[q] = g /\ pc[q] \in {"recallCode", "dead"}
    BY <1>2, <1>3, <1>6 DEF Recalled, ReplayedCodeIsRecalled
  <2>2. ASSUME Recall(q) PROVE FALSE
    <3>1. tokens[g].grant = g /\ g \in Pairs
      BY <1>3, <1>6 DEF Inductive, Provenance, RowsHaveAnIssuer, Opened, Pairs
    <3>2. g \in Family(fam[q])
      BY <1>6, <2>1, <3>1 DEF Family
    <3> QED  BY <2>2, <3>1, <3>2, DropKeeps DEF Recall, Inductive, TypeOK
  <2> QED  BY <2>1, <2>2, RecallersStay
<1>7. CASE spent[c].reused /\ pc[g] = "issued" /\ tokens[g] = None
  <2>1. Mint(g) \/ MintNext(g)
    BY <1>3, <1>7, RowsOfSteps DEF Pairs
  <2> QED  BY <1>7, <2>1 DEF Mint, MintNext, At
<1>8. CASE spent[c].reused /\ pc[g] # "issued"
  <2>1. pc[g] = "recheck" /\ ~Replayed(c)
    BY <1>3, <1>4, <1>8, IssuedAfterRecheck
  <2>2. spent[c].expires < now
    BY <1>2, <1>3, <1>8, <2>1 DEF Replayed, Recalls, Inductive, TypeOK, Spent
  <2>3. now <= spent[c].at + RequestBound
    BY <1>2, <1>3, <2>1 DEF Recalled, RedemptionsAreInTime
  <2>4. spent[c].expires = spent[c].at + SpentTTL
    BY <1>2 DEF Recalled, SpentCodesKeepTheirHour
  <2>5. spent[c].at \in Nat /\ now \in Nat
    BY <1>3 DEF Spent, Inductive, TypeOK
  <2> QED  BY <2>2, <2>3, <2>4, <2>5
<1> QED  BY <1>5, <1>6, <1>7, <1>8

(* Once a replay of a code is flagged, the pair handed out for the code is *)
(* gone or about to be removed by the request that flagged it: "either it  *)
(* revoked them or this check sees it", given that a redemption ends well  *)
(* within the hour its code is remembered.                                 *)
THEOREM ReplaysAreRecalled == Spec => []ReplayedCodeIsRecalled
<1>1. Init => Recalled
  BY DEF Init, Recalled, SpentCodesKeepTheirHour, RedemptionsAreInTime, ReplayedCodeIsRecalled,
     Secrets
<1>2. Inductive /\ Recalled /\ [Next]_vars => Recalled'
  BY HoursNext, InTimeNext, RecalledNext DEF Recalled
<1>3. Recalled => ReplayedCodeIsRecalled
  BY DEF Recalled
<1> QED  BY <1>1, <1>2, <1>3, InductiveCorrect, PTL DEF Spec

-----------------------------------------------------------------------------
(* A rotated pair is remembered as long as its successor lives.            *)

(* r has withdrawn the pair it presented, and answered with a new one or   *)
(* is about to.                                                            *)
Took(r) == pc[r] \in {"remember", "mintNext"} \/ (pc[r] = "issued" /\ arg[r] \in Pairs)

PairsAreTakenOnce ==
  /\ \A r \in Requests : Took(r) => Presentable(arg[r]) /\ tokens[arg[r]] = None
  /\ \A r, q \in Requests : Took(r) /\ Took(q) /\ arg[r] = arg[q] => r = q

RotationsAreInTime ==
  \A r \in Requests : pc[r] = "mintNext" /\ spent[arg[r]] # None
                        => now <= spent[arg[r]].at + RequestBound

(* Between recordSpentSecret and saveToken.  A request longer than the     *)
(* life of a token could find its record swept away.                       *)
RotationIsRemembered ==
  \A r \in Requests : pc[r] = "mintNext" /\ fam[r] \notin erased /\ RequestBound <= TokenTTL =>
    /\ spent[arg[r]] # None
    /\ spent[arg[r]].grant = fam[r] /\ spent[arg[r]].owner = seen[r].owner
    /\ spent[arg[r]].expires >= spent[arg[r]].at + TokenTTL

(* After saveToken: the record outlives the row by all but the time the    *)
(* request took, and they share their owner, so that one does not go       *)
(* without the other.                                                      *)
SuccessorIsCovered ==
  \A r \in Requests :
    arg[r] \in Pairs /\ pc[r] = "issued" /\ tokens[r] # None
      /\ tokens[r].grant \notin erased /\ tokens[r].expires >= now + RequestBound
    => /\ spent[arg[r]] # None
       /\ spent[arg[r]].grant = tokens[r].grant /\ spent[arg[r]].owner = tokens[r].owner
       /\ tokens[r].expires <= spent[arg[r]].expires + RequestBound

Remembered ==
  PairsAreTakenOnce /\ RotationsAreInTime /\ RotationIsRemembered /\ SuccessorIsCovered

(* How a request gets to the steps after withdrawing its pair.             *)
LEMMA TookOfSteps ==
  ASSUME Inductive, [Next]_vars, NEW r \in Requests, Took(r)'
  PROVE  /\ arg'[r] = arg[r] /\ arg[r] \in Pairs
         /\ \/ Rotate(r) /\ pc[r] = "rotate" /\ pc'[r] = "remember" /\ tokens[arg[r]] # None
            \/ Remember(r) /\ pc[r] = "remember" /\ pc'[r] = "mintNext"
            \/ MintNext(r) /\ pc[r] = "mintNext" /\ pc'[r] = "issued"
            \/ Took(r) /\ pc'[r] = pc[r]
<1> USE DEF Inductive, TypeOK, Took
<1>1. ASSUME NEW q \in Requests, Begin(q) \/ Step(q) \/ Fail(q), q # r
      PROVE  pc'[r] = pc[r] /\ arg'[r] = arg[r]
  BY <1>1 DEF Begin, StartRedeem, StartRefresh, StartRevoke, StartRevokeGrant, StartErase,
     StartSignIn, Start, Step, Fail, Consume, VetCode, WrongVerifier, Mint, Recheck, Recall,
     SpentCode, Flag, Lookup, SpentPair, VetPair, ReadCreds, Renew, Reread, Reuser, Regrant,
     SaveCreds, Rotate, Remember, MintNext, Revoke, RevokeGrant, Erase, SaveUser, SaveLink,
     Check, Finish, Goto, locals
<1>2. CASE Rotate(r)
  BY <1>2 DEF Rotate, RowFound, Finish, Goto, At, PairCalls, RefreshCalls
<1>3. CASE Remember(r)
  BY <1>3 DEF Remember, Goto, At, PairCalls, locals
<1>4. CASE MintNext(r)
  BY <1>4 DEF MintNext, Finish, Goto, At, PairCalls
<1>5. ASSUME Recheck(r) PROVE FALSE
  <2>1. pc[r] = "recheck" /\ arg[r] \in Codes /\ arg' = arg
    BY <1>5 DEF Recheck, Finish, At, CodeCalls, locals
  <2> QED  BY <1>5, <2>1 DEF Recheck, Finish, Goto
<1>6. ASSUME Begin(r) \/ Step(r) \/ Fail(r), ~Rotate(r), ~Remember(r), ~MintNext(r), ~Recheck(r)
      PROVE  FALSE
  BY <1>6 DEF Begin, StartRedeem, StartRefresh, StartRevoke, StartRevokeGrant, StartErase,
     StartSignIn, Start, Step, Fail, Consume, VetCode, WrongVerifier, Mint, Recall,
     SpentCode, Flag, Lookup, SpentPair, VetPair, ReadCreds, Renew, Reread, Reuser, Regrant,
     SaveCreds, Revoke, RevokeGrant, Erase, SaveUser, SaveLink,
     Check, Finish, Goto
<1>7. Prune \/ Tick \/ UNCHANGED vars => UNCHANGED <<pc, arg>>
  BY DEF Prune, Tick, vars, locals
<1>8. pc'[r] = pc[r] /\ arg'[r] = arg[r] => Took(r) /\ arg[r] \in Pairs
  BY DEF PairCalls
<1> QED  BY <1>1, <1>2, <1>3, <1>4, <1>5, <1>6, <1>7, <1>8 DEF Next

(* A pair that was handed out stays handed out.                            *)
LEMMA PresentableStays ==
  ASSUME Inductive, [Next]_vars, NEW p \in Pairs, Presentable(p)
  PROVE  Presentable(p)'
<1> USE DEF Inductive, TypeOK
<1>1. ASSUME NEW r \in Requests, Begin(r) \/ Step(r) \/ Fail(r), p \in Requests, pc[p] = "issued"
      PROVE  pc'[p] = pc[p]
  BY <1>1 DEF Begin, StartRedeem, StartRefresh, StartRevoke, StartRevokeGrant, StartErase,
     StartSignIn, Start, Step, Fail, Consume, VetCode, WrongVerifier, Mint, Recheck, Recall,
     SpentCode, Flag, Lookup, SpentPair, VetPair, ReadCreds, Renew, Reread, Reuser, Regrant,
     SaveCreds, Rotate, Remember, MintNext, Revoke, RevokeGrant, Erase, SaveUser, SaveLink,
     Check, Finish, Goto, At, Ended
<1>2. Prune \/ Tick \/ UNCHANGED vars => pc' = pc
  BY DEF Prune, Tick, vars
<1> QED  BY <1>1, <1>2 DEF Next, Presentable

LEMMA TakenNext ==
  ASSUME Inductive, [Next]_vars, PairsAreTakenOnce
  PROVE  PairsAreTakenOnce'
<1>1. ASSUME NEW r \in Requests, Took(r)', NEW p, p = arg'[r]
      PROVE  Presentable(p)' /\ tokens'[p] = None
  <2>1. p = arg[r] /\ p \in Pairs
    BY <1>1, TookOfSteps
  <2>2. Presentable(p)
    <3>1. CASE Rotate(r) /\ pc[r] = "rotate"
      BY <2>1, <3>1 DEF Inductive, Provenance, ArgumentsWereIssued, PairCalls, RefreshCalls
    <3>2. CASE pc[r] \in {"remember", "mintNext"} \/ Took(r)
      BY <2>1, <3>2 DEF PairsAreTakenOnce, Took
    <3> QED  BY <1>1, <3>1, <3>2, TookOfSteps
  <2>3. ASSUME tokens[p] = None PROVE tokens'[p] = None
    <3>1. p \in Requests => pc[p] = "issued"
      BY <2>2 DEF Presentable
    <3> QED  BY <2>1, <2>3, <3>1, RowsOfSteps DEF Mint, MintNext, At
  <2>4. CASE Rotate(r) /\ tokens[arg[r]] # None
    <3>1. DropRows({arg[r]})
      BY <2>4 DEF Rotate, RowFound
    <3>2. Presentable(p)'
      BY <2>1, <2>2, PresentableStays
    <3> QED  BY <2>1, <3>1, <3>2, DropKeeps DEF Inductive, TypeOK
  <2>5. CASE pc[r] \in {"remember", "mintNext"} \/ Took(r)
    <3>1. Presentable(p)'
      BY <2>1, <2>2, PresentableStays
    <3> QED  BY <2>1, <2>3, <2>5, <3>1 DEF PairsAreTakenOnce, Took
  <2> QED  BY <1>1, <2>4, <2>5, TookOfSteps
<1>2. ASSUME NEW r \in Requests, NEW q \in Requests, Took(r)', Took(q)', arg'[r] = arg'[q], r # q
      PROVE  FALSE
  <2>1. arg'[r] = arg[r] /\ arg'[q] = arg[q]
    BY <1>2, TookOfSteps
  <2>2. Took(r) \/ (Rotate(r) /\ tokens[arg[r]] # None)
    BY <1>2, TookOfSteps DEF Took
  <2>3. Took(q) \/ (Rotate(q) /\ tokens[arg[q]] # None)
    BY <1>2, TookOfSteps DEF Took
  <2>4. ~(Rotate(r) /\ Rotate(q))
    BY <1>2 DEF Rotate, Finish, Goto, At, Took, Inductive, TypeOK
  <2> QED  BY <1>2, <2>1, <2>2, <2>3, <2>4 DEF PairsAreTakenOnce
<1> QED  BY <1>1, <1>2 DEF PairsAreTakenOnce

(* What r recorded of its pair is overwritten by nobody.                   *)
LEMMA OwnMemoStays ==
  ASSUME Inductive, [Next]_vars, PairsAreTakenOnce, NEW r \in Requests, Took(r), pc[r] # "remember",
         arg[r] \in Pairs
  PROVE  spent'[arg[r]] \in {spent[arg[r]], None}
<1>1. ASSUME NEW q \in Requests, Remember(q), arg[q] = arg[r] PROVE FALSE
  <2>1. Took(q) /\ q # r
    BY <1>1 DEF Remember, At, Took
  <2> QED  BY <1>1, <2>1 DEF PairsAreTakenOnce
<1> QED  BY <1>1, MemosOfPairs

(* Time goes on, and what is erased stays so.                              *)
LEMMA OnlyTickMovesTime ==
  ASSUME [Next]_vars
  PROVE  now' = now \/ (Tick /\ now' = now + 1)
BY DEF Next, Begin, StartRedeem, StartRefresh, StartRevoke, StartRevokeGrant, StartErase,
     StartSignIn, Start, Step, Fail, Consume, VetCode, WrongVerifier, Mint, Recheck, Recall,
     SpentCode, Flag, Lookup, SpentPair, VetPair, ReadCreds, Renew, Reread, Reuser, Regrant,
     SaveCreds, Rotate, Remember, MintNext, Revoke, RevokeGrant, Erase, SaveUser, SaveLink,
     Check, Finish, Prune, Tick, vars

LEMMA ErasedStay ==
  ASSUME [Next]_vars
  PROVE  erased \subseteq erased'
BY DEF Next, Begin, StartRedeem, StartRefresh, StartRevoke, StartRevokeGrant, StartErase,
     StartSignIn, Start, Step, Fail, Consume, VetCode, WrongVerifier, Mint, Recheck, Recall,
     SpentCode, Flag, Lookup, SpentPair, VetPair, ReadCreds, Renew, Reread, Reuser, Regrant,
     SaveCreds, Rotate, Remember, MintNext, Revoke, RevokeGrant, Erase, SaveUser, SaveLink,
     Check, Finish, Prune, Tick, vars, history

(* What recordSpentSecret writes.                                          *)
LEMMA RememberWrites ==
  ASSUME Inductive, NEW r \in Requests, Remember(r)
  PROVE  /\ spent'[arg[r]] \in Spent /\ spent'[arg[r]].grant = fam[r]
         /\ spent'[arg[r]].owner = seen[r].owner /\ spent'[arg[r]].at = now
         /\ spent'[arg[r]].expires >= now + TokenTTL
         /\ now' = now /\ UNCHANGED <<arg, fam, seen, erased>>
<1> USE DEF Inductive, TypeOK
<1> DEFINE memo == [grant |-> fam[r], client |-> seen[r].client, owner |-> seen[r].owner,
                    at |-> now, expires |-> KeepUntil(r), reused |-> FALSE]
<1>1. seen[r] \in Row /\ fam[r] \in Grants /\ arg[r] \in Secrets
  BY DEF Remember, At, Holding, PairCalls, Secrets
<1>2. KeepUntil(r) \in Nat /\ KeepUntil(r) >= now + TokenTTL
  BY <1>1 DEF KeepUntil, Row
<1>3. memo \in Spent
  BY <1>1, <1>2 DEF Spent, Row
<1>4. Sweep(spent) \in [Secrets -> Spent \cup {None}]
  BY SweepKeeps
<1>5. spent' = [Sweep(spent) EXCEPT ![arg[r]] = memo]
  BY DEF Remember
<1>6. spent'[arg[r]] = memo
  BY <1>1, <1>4, <1>5
<1> QED  BY <1>2, <1>3, <1>6 DEF Remember, locals, history

LEMMA RotationNext ==
  ASSUME Inductive, [Next]_vars, Remembered
  PROVE  RotationsAreInTime' /\ RotationIsRemembered'
<1> SUFFICES ASSUME NEW r \in Requests, pc'[r] = "mintNext", NEW p, p = arg'[r]
             PROVE  /\ spent'[p] # None => now' <= spent'[p].at + RequestBound
                    /\ fam'[r] \notin erased' /\ RequestBound <= TokenTTL =>
                         /\ spent'[p] # None
                         /\ spent'[p].grant = fam'[r] /\ spent'[p].owner = seen'[r].owner
                         /\ spent'[p].expires >= spent'[p].at + TokenTTL
  BY DEF RotationsAreInTime, RotationIsRemembered
<1>1. p = arg[r] /\ p \in Pairs /\ p \in Secrets /\ (Remember(r) \/ pc[r] = "mintNext")
  BY TookOfSteps DEF Took, Secrets
<1>2. CASE Remember(r)
  <2>1. spent'[p] \in Spent
    BY <1>1, <1>2, RememberWrites
  <2> QED  BY <1>1, <1>2, <2>1, RememberWrites DEF Inductive, TypeOK
<1>3. CASE pc[r] = "mintNext"
  <2>1. Took(r) /\ Holding(r) /\ pc[r] # "remember"
    BY <1>3 DEF Took, Holding
  <2>2. spent'[p] \in {spent[p], None}
    BY <1>1, <2>1, OwnMemoStays DEF Remembered
  <2>3. fam'[r] = fam[r] /\ seen'[r] = seen[r] /\ seen[r] \in Row /\ fam[r] \in Grants
    <3>1. Holding(r)' /\ ~Consume(r) /\ ~Rotate(r)
      BY <1>3 DEF Holding, Consume, Rotate, At
    <3> QED  BY <2>1, <3>1, HoldersOfSteps DEF Inductive, TypeOK
  <2>4. spent[p] # None => now <= spent[p].at + RequestBound /\ spent[p] \in Spent
    BY <1>1, <1>3 DEF Remembered, RotationsAreInTime, Inductive, TypeOK
  <2>5. spent'[p] # None => now' <= spent'[p].at + RequestBound
    BY <1>1, <1>3, <2>2, <2>4, OnlyTickMovesTime DEF Tick
  <2>6. ASSUME fam'[r] \notin erased', RequestBound <= TokenTTL
        PROVE  /\ spent'[p] # None
               /\ spent'[p].grant = fam'[r] /\ spent'[p].owner = seen'[r].owner
               /\ spent'[p].expires >= spent'[p].at + TokenTTL
    <3>1. fam[r] \notin erased
      BY <2>3, <2>6, ErasedStay
    <3>2. /\ spent[p] # None /\ spent[p].grant = fam[r] /\ spent[p].owner = seen[r].owner
          /\ spent[p].expires >= spent[p].at + TokenTTL
      BY <1>1, <1>3, <2>6, <3>1 DEF Remembered, RotationIsRemembered
    <3>3. ~(spent[p].expires < now)
      BY <2>4, <2>6, <3>2 DEF Spent, Inductive, TypeOK
    <3>4. ASSUME NEW q \in Requests, Erase(q), arg[q] \in Users, spent[p].owner = arg[q]
          PROVE  FALSE
      <4>1. fam[r] \in GrantsOf(arg[q], Clients)
        BY <2>1, <2>3, <3>2, <3>4 DEF GrantsOf, Row
      <4> QED  BY <2>3, <2>6, <3>4, <4>1 DEF Erase
    <3>5. spent'[p] # None
      BY <1>1, <3>2, <3>3, <3>4, MemosForgotten
    <3> QED  BY <2>2, <2>3, <3>2, <3>5
  <2> QED  BY <2>5, <2>6
<1> QED  BY <1>1, <1>2, <1>3

LEMMA CoveredNext ==
  ASSUME Inductive, [Next]_vars, Remembered
  PROVE  SuccessorIsCovered'
<1> SUFFICES ASSUME NEW r \in Requests, NEW p, p = arg'[r], p \in Pairs, pc'[r] = "issued",
                    tokens'[r] # None, tokens'[r].grant \notin erased',
                    tokens'[r].expires >= now' + RequestBound
             PROVE  /\ spent'[p] # None
                    /\ spent'[p].grant = tokens'[r].grant
                    /\ spent'[p].owner = tokens'[r].owner
                    /\ tokens'[r].expires <= spent'[p].expires + RequestBound
  BY DEF SuccessorIsCovered
<1> USE DEF Inductive, TypeOK
<1>1. p = arg[r] /\ p \in Secrets /\ r \in Pairs
      /\ (MintNext(r) \/ (Took(r) /\ pc[r] = "issued"))
  BY TookOfSteps DEF Took, Secrets, Pairs
<1>2. CASE MintNext(r)
  <2>1. /\ pc[r] = "mintNext" /\ seen[r] \in Row /\ fam[r] \in Grants
        /\ UNCHANGED <<now, spent, erased>>
    BY <1>2 DEF MintNext, At, Holding, history
  <2>2. tokens'[r] = [owner |-> seen[r].owner, client |-> seen[r].client,
                      grant |-> fam[r], expires |-> now + TokenTTL]
    BY <1>1, <1>2 DEF MintNext, InsertPair
  <2>3. RequestBound <= TokenTTL /\ fam[r] \notin erased
    BY <2>1, <2>2
  <2>4. /\ spent[p] # None /\ spent[p].grant = fam[r] /\ spent[p].owner = seen[r].owner
        /\ spent[p].expires >= spent[p].at + TokenTTL
    BY <1>1, <2>1, <2>3 DEF Remembered, RotationIsRemembered
  <2>5. now <= spent[p].at + RequestBound /\ spent[p] \in Spent
    BY <1>1, <2>1, <2>4 DEF Remembered, RotationsAreInTime
  <2>6. now + TokenTTL <= spent[p].expires + RequestBound
    BY <2>4, <2>5 DEF Spent
  <2> QED  BY <2>1, <2>2, <2>4, <2>6
<1>3. CASE Took(r) /\ pc[r] = "issued"
  <2>1. tokens'[r] = tokens[r] /\ tokens[r] \in Row
    BY <1>1, <1>3, RowsOfSteps DEF Mint, MintNext, At
  <2>2. tokens[r].grant \notin erased /\ tokens[r].expires >= now + RequestBound
    BY <2>1, ErasedStay, OnlyTickMovesTime DEF Row
  <2>3. /\ spent[p] # None /\ spent[p].grant = tokens[r].grant
        /\ spent[p].owner = tokens[r].owner
        /\ tokens[r].expires <= spent[p].expires + RequestBound
    BY <1>1, <1>3, <2>1, <2>2 DEF Remembered, SuccessorIsCovered
  <2>4. spent[p] \in Spent
    BY <1>1, <2>3
  <2>5. ~(spent[p].expires < now)
    BY <2>1, <2>2, <2>3, <2>4 DEF Spent, Row
  <2>6. ASSUME NEW q \in Requests, Erase(q), spent[p].owner = arg[q] PROVE FALSE
    <3>1. r \in RowsOf(arg[q], Clients)
      BY <1>1, <2>1, <2>3, <2>6 DEF RowsOf, Row
    <3> QED  BY <1>1, <2>6, <3>1, DropKeeps DEF Erase
  <2>7. spent'[p] = spent[p]
    <3>1. spent'[p] # None
      BY <1>1, <2>3, <2>5, <2>6, MemosForgotten
    <3> QED  BY <1>1, <1>3, <3>1, OwnMemoStays DEF Remembered
  <2> QED  BY <2>1, <2>3, <2>7
<1> QED  BY <1>1, <1>2, <1>3

(* A refresh token that was rotated is remembered, under the grant of its  *)
(* successor, for as long as the successor can be used, up to the time its *)
(* own request took (REFRESH reuse in handleRefreshToken depends on it),   *)
(* unless the account was deleted in between.                              *)
THEOREM RotatedAreRemembered == Spec => []SpentOutlivesSuccessor
<1>1. Init => Remembered
  BY DEF Init, Remembered, PairsAreTakenOnce, RotationsAreInTime, RotationIsRemembered,
     SuccessorIsCovered, Took
<1>2. Inductive /\ Remembered /\ [Next]_vars => Remembered'
  BY TakenNext, RotationNext, CoveredNext DEF Remembered
<1>3. ASSUME Inductive, Remembered PROVE SpentOutlivesSuccessor
  <2> SUFFICES ASSUME NEW r \in Requests, arg[r] \in Pairs, pc[r] = "issued", tokens[r] # None,
                      tokens[r].grant \notin erased, tokens[r].expires >= now + RequestBound
               PROVE  Recalls(arg[r]) /\ spent[arg[r]].grant = tokens[r].grant
    BY DEF SpentOutlivesSuccessor
  <2>1. /\ spent[arg[r]] # None /\ spent[arg[r]].grant = tokens[r].grant
        /\ tokens[r].expires <= spent[arg[r]].expires + RequestBound
    BY <1>3 DEF Remembered, SuccessorIsCovered
  <2>2. spent[arg[r]] \in Spent /\ tokens[r] \in Row
    BY <1>3, <2>1 DEF Inductive, TypeOK, Secrets, Pairs
  <2> QED  BY <1>3, <2>1, <2>2 DEF Recalls, Spent, Row, Inductive, TypeOK
<1> QED  BY <1>1, <1>2, <1>3, InductiveCorrect, PTL DEF Spec
=============================================================================
