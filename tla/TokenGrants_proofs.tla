------------------------- MODULE TokenGrants_proofs -------------------------
(***************************************************************************)
(* Theorems about TokenGrants for every set of accounts, clients, codes,   *)
(* requests and every choice of the time constants.                        *)
(***************************************************************************)
EXTENDS TokenGrants, TLAPS

USE ParameterAssumption, TimeAssumption, IdentityAssumption

(* Sweeping a table only turns rows into missing rows.                     *)
LEMMA SweepKeeps ==
  ASSUME NEW S, NEW T, NEW table \in [S -> T \cup {None}]
  PROVE  /\ Sweep(table) \in [S -> T \cup {None}]
         /\ \A s \in S : Sweep(table)[s] \in {table[s], None}
BY DEF Sweep

(* Removing rows keeps the type of the token table.                        *)
LEMMA DropKeeps ==
  ASSUME NEW P, DropRows(P), tokens \in [Pairs -> Row \cup {None}]
  PROVE  /\ tokens' \in [Pairs -> Row \cup {None}]
         /\ \A p \in Pairs : tokens'[p] = IF p \in P THEN None ELSE tokens[p]
BY DEF DropRows

(* The types hold at first.                                                *)
LEMMA TypeInit == Init => TypeOK
BY DEF Init, TypeOK, Pairs, Grants, Secrets, YandexTokens, Row, Labels, CodeCalls, PairCalls,
       RefreshCalls, AccountCalls, Ended, Holding


(* The sets TypeOK is made of, for the steps below.                        *)
LEMMA TypeNext == TypeOK /\ [Next]_vars => TypeOK'
<1> SUFFICES ASSUME TypeOK, [Next]_vars PROVE TypeOK'
  OBVIOUS
<1> USE DEF TypeOK, Labels, CodeCalls, PairCalls, RefreshCalls, AccountCalls, Ended, Holding,
            At, Goto, tables, locals, history, Secrets, Grants
<1>1. ASSUME NEW r \in Requests, Begin(r) PROVE TypeOK'
  BY <1>1 DEF Begin, StartRedeem, StartRefresh, StartRevoke, StartRevokeGrant, StartErase,
              StartSignIn, Start
<1>2. ASSUME NEW r \in Requests, Fail(r) PROVE TypeOK'
  BY <1>2 DEF Fail, Finish
<1>3. ASSUME NEW r \in Requests, NEW from, NEW ok, NEW yes,
             Check(r, from, ok, yes),
             from \in Labels, yes \in Labels,
             \/ from \in RefreshCalls /\ yes \in RefreshCalls
             \/ from = "vetCode" /\ yes = "mint"
             \/ from = "spentCode" /\ yes = "flag"
      PROVE  TypeOK'
  BY <1>3 DEF Check, Finish
<1>4. ASSUME NEW r \in Requests, Consume(r) PROVE TypeOK'
  <2> DEFINE c == arg[r]
  <2>1. c \in Codes /\ pc[r] = "consume"
    BY <1>4 DEF Consume
  <2>2. /\ Sweep(spent) \in [Secrets -> Spent \cup {None}]
    BY SweepKeeps
  <2>3. CASE c \in codes /\ CodeTTL >= now
    <3> DEFINE memo == [grant |-> r, client |-> Client[c], owner |-> Owner[c],
                        at |-> now, expires |-> now + SpentTTL, reused |-> FALSE]
               swept == Sweep(spent)
    <3>1. memo \in Spent
      BY <2>1 DEF Spent
    <3>2. [owner |-> Owner[c], client |-> Client[c], grant |-> r, expires |-> CodeTTL] \in Row
      BY <2>1 DEF Row
    <3>3. spent' = [swept EXCEPT ![c] = IF @ = None THEN memo ELSE @]
      BY <1>4, <2>3 DEF Consume
    <3>4. spent' \in [Secrets -> Spent \cup {None}]
      <4> HIDE DEF memo, swept
      <4> QED BY <3>3, <3>1, <2>1, <2>2 DEF swept
    <3>5. /\ seen' \in [Requests -> Row \cup {None}] /\ seen'[r] # None
          /\ fam' \in [Requests -> Grants \cup {None}] /\ fam'[r] # None
      BY <1>4, <2>3, <3>2 DEF Consume, YandexTokens
    <3>6. pc' = [pc EXCEPT ![r] = "vetCode"] /\ codes' \subseteq Codes
      BY <1>4, <2>3 DEF Consume, CodesLeft
    <3> QED BY <1>4, <2>1, <2>3, <3>4, <3>5, <3>6 DEF Consume
  <2>4. CASE ~(c \in codes /\ CodeTTL >= now)
    BY <1>4, <2>1, <2>2, <2>4 DEF Consume, CodesLeft
  <2> QED BY <2>3, <2>4
<1>5. ASSUME NEW r \in Requests, Mint(r) \/ MintNext(r) PROVE TypeOK'
  <2>1. [owner |-> seen[r].owner, client |-> seen[r].client,
         grant |-> fam[r], expires |-> now + TokenTTL] \in Row
    BY <1>5 DEF Mint, MintNext, Row
  <2>2. tokens' \in [Pairs -> Row \cup {None}]
    BY <1>5, <2>1 DEF Mint, MintNext, InsertPair, Pairs
  <2> QED BY <1>5, <2>2 DEF Mint, MintNext, Finish
<1>6. ASSUME NEW r \in Requests, Recheck(r) PROVE TypeOK'
  BY <1>6 DEF Recheck, Finish
<1>7. ASSUME NEW r \in Requests, Recall(r) PROVE TypeOK'
  BY <1>7, DropKeeps DEF Recall, Finish
<1>8. ASSUME NEW r \in Requests, Flag(r) PROVE TypeOK'
  <2>1. arg[r] \in Codes /\ pc[r] = "flag"
    BY <1>8 DEF Flag
  <2>2. CASE Recalls(arg[r])
    <3>1. spent[arg[r]] \in Spent
      BY <2>1, <2>2 DEF Recalls
    <3>2. /\ [spent[arg[r]] EXCEPT !.reused = TRUE] \in Spent
          /\ spent[arg[r]].grant \in Requests /\ spent[arg[r]].grant # None
      BY <3>1 DEF Spent, YandexTokens
    <3>3. spent' = [spent EXCEPT ![arg[r]] = [spent[arg[r]] EXCEPT !.reused = TRUE]]
      BY <1>8, <2>2 DEF Flag
    <3>4. spent' \in [Secrets -> Spent \cup {None}]
      BY <2>1, <3>2, <3>3
    <3> QED BY <1>8, <2>1, <2>2, <3>2, <3>4 DEF Flag
  <2>3. CASE ~Recalls(arg[r])
    BY <1>8, <2>3 DEF Flag, Finish
  <2> QED BY <2>2, <2>3
<1>9. ASSUME NEW r \in Requests, Lookup(r) PROVE TypeOK'
  BY <1>9 DEF Lookup, Live
<1>10. ASSUME NEW r \in Requests, SpentPair(r) PROVE TypeOK'
  <2>1. arg[r] \in Pairs
    BY <1>10 DEF SpentPair
  <2>2. Recalls(arg[r]) => spent[arg[r]].grant \in Requests /\ spent[arg[r]].grant # None
    BY <2>1 DEF Recalls, Spent, YandexTokens
  <2> QED BY <1>10, <2>1, <2>2 DEF SpentPair, Finish
<1>11. ASSUME NEW r \in Requests, ReadCreds(r) PROVE TypeOK'
  <2>1. seen[r].owner \in Users
    BY <1>11 DEF ReadCreds, Row
  <2> QED BY <1>11, <2>1 DEF ReadCreds, Finish
<1>12. ASSUME NEW r \in Requests, SaveCreds(r) PROVE TypeOK'
  BY <1>12 DEF SaveCreds, Finish, YandexTokens
<1>13. ASSUME NEW r \in Requests, Rotate(r) PROVE TypeOK'
  <2>1. GrantOfRotation(r) \in Requests /\ GrantOfRotation(r) # None
    BY <1>13 DEF Rotate, GrantOfRotation, Row, YandexTokens
  <2> QED BY <1>13, <2>1, DropKeeps DEF Rotate, Finish
<1>14. ASSUME NEW r \in Requests, Remember(r) PROVE TypeOK'
  <2>1. /\ arg[r] \in Pairs /\ seen[r] \in Row /\ fam[r] \in Requests /\ pc[r] = "remember"
    BY <1>14 DEF Remember
  <2>2. [grant |-> fam[r], client |-> seen[r].client, owner |-> seen[r].owner,
         at |-> now, expires |-> KeepUntil(r), reused |-> FALSE] \in Spent
    BY <2>1 DEF Spent, Row, KeepUntil
  <2>3. Sweep(spent) \in [Secrets -> Spent \cup {None}]
    BY SweepKeeps
  <2>4. spent' \in [Secrets -> Spent \cup {None}]
    BY <1>14, <2>2, <2>3 DEF Remember
  <2> QED BY <1>14, <2>1, <2>4 DEF Remember
<1>15. ASSUME NEW r \in Requests, Revoke(r) PROVE TypeOK'
  BY <1>15, DropKeeps DEF Revoke, Finish
<1>16. ASSUME NEW r \in Requests, RevokeGrant(r) PROVE TypeOK'
  BY <1>16, DropKeeps DEF RevokeGrant, Finish, GrantsOf
<1>17. ASSUME NEW r \in Requests, Erase(r) PROVE TypeOK'
  BY <1>17, DropKeeps DEF Erase, Finish, GrantsOf
<1>18. ASSUME NEW r \in Requests, SaveUser(r) PROVE TypeOK'
  BY <1>18 DEF SaveUser
<1>19. ASSUME NEW r \in Requests, SaveLink(r) PROVE TypeOK'
  BY <1>19 DEF SaveLink, Finish, YandexTokens
<1>20. CASE Prune
  BY <1>20, SweepKeeps DEF Prune
<1>21. CASE Tick
  BY <1>21 DEF Tick
<1>22. CASE UNCHANGED vars
  BY <1>22 DEF vars
<1>23. ASSUME NEW r \in Requests, Step(r) PROVE TypeOK'
  <2>1. CASE VetCode(r) \/ WrongVerifier(r) \/ SpentCode(r) \/ VetPair(r) \/ Renew(r)
             \/ Reread(r) \/ Reuser(r) \/ Regrant(r)
    BY <2>1, <1>3 DEF VetCode, WrongVerifier, SpentCode, VetPair, Renew, Reread, Reuser, Regrant
  <2> QED BY <1>23, <2>1, <1>4, <1>5, <1>6, <1>7, <1>8, <1>9, <1>10, <1>11, <1>12, <1>13, <1>14,
             <1>15, <1>16, <1>17, <1>18, <1>19 DEF Step
<1> QED BY <1>1, <1>2, <1>20, <1>21, <1>22, <1>23 DEF Next

(* Every reachable state is well typed, and each request has at hand what  *)
(* its next call needs (handleToken never dereferences a missing row).     *)
THEOREM TypeCorrect == Spec => []TypeOK
BY TypeInit, TypeNext, PTL DEF Spec

-----------------------------------------------------------------------------
(* One pair per grant.                                                     *)

Inductive == TypeOK /\ OneHolder /\ Provenance

USE DEF Provenance

(* Nothing has been opened, and no legacy pair names a grant.              *)
LEMMA InductiveInit == Init => Inductive
<1> SUFFICES ASSUME Init PROVE OneHolder /\ Provenance
  BY TypeInit DEF Inductive
<1>1. \A p \in Pairs : tokens[p] # None => p \in Legacy /\ tokens[p].grant = None
  BY DEF Init
<1>2. \A r \in Requests : pc[r] = "idle" /\ fam[r] = None /\ arg[r] = None /\ tokens[r] = None
  BY DEF Init, Pairs
<1>3. None \notin Grants
  BY DEF YandexTokens, Grants
<1> QED BY <1>1, <1>2, <1>3 DEF OneHolder, OneLivePair, Family, Holding, Opened, Pairs, Grants,
      PairCalls, RefreshCalls, RowsHaveAnIssuer, UnspentHaveNoGrant, ArgumentsWereIssued,
      SeenIsCurrent, HeldGrantsAreOpen, GrantsOfRowsAreOpen, OpenedCodesAreGone, SpentNamesItsGrant, Init

(* A step that removes rows at most, leaves grant ids and arguments alone, *)
(* and moves r on among calls of the same kind, or ends it.                *)
Onward(r, to) ==
  \/ to \in {"failed", "done", "dead"} /\ pc[r] \notin Ended
  \/ to = "issued" /\ pc[r] = "recheck"
  \/ to \in RefreshCalls /\ pc[r] \in RefreshCalls
  \/ to = "mint" /\ pc[r] = "vetCode"
  \/ to = "mintNext" /\ pc[r] = "remember"
  \/ to = "spentCode" /\ pc[r] = "consume"
  \/ to = "flag" /\ pc[r] = "spentCode"
  \/ to = "recallOwn" /\ pc[r] = "recheck"
  \/ to = "saveLink" /\ pc[r] = "saveUser"

(* A step that at most removes rows and codes, remembers nothing new and   *)
(* moves one request onward keeps everything there is to know.             *)
LEMMA Forward ==
  ASSUME Inductive, NEW r \in Requests, NEW to,
         UNCHANGED <<arg, fam>>, codes' \subseteq codes,
         \A p \in Pairs : tokens'[p] \in {tokens[p], None},
         pc' = [pc EXCEPT ![r] = to],
         Onward(r, to),
         \A s \in Secrets : spent'[s] # None =>
           \/ spent[s] # None /\ spent'[s].grant = spent[s].grant
           \/ s \in Pairs /\ Opened(spent'[s].grant),
         to = "done" => pc[r] \in {"revoke"} \cup AccountCalls,
         \/ seen' = seen
         \/ to \in Ended /\ seen' = [seen EXCEPT ![r] = None]
  PROVE  OneHolder' /\ Provenance'
<1> USE DEF Inductive, TypeOK
<1>1. \A q \in Requests : q # r => pc'[q] = pc[q] /\ seen'[q] = seen[q]
  OBVIOUS
<1>2. pc'[r] = to
  OBVIOUS
<1>3. \A q \in Requests : tokens'[q] # None => tokens'[q] = tokens[q]
  BY DEF Pairs
<1>4. \A q \in Requests : Holding(q)' => Holding(q)
  BY <1>1, <1>2 DEF Holding, RefreshCalls, Onward
<1>5. OneHolder'
  <2>1. \A g : Family(g)' \subseteq Family(g)
    BY DEF Family
  <2> QED BY <2>1, <1>4 DEF OneHolder, OneLivePair
<1>6. RowsHaveAnIssuer'
  <2>1. pc[r] \in {"revoke"} \cup AccountCalls => tokens[r] = None
    BY DEF RowsHaveAnIssuer, AccountCalls
  <2> QED BY <1>1, <1>2, <1>3, <2>1 DEF RowsHaveAnIssuer, RefreshCalls, Onward, Ended
<1>7. UnspentHaveNoGrant'
  BY <1>1, <1>2 DEF UnspentHaveNoGrant, Unspent, RefreshCalls, Onward
<1>8. ArgumentsWereIssued'
  <2>1. \A p \in Pairs : Presentable(p) => Presentable(p)'
    BY <1>1, <1>2 DEF Presentable, Ended, RefreshCalls, Onward
  <2>2. \A q \in Requests : pc'[q] \in PairCalls => pc[q] \in PairCalls
    BY <1>1, <1>2 DEF PairCalls, RefreshCalls, Onward
  <2> QED BY <2>1, <2>2 DEF ArgumentsWereIssued
<1>9. SeenIsCurrent'
  <2> SUFFICES ASSUME NEW q \in Requests, pc'[q] \in RefreshCalls
               PROVE  tokens'[arg[q]] \in {seen'[q], None}
    BY DEF SeenIsCurrent
  <2>1. pc[q] \in RefreshCalls /\ seen'[q] = seen[q]
    BY <1>1, <1>2 DEF RefreshCalls, Ended, Onward
  <2>2. arg[q] \in Pairs /\ tokens[arg[q]] \in {seen[q], None}
    BY <2>1 DEF SeenIsCurrent, PairCalls
  <2> QED BY <2>1, <2>2
<1>10. HeldGrantsAreOpen' /\ OpenedCodesAreGone'
  BY <1>4 DEF HeldGrantsAreOpen, OpenedCodesAreGone, Opened
<1>11. GrantsOfRowsAreOpen'
  BY DEF GrantsOfRowsAreOpen, Opened
<1>12. SpentNamesItsGrant'
  BY DEF SpentNamesItsGrant, Opened
<1> QED BY <1>5, <1>6, <1>7, <1>8, <1>9, <1>10, <1>11, <1>12

(* A request begins.                                                       *)
LEMMA BeginInductive ==
  ASSUME Inductive, NEW r \in Requests, Begin(r)
  PROVE  OneHolder' /\ Provenance'
<1> USE DEF Inductive, TypeOK
<1>1. PICK to, what, client :
        /\ to \in {"consume", "lookup", "revoke", "revokeGrant", "erase", "saveUser"}
        /\ pc[r] = "idle" /\ pc' = [pc EXCEPT ![r] = to]
        /\ arg' = [arg EXCEPT ![r] = what] /\ by' = [by EXCEPT ![r] = client]
        /\ UNCHANGED <<tokens, codes, spent, seen, fam>>
        /\ to \in PairCalls => what \in Pairs /\ Presentable(what)
  BY DEF Begin, StartRedeem, StartRefresh, StartRevoke, StartRevokeGrant, StartErase, StartSignIn,
         Start, At, Goto, tables, PairCalls, RefreshCalls
<1>2. \A q \in Requests : q # r => pc'[q] = pc[q] /\ arg'[q] = arg[q]
  BY <1>1
<1>3. pc'[r] = to /\ arg'[r] = what /\ fam[r] = None /\ tokens[r] = None
  BY <1>1 DEF UnspentHaveNoGrant, Unspent, RowsHaveAnIssuer
<1>4. \A q \in Requests : Holding(q)' <=> Holding(q)
  BY <1>1, <1>2, <1>3 DEF Holding
<1>5. OneHolder'
  BY <1>1, <1>4 DEF OneHolder, OneLivePair, Family
<1>6. RowsHaveAnIssuer' /\ UnspentHaveNoGrant'
  BY <1>1, <1>2, <1>3 DEF RowsHaveAnIssuer, UnspentHaveNoGrant, Unspent
<1>7. ArgumentsWereIssued'
  <2>1. \A p \in Pairs : Presentable(p) => Presentable(p)'
    BY <1>1, <1>2, <1>3 DEF Presentable
  <2> QED BY <1>1, <1>2, <1>3, <2>1 DEF ArgumentsWereIssued
<1>8. SeenIsCurrent'
  BY <1>1, <1>2, <1>3 DEF SeenIsCurrent, RefreshCalls
<1>9. HeldGrantsAreOpen' /\ GrantsOfRowsAreOpen' /\ OpenedCodesAreGone'
  BY <1>1, <1>2, <1>3, <1>4 DEF HeldGrantsAreOpen, GrantsOfRowsAreOpen, OpenedCodesAreGone, Opened,
     Grants, YandexTokens
<1>10. SpentNamesItsGrant'
  <2>1. \A g \in Grants : Opened(g) => g # r
    BY <1>3 DEF Opened, Grants, YandexTokens
  <2>2. \A s \in Secrets : spent[s] # None => spent[s].grant \in Grants
    BY DEF Spent
  <2> QED BY <1>1, <1>2, <2>1, <2>2 DEF SpentNamesItsGrant, Opened, Grants
<1> QED BY <1>5, <1>6, <1>7, <1>8, <1>9, <1>10

(* r reads its row, or names the family it will recall; no row, no grant   *)
(* in hand and no opened grant changes.                                    *)
LEMMA NamingInductive ==
  ASSUME Inductive, NEW r \in Requests, Lookup(r) \/ Flag(r) \/ SpentPair(r)
  PROVE  OneHolder' /\ Provenance'
<1> USE DEF Inductive, TypeOK
<1>1. PICK to \in {"vetPair", "spentPair", "recallCode", "recallPair", "failed"} :
        /\ pc[r] \in {"lookup", "flag", "spentPair"} /\ pc' = [pc EXCEPT ![r] = to]
        /\ pc[r] = "flag" => to \in {"recallCode", "failed"}
        /\ UNCHANGED <<tokens, codes, arg>>
        /\ to = "vetPair" => /\ pc[r] = "lookup" /\ seen' = [seen EXCEPT ![r] = tokens[arg[r]]]
                             /\ fam' = fam
        /\ to = "spentPair" => seen' = seen /\ fam' = fam
        /\ to = "failed" => fam' = fam
        /\ to # "vetPair" => \A q \in Requests : q # r => seen'[q] = seen[q]
        /\ to \in {"recallCode", "recallPair"} =>
             \E s \in Secrets : spent[s] # None /\ fam' = [fam EXCEPT ![r] = spent[s].grant]
        /\ \A s \in Secrets : spent'[s] # None => spent[s] # None /\ spent'[s].grant = spent[s].grant
  <2>1. CASE Lookup(r)
    BY <2>1 DEF Lookup, At, Goto, tables
  <2>2. CASE Flag(r)
    <3>1. pc[r] = "flag" /\ arg[r] \in Secrets
      BY <2>2 DEF Flag, At, CodeCalls, Secrets
    <3>2. CASE Recalls(arg[r])
      BY <2>2, <3>1, <3>2 DEF Flag, At, Goto, Recalls, Spent
    <3>3. CASE ~Recalls(arg[r])
      BY <2>2, <3>1, <3>3 DEF Flag, At, Goto, Finish
    <3> QED BY <3>2, <3>3
  <2>3. CASE SpentPair(r)
    <3>1. pc[r] = "spentPair" /\ arg[r] \in Secrets
      BY <2>3 DEF SpentPair, At, PairCalls, Secrets
    <3> QED BY <2>3, <3>1 DEF SpentPair, At, Goto, Finish, Recalls, tables
  <2> QED BY <2>1, <2>2, <2>3
<1>2. \A q \in Requests : q # r => pc'[q] = pc[q] /\ seen'[q] = seen[q] /\ fam'[q] = fam[q]
  BY <1>1
<1>3. pc'[r] = to /\ fam[r] = None /\ tokens[r] = None
  BY <1>1 DEF UnspentHaveNoGrant, Unspent, RowsHaveAnIssuer
<1>4. \A g \in Grants : Opened(g)' <=> Opened(g)
  <2>1. \A s \in Secrets : spent[s] # None => spent[s].grant # r
    BY <1>3 DEF SpentNamesItsGrant, Opened, IdentityAssumption, YandexTokens
  <2> QED BY <1>1, <1>2, <1>3, <2>1 DEF Opened, Grants, YandexTokens
<1>5. \A q \in Requests : Holding(q)' <=> Holding(q) /\ q # r
  BY <1>1, <1>2, <1>3 DEF Holding
<1>6. OneHolder'
  BY <1>1, <1>2, <1>5 DEF OneHolder, OneLivePair, Family
<1>7. RowsHaveAnIssuer' /\ UnspentHaveNoGrant'
  BY <1>1, <1>2, <1>3 DEF RowsHaveAnIssuer, UnspentHaveNoGrant, Unspent, RefreshCalls
<1>8. ArgumentsWereIssued'
  <2>1. \A p \in Pairs : Presentable(p) => Presentable(p)'
    BY <1>1, <1>2 DEF Presentable
  <2>2. pc'[r] \in PairCalls => pc[r] \in PairCalls
    BY <1>1, <1>3 DEF PairCalls, RefreshCalls
  <2> QED BY <1>1, <1>2, <2>1, <2>2 DEF ArgumentsWereIssued
<1>9. SeenIsCurrent'
  BY <1>1, <1>2, <1>3 DEF SeenIsCurrent, RefreshCalls
<1>10. HeldGrantsAreOpen'
  <2>1. \A q \in Requests : Holding(q) => fam[q] \in Grants
    BY DEF Grants
  <2> QED BY <1>2, <1>4, <1>5, <2>1 DEF HeldGrantsAreOpen
<1>11. GrantsOfRowsAreOpen'
  <2>1. \A p \in Pairs : tokens[p] # None => tokens[p].grant \in Grants \cup {None}
    BY DEF Row
  <2> QED BY <1>1, <1>4, <2>1 DEF GrantsOfRowsAreOpen, Opened, RowsHaveAnIssuer, Pairs
<1>12. OpenedCodesAreGone'
  BY <1>1, <1>4 DEF OpenedCodesAreGone, Grants
<1>13. SpentNamesItsGrant'
  <2>1. \A s \in Secrets : spent[s] # None => spent[s].grant \in Grants
    BY DEF Spent
  <2> QED BY <1>1, <1>4, <2>1 DEF SpentNamesItsGrant
<1> QED BY <1>6, <1>7, <1>8, <1>9, <1>10, <1>11, <1>12, <1>13

(* A grant changes hands: the code or the presented pair leaves its table  *)
(* and r holds the grant g instead.                                        *)
LEMMA TakingInductive ==
  ASSUME Inductive, NEW r \in Requests, NEW g \in Grants, NEW to,
         \/ /\ pc[r] = "consume" /\ to = "vetCode" /\ g = r
            /\ arg[r] \in codes /\ codes' = codes \ {arg[r]} /\ tokens' = tokens
         \/ /\ pc[r] = "rotate" /\ to = "remember" /\ codes' = codes
            /\ tokens[arg[r]] # None /\ g = GrantOfRotation(r)
            /\ \A p \in Pairs : tokens'[p] = IF p = arg[r] THEN None ELSE tokens[p],
         pc' = [pc EXCEPT ![r] = to], arg' = arg,
         fam' = [fam EXCEPT ![r] = g],
         \A q \in Requests : q # r => seen'[q] = seen[q],
         \A s \in Secrets : spent'[s] # None =>
           \/ spent[s] # None /\ spent'[s].grant = spent[s].grant
           \/ s = arg[r] /\ spent'[s].grant = r /\ g = r
  PROVE  OneHolder' /\ Provenance'
<1> USE DEF Inductive, TypeOK
<1>1. \A q \in Requests : q # r => pc'[q] = pc[q] /\ seen'[q] = seen[q] /\ fam'[q] = fam[q]
  OBVIOUS
<1>2. pc'[r] = to /\ fam'[r] = g /\ g # None /\ fam[r] = None /\ tokens[r] = None
  BY DEF UnspentHaveNoGrant, Unspent, RowsHaveAnIssuer, RefreshCalls, Grants, YandexTokens
<1>3. \A p \in Pairs : tokens'[p] \in {tokens[p], None}
  OBVIOUS
<1>4. ~Opened(r)
  BY <1>2 DEF Opened, YandexTokens
<1>5. \A h \in Grants : Opened(h)' <=> Opened(h) \/ (h = r /\ g = r)
  BY <1>1, <1>2, <1>4 DEF Opened, Grants
<1>6. g # r => /\ arg[r] \in Pairs /\ tokens[arg[r]] = seen[r] /\ seen[r].grant = g
               /\ tokens'[arg[r]] = None /\ Opened(g)
  <2> SUFFICES ASSUME g # r
               PROVE  /\ arg[r] \in Pairs /\ tokens[arg[r]] = seen[r] /\ seen[r].grant = g
                      /\ tokens'[arg[r]] = None /\ Opened(g)
    OBVIOUS
  <2>1. pc[r] = "rotate" /\ arg[r] \in Pairs
    BY DEF PairCalls, RefreshCalls
  <2>2. tokens[arg[r]] = seen[r] /\ seen[r].grant = g
    BY <2>1 DEF SeenIsCurrent, RefreshCalls, GrantOfRotation
  <2>3. tokens[arg[r]].grant # None
    BY <1>2, <2>2
  <2> QED BY <1>2, <2>1, <2>2, <2>3 DEF GrantsOfRowsAreOpen
<1>7. Family(g)' = {} /\ \A q \in Requests : Holding(q) => fam[q] # g
  <2>1. CASE g = r
    <3>1. \A p \in Pairs : tokens[p] # None => tokens[p].grant # r
      BY <1>2, <1>4, <2>1 DEF GrantsOfRowsAreOpen
    <3>2. \A q \in Requests : Holding(q) => fam[q] # r
      BY <1>4 DEF HeldGrantsAreOpen
    <3> QED BY <1>3, <2>1, <3>1, <3>2 DEF Family
  <2>2. CASE g # r
    <3>1. arg[r] \in Family(g)
      BY <1>6, <2>2 DEF Family
    <3>2. Family(g)' = {}
      BY <1>3, <1>6, <2>2, <3>1 DEF Family, OneHolder, OneLivePair
    <3>3. \A q \in Requests : Holding(q) => fam[q] # g
      BY <3>1 DEF OneHolder
    <3> QED BY <3>2, <3>3
  <2> QED BY <2>1, <2>2
<1>8. \A q \in Requests : Holding(q)' <=> Holding(q) \/ q = r
  BY <1>1, <1>2 DEF Holding
<1>9. OneHolder'
  <2>1. \A h : Family(h)' \subseteq Family(h)
    BY <1>3 DEF Family
  <2> QED BY <1>1, <1>2, <1>7, <1>8, <2>1 DEF OneHolder, OneLivePair
<1>10. RowsHaveAnIssuer' /\ UnspentHaveNoGrant'
  BY <1>1, <1>2, <1>3 DEF RowsHaveAnIssuer, UnspentHaveNoGrant, Unspent, RefreshCalls, Pairs
<1>11. ArgumentsWereIssued'
  <2>1. \A p \in Pairs : Presentable(p) => Presentable(p)'
    BY <1>1, <1>2 DEF Presentable
  <2>2. pc'[r] \in PairCalls => pc[r] \in PairCalls
    BY <1>2 DEF PairCalls, RefreshCalls
  <2> QED BY <1>1, <2>1, <2>2 DEF ArgumentsWereIssued
<1>12. SeenIsCurrent'
  <2> SUFFICES ASSUME NEW q \in Requests, pc'[q] \in RefreshCalls
               PROVE  tokens'[arg[q]] \in {seen'[q], None}
    BY DEF SeenIsCurrent
  <2>1. q # r /\ pc[q] \in RefreshCalls
    BY <1>1, <1>2 DEF RefreshCalls
  <2>2. arg[q] \in Pairs /\ tokens[arg[q]] \in {seen[q], None}
    BY <2>1 DEF SeenIsCurrent, PairCalls
  <2> QED BY <1>1, <1>3, <2>1, <2>2
<1>13. HeldGrantsAreOpen'
  <2>1. \A q \in Requests : Holding(q) => fam[q] \in Grants
    BY DEF Grants
  <2> QED BY <1>1, <1>2, <1>5, <1>6, <1>8, <2>1 DEF HeldGrantsAreOpen
<1>14. GrantsOfRowsAreOpen'
  <2>1. \A p \in Pairs : tokens[p] # None => tokens[p].grant \in Grants \cup {None}
    BY DEF Row
  <2>2. \A p \in Requests : tokens[p] # None => tokens[p].grant # None
    BY DEF RowsHaveAnIssuer
  <2> QED BY <1>3, <1>5, <2>1, <2>2 DEF GrantsOfRowsAreOpen, Pairs
<1>15. OpenedCodesAreGone'
  <2>1. g = r /\ arg[r] \in Codes => arg[r] \notin codes'
    BY DEF PairCalls, RefreshCalls
  <2> QED BY <1>5, <2>1 DEF OpenedCodesAreGone, Grants
<1>16. SpentNamesItsGrant'
  <2>1. \A s \in Secrets : spent[s] # None => spent[s].grant \in Grants
    BY DEF Spent
  <2> QED BY <1>5, <2>1 DEF SpentNamesItsGrant, Grants
<1> QED BY <1>9, <1>10, <1>11, <1>12, <1>13, <1>14, <1>15, <1>16

(* saveToken: the grant passes from the hands of r to the row it inserts.  *)
LEMMA InsertInductive ==
  ASSUME Inductive, NEW r \in Requests, Mint(r) \/ MintNext(r)
  PROVE  OneHolder' /\ Provenance'
<1> USE DEF Inductive, TypeOK
<1> DEFINE new == [owner |-> seen[r].owner, client |-> seen[r].client,
                   grant |-> fam[r], expires |-> now + TokenTTL]
<1>1. /\ Holding(r) /\ fam[r] \in Grants /\ fam[r] # None /\ Opened(fam[r])
      /\ Family(fam[r]) = {} /\ r \in Pairs
  BY DEF Mint, MintNext, At, Holding, OneHolder, HeldGrantsAreOpen, Grants, Pairs
<1>2. new \in Row /\ new # None /\ new.grant = fam[r]
  <2>1. seen[r] \in Row
    BY <1>1
  <2> QED BY <1>1, <2>1 DEF Row
<1>3. /\ tokens' = [tokens EXCEPT ![r] = new]
      /\ UNCHANGED <<codes, spent, arg, fam>>
      /\ pc'[r] \in {"recheck", "issued"}
      /\ \A q \in Requests : q # r => pc'[q] = pc[q] /\ seen'[q] = seen[q]
  BY DEF Mint, MintNext, At, Goto, Finish, InsertPair, locals
<1> HIDE DEF new
<1>4. tokens'[r] = new /\ \A p \in Pairs : p # r => tokens'[p] = tokens[p]
  BY <1>1, <1>3
<1>5. \A q \in Requests : Holding(q)' <=> Holding(q) /\ q # r
  BY <1>3 DEF Holding
<1>6. /\ Family(fam[r])' = {r}
      /\ \A h : h # fam[r] => Family(h)' \subseteq Family(h)
  BY <1>1, <1>2, <1>3, <1>4 DEF Family
<1>7. OneHolder'
  <2>1. \A q \in Requests : Holding(q) /\ q # r => fam[q] # fam[r]
    BY <1>1 DEF OneHolder
  <2> QED BY <1>3, <1>5, <1>6, <2>1 DEF OneHolder, OneLivePair
<1>8. RowsHaveAnIssuer' /\ UnspentHaveNoGrant'
  BY <1>1, <1>2, <1>3, <1>4 DEF RowsHaveAnIssuer, UnspentHaveNoGrant, Unspent, RefreshCalls, Pairs
<1>9. ArgumentsWereIssued'
  <2>1. \A p \in Pairs : Presentable(p) => Presentable(p)'
    BY <1>1, <1>3 DEF Presentable, Holding
  <2>2. pc'[r] \notin PairCalls
    BY <1>3 DEF PairCalls, RefreshCalls
  <2> QED BY <1>3, <2>1, <2>2 DEF ArgumentsWereIssued
<1>10. SeenIsCurrent'
  <2> SUFFICES ASSUME NEW q \in Requests, pc'[q] \in RefreshCalls
               PROVE  tokens'[arg[q]] \in {seen'[q], None}
    BY <1>3 DEF SeenIsCurrent
  <2>1. q # r /\ pc[q] \in RefreshCalls
    BY <1>3 DEF RefreshCalls
  <2>2. arg[q] \in Pairs /\ tokens[arg[q]] \in {seen[q], None} /\ Presentable(arg[q])
    BY <2>1 DEF SeenIsCurrent, PairCalls, ArgumentsWereIssued
  <2>3. arg[q] # r
    BY <1>1, <2>2 DEF Presentable, Holding
  <2> QED BY <1>3, <1>4, <2>1, <2>2, <2>3
<1>11. HeldGrantsAreOpen' /\ OpenedCodesAreGone' /\ SpentNamesItsGrant'
  BY <1>3, <1>5 DEF HeldGrantsAreOpen, OpenedCodesAreGone, SpentNamesItsGrant, Opened
<1>12. GrantsOfRowsAreOpen'
  BY <1>1, <1>2, <1>3, <1>4 DEF GrantsOfRowsAreOpen, Opened
<1> QED BY <1>7, <1>8, <1>9, <1>10, <1>11, <1>12

(* Consume and Rotate, whether they find the secret or not.                *)
LEMMA SpendingInductive ==
  ASSUME Inductive, NEW r \in Requests, Consume(r) \/ Rotate(r)
  PROVE  OneHolder' /\ Provenance'
<1> USE DEF Inductive, TypeOK
<1>1. CASE Consume(r)
  <2> DEFINE c == arg[r]
             memo == [grant |-> r, client |-> Client[c], owner |-> Owner[c],
                      at |-> now, expires |-> now + SpentTTL, reused |-> FALSE]
  <2>1. c \in Codes /\ c \in Secrets /\ pc[r] = "consume" /\ r \in Grants
    BY <1>1 DEF Consume, At, CodeCalls, Secrets, Grants
  <2>2. /\ Sweep(spent) \in [Secrets -> Spent \cup {None}]
        /\ \A s \in Secrets : Sweep(spent)[s] \in {spent[s], None}
    BY SweepKeeps
  <2>3. CASE c \in codes /\ CodeTTL >= now
    <3>1. spent' = [Sweep(spent) EXCEPT ![c] = IF @ = None THEN memo ELSE @]
      BY <1>1, <2>3 DEF Consume
    <3>2. \A s \in Secrets : spent'[s] # None =>
            \/ spent[s] # None /\ spent'[s].grant = spent[s].grant
            \/ s = c /\ spent'[s].grant = r
      BY <2>1, <2>2, <3>1
    <3> QED BY <1>1, <2>1, <2>3, <3>2, TakingInductive DEF Consume, CodesLeft, At, Goto
  <2>4. CASE ~(c \in codes /\ CodeTTL >= now)
    <3>1. Onward(r, "spentCode")
      BY <2>1 DEF Onward
    <3>2. /\ UNCHANGED <<arg, fam, seen, tokens>> /\ codes' \subseteq codes
          /\ pc' = [pc EXCEPT ![r] = "spentCode"] /\ spent' = Sweep(spent)
      BY <1>1, <2>4 DEF Consume, CodesLeft, Goto
    <3>3. \A p \in Pairs : tokens'[p] \in {tokens[p], None}
      BY <3>2
    <3>4. \A s \in Secrets : spent'[s] # None => spent[s] # None /\ spent'[s].grant = spent[s].grant
      BY <2>2, <3>2
    <3> QED BY <3>1, <3>2, <3>3, <3>4, Forward
  <2> QED BY <2>3, <2>4
<1>2. CASE Rotate(r)
  <2>1. pc[r] = "rotate" /\ arg[r] \in Pairs
    BY <1>2 DEF Rotate, At, PairCalls, RefreshCalls
  <2>2. CASE RowFound(arg[r])
    <3>1. GrantOfRotation(r) \in Grants
      BY <2>1 DEF GrantOfRotation, Grants, Row, RefreshCalls, YandexTokens
    <3>2. \A p \in Pairs : tokens'[p] = IF p = arg[r] THEN None ELSE tokens[p]
      BY <1>2, <2>2, DropKeeps DEF Rotate
    <3> QED BY <1>2, <2>1, <2>2, <3>1, <3>2, TakingInductive DEF Rotate, RowFound, At, Goto
  <2>3. CASE ~RowFound(arg[r])
    <3>1. Onward(r, "failed")
      BY <2>1 DEF Onward, Ended
    <3> QED BY <1>2, <2>3, <3>1, Forward DEF Rotate, Finish, Goto, Ended
  <2> QED BY <2>2, <2>3
<1> QED BY <1>1, <1>2

(* The steps that take nothing: checks, reads, writes elsewhere, the       *)
(* removal of rows.                                                        *)
LEMMA CheckInductive ==
  ASSUME Inductive, NEW r \in Requests, NEW from, NEW ok, NEW yes, Check(r, from, ok, yes),
         from \notin Ended, Onward(r, yes), yes \notin Ended
  PROVE  OneHolder' /\ Provenance'
<1>1. Onward(r, "failed")
  BY DEF Check, At, Onward
<1>2. CASE ok
  BY <1>2, Forward DEF Check, Goto, tables, locals, Ended
<1>3. CASE ~ok
  BY <1>1, <1>3, Forward DEF Check, Finish, Goto, tables, Ended
<1> QED BY <1>2, <1>3

(* Whatever ends grants by deleting rows is such a step.                   *)
LEMMA RemovingInductive ==
  ASSUME Inductive, NEW r \in Requests,
         Recall(r) \/ Revoke(r) \/ RevokeGrant(r) \/ Erase(r)
  PROVE  OneHolder' /\ Provenance'
<1>1. tokens \in [Pairs -> Row \cup {None}]
  BY DEF Inductive, TypeOK
<1>2. PICK P : DropRows(P)
  BY DEF Recall, Revoke, RevokeGrant, Erase
<1>3. \A p \in Pairs : tokens'[p] \in {tokens[p], None}
  BY <1>1, <1>2, DropKeeps
<1>4. PICK to \in {"failed", "done"} :
        /\ Finish(r, to) /\ Onward(r, to)
        /\ to = "done" => pc[r] \in {"revoke"} \cup AccountCalls
  BY DEF Recall, Revoke, RevokeGrant, Erase, At, Onward, Ended, AccountCalls
<1>5. \A s \in Secrets : spent'[s] # None => spent'[s] = spent[s]
  BY DEF Recall, Revoke, RevokeGrant, Erase
<1>6. codes' \subseteq codes
  BY DEF Recall, Revoke, RevokeGrant, Erase
<1> QED BY <1>3, <1>4, <1>5, <1>6, Forward DEF Finish, Goto, Ended

(* So are the calls that write no row of a token, or fail.                 *)
LEMMA WritingInductive ==
  ASSUME Inductive, NEW r \in Requests,
         \/ Recheck(r) \/ ReadCreds(r) \/ SaveCreds(r) \/ Remember(r)
         \/ SaveUser(r) \/ SaveLink(r) \/ Fail(r)
  PROVE  OneHolder' /\ Provenance'
<1> USE DEF Inductive, TypeOK
<1>1. CASE Remember(r)
  <2>1. Onward(r, "mintNext") /\ Holding(r) /\ arg[r] \in Pairs /\ arg[r] \in Secrets
    BY <1>1 DEF Remember, At, Onward, Holding, PairCalls, Secrets
  <2>2. Opened(fam[r])
    BY <2>1 DEF HeldGrantsAreOpen
  <2>3. /\ Sweep(spent) \in [Secrets -> Spent \cup {None}]
        /\ \A s \in Secrets : Sweep(spent)[s] \in {spent[s], None}
    BY SweepKeeps
  <2>4. \A s \in Secrets : spent'[s] # None =>
          \/ spent[s] # None /\ spent'[s].grant = spent[s].grant
          \/ s \in Pairs /\ Opened(spent'[s].grant)
    BY <1>1, <2>1, <2>2, <2>3 DEF Remember
  <2>5. /\ UNCHANGED <<arg, fam, seen, tokens, codes>> /\ pc' = [pc EXCEPT ![r] = "mintNext"]
    BY <1>1 DEF Remember, Goto, locals
  <2> QED BY <2>1, <2>4, <2>5, Forward DEF Ended
<1>2. ASSUME Recheck(r) \/ ReadCreds(r) \/ SaveCreds(r) \/ SaveUser(r) \/ SaveLink(r) \/ Fail(r)
      PROVE  OneHolder' /\ Provenance'
  <2>1. PICK to \in {"recallOwn", "issued", "renew", "rotate", "saveLink", "done", "failed", "dead"} :
          /\ Goto(r, to) /\ Onward(r, to) /\ (to = "done" => pc[r] \in AccountCalls)
          /\ seen' = seen \/ (to \in Ended /\ seen' = [seen EXCEPT ![r] = None])
    BY <1>2 DEF Recheck, ReadCreds, SaveCreds, SaveUser, SaveLink, Fail, Finish, At, Onward, Ended,
                RefreshCalls, AccountCalls, locals
  <2>2. UNCHANGED <<arg, fam, tokens, codes, spent>>
    BY <1>2 DEF Recheck, ReadCreds, SaveCreds, SaveUser, SaveLink, Fail, Finish, tables, locals
  <2> QED BY <2>1, <2>2, Forward DEF Goto
<1> QED BY <1>1, <1>2

(* Expiry: rows go, codes go, and nothing else moves.                      *)
LEMMA PruneInductive ==
  ASSUME Inductive, Prune
  PROVE  OneHolder' /\ Provenance'
<1> USE DEF Inductive, TypeOK
<1>1. UNCHANGED <<pc, arg, seen, fam>> /\ codes' \subseteq codes
  BY DEF Prune, locals
<1>2. /\ \A p \in Pairs : tokens'[p] \in {tokens[p], None}
      /\ \A s \in Secrets : spent'[s] \in {spent[s], None}
  BY SweepKeeps DEF Prune
<1>3. \A g : Family(g)' \subseteq Family(g)
  BY <1>2 DEF Family
<1>4. OneHolder'
  BY <1>1, <1>3 DEF OneHolder, OneLivePair, Holding
<1>5. RowsHaveAnIssuer'
  BY <1>1, <1>2 DEF RowsHaveAnIssuer, Pairs
<1>6. UnspentHaveNoGrant' /\ ArgumentsWereIssued' /\ HeldGrantsAreOpen' /\ OpenedCodesAreGone'
  BY <1>1 DEF UnspentHaveNoGrant, ArgumentsWereIssued, Presentable, HeldGrantsAreOpen, Holding,
              Opened, OpenedCodesAreGone
<1>7. SeenIsCurrent'
  BY <1>1, <1>2 DEF SeenIsCurrent, PairCalls
<1>8. GrantsOfRowsAreOpen'
  BY <1>1, <1>2 DEF GrantsOfRowsAreOpen, Opened
<1>9. SpentNamesItsGrant'
  BY <1>1, <1>2 DEF SpentNamesItsGrant, Opened
<1> QED BY <1>4, <1>5, <1>6, <1>7, <1>8, <1>9

(* Every step keeps the inductive invariant.                               *)
LEMMA InductiveNext == Inductive /\ [Next]_vars => Inductive'
<1> SUFFICES ASSUME Inductive, [Next]_vars PROVE OneHolder' /\ Provenance'
  BY TypeNext DEF Inductive
<1>1. ASSUME NEW r \in Requests, Step(r) PROVE OneHolder' /\ Provenance'
  <2>1. CASE VetCode(r) \/ WrongVerifier(r)
    <3>1. At(r, "vetCode") /\ Onward(r, "mint")
      BY <2>1 DEF VetCode, WrongVerifier, Check, At, Onward
    <3> QED BY <2>1, <3>1, CheckInductive DEF VetCode, WrongVerifier, Ended
  <2>2. CASE SpentCode(r)
    <3>1. At(r, "spentCode") /\ Onward(r, "flag")
      BY <2>2 DEF SpentCode, Check, At, Onward
    <3> QED BY <2>2, <3>1, CheckInductive DEF SpentCode, Ended
  <2>3. CASE VetPair(r) \/ Renew(r) \/ Reread(r) \/ Reuser(r) \/ Regrant(r)
    <3>1. \A from \in RefreshCalls, to \in RefreshCalls :
            At(r, from) => Onward(r, to) /\ from \notin Ended /\ to \notin Ended
      BY DEF Onward, At, RefreshCalls, Ended
    <3> QED BY <2>3, <3>1, CheckInductive
            DEF VetPair, Renew, Reread, Reuser, Regrant, Check, RefreshCalls
  <2> QED BY <1>1, <2>1, <2>2, <2>3, SpendingInductive, InsertInductive, NamingInductive,
             RemovingInductive, WritingInductive DEF Step
<1>2. CASE Tick \/ UNCHANGED vars
  BY <1>2 DEF Inductive, Tick, vars, tables, locals, OneHolder, OneLivePair, Family, Holding,
     Opened, RowsHaveAnIssuer, UnspentHaveNoGrant, ArgumentsWereIssued, Presentable, SeenIsCurrent,
     HeldGrantsAreOpen, GrantsOfRowsAreOpen, OpenedCodesAreGone, SpentNamesItsGrant
<1> QED BY <1>1, <1>2, BeginInductive, WritingInductive, PruneInductive DEF Next

(* The inductive invariant holds.                                          *)
LEMMA InductiveCorrect == Spec => []Inductive
BY InductiveInit, InductiveNext, PTL DEF Spec

(* A grant has at most one usable pair, however many requests refresh with *)
(* its token at once: handleToken's race on the DELETE has one winner.     *)
THEOREM OnePairPerGrant == Spec => []OneHolder
BY InductiveCorrect, PTL DEF Inductive

(* Every row, every remembered secret and every request in flight agrees   *)
(* on the grant it belongs to and on where that grant came from.           *)
THEOREM GrantsAreAccountedFor == Spec => []Provenance
BY InductiveCorrect, PTL DEF Inductive

-----------------------------------------------------------------------------
(* A code opens one grant.                                                 *)

(* The only step that makes a request the opener of a grant for a code is  *)
(* the one that takes the code out of its table.                           *)
LEMMA OpensByTaking ==
  ASSUME Inductive, [Next]_vars, NEW q \in Requests, Opened(q)', arg'[q] \in Codes
  PROVE  \/ Opened(q) /\ arg'[q] = arg[q]
         \/ /\ Consume(q) /\ arg[q] \in codes /\ arg'[q] = arg[q]
            /\ \A r \in Requests : r # q => fam'[r] = fam[r] /\ arg'[r] = arg[r]
<1> USE DEF Inductive, TypeOK
<1>1. UNCHANGED <<arg, fam>> => Opened(q) /\ arg'[q] = arg[q]
  BY DEF Opened
<1>2. ASSUME NEW r \in Requests, Begin(r) PROVE Opened(q) /\ arg'[q] = arg[q]
  <2>1. /\ pc[r] = "idle" /\ fam' = fam
        /\ \A p \in Requests : p # r => arg'[p] = arg[p]
    BY <1>2 DEF Begin, StartRedeem, StartRefresh, StartRevoke, StartRevokeGrant, StartErase,
       StartSignIn, Start, At
  <2>2. fam[r] = None
    BY <2>1 DEF UnspentHaveNoGrant, Unspent
  <2> QED BY <2>1, <2>2 DEF Opened, YandexTokens
<1>3. ASSUME NEW r \in Requests, Consume(r)
      PROVE  \/ Opened(q) /\ arg'[q] = arg[q]
             \/ /\ Consume(q) /\ arg[q] \in codes /\ arg'[q] = arg[q]
                /\ \A p \in Requests : p # q => fam'[p] = fam[p] /\ arg'[p] = arg[p]
  BY <1>3 DEF Consume, Opened
<1>4. ASSUME NEW r \in Requests, Flag(r) \/ SpentPair(r) PROVE Opened(q) /\ arg'[q] = arg[q]
  <2>1. /\ pc[r] \in {"flag", "spentPair"} /\ arg' = arg /\ arg[r] \in Secrets
        /\ fam' = fam \/ /\ spent[arg[r]] # None
                         /\ fam' = [fam EXCEPT ![r] = spent[arg[r]].grant]
    BY <1>4 DEF Flag, SpentPair, At, Finish, Recalls, CodeCalls, PairCalls, Secrets
  <2>2. fam[r] = None
    BY <2>1 DEF UnspentHaveNoGrant, Unspent
  <2>3. spent[arg[r]] # None => spent[arg[r]].grant # r
    BY <2>1, <2>2 DEF SpentNamesItsGrant, Opened, YandexTokens
  <2> QED BY <2>1, <2>2, <2>3 DEF Opened
<1>5. ASSUME NEW r \in Requests, Rotate(r) PROVE Opened(q) /\ arg'[q] = arg[q]
  <2>1. arg' = arg /\ arg[r] \in Pairs /\ \A p \in Requests : p # r => fam'[p] = fam[p]
    BY <1>5 DEF Rotate, At, Finish, PairCalls, RefreshCalls
  <2> QED BY <2>1 DEF Opened
<1>6. ASSUME NEW r \in Requests,
             ~(Begin(r) \/ Consume(r) \/ Flag(r) \/ SpentPair(r) \/ Rotate(r)),
             Step(r) \/ Fail(r)
      PROVE  UNCHANGED <<arg, fam>>
  BY <1>6 DEF Step, Fail, VetCode, WrongVerifier, Mint, Recheck, Recall, SpentCode, Lookup, VetPair,
     ReadCreds, Renew, Reread, Reuser, Regrant, SaveCreds, Remember, MintNext, Revoke, RevokeGrant,
     Erase, SaveUser, SaveLink, Check, Finish, locals
<1>7. Prune \/ Tick \/ UNCHANGED vars => UNCHANGED <<arg, fam>>
  BY DEF Prune, Tick, vars, locals
<1> QED BY <1>1, <1>2, <1>3, <1>4, <1>5, <1>6, <1>7 DEF Next

(* No step opens a second grant for a code.                                *)
LEMMA RedeemedOnceNext == Inductive /\ CodeRedeemedOnce /\ [Next]_vars => CodeRedeemedOnce'
<1> SUFFICES ASSUME Inductive, CodeRedeemedOnce, [Next]_vars,
                    NEW r \in Requests, NEW q \in Requests, r # q,
                    Opened(r)', Opened(q)', arg'[r] = arg'[q], arg'[r] \in Codes
             PROVE  FALSE
  BY DEF CodeRedeemedOnce
<1>1. ASSUME NEW a \in {r, q}, NEW b \in {r, q} \ {a}, Consume(a), arg[a] \in codes,
             arg'[a] = arg[a], fam'[b] = fam[b], arg'[b] = arg[b]
      PROVE  FALSE
  BY <1>1 DEF Inductive, OpenedCodesAreGone, Opened
<1>2. Opened(r) /\ arg'[r] = arg[r] /\ Opened(q) /\ arg'[q] = arg[q]
  BY <1>1, OpensByTaking
<1> QED BY <1>2 DEF CodeRedeemedOnce

(* An authorization code is redeemed at most once: two token requests that *)
(* present it, on one pod or two, never both get past consumeAuthCode.     *)
THEOREM SingleUse == Spec => []CodeRedeemedOnce
<1>1. Init => CodeRedeemedOnce
  BY DEF Init, CodeRedeemedOnce, Opened, YandexTokens
<1> QED BY <1>1, RedeemedOnceNext, InductiveCorrect, PTL DEF Spec

-----------------------------------------------------------------------------
(* The ledger of grants.                                                   *)

(* The ledger at first: nothing is opened.                                 *)
LEMMA LedgerInit == Init => Ledger!Init
<1> SUFFICES ASSUME Init PROVE Ledger!Init
  OBVIOUS
<1>1. \A g \in Grants : ~Opened(g)
  BY DEF Init, Opened, Grants, YandexTokens
<1>2. \A p \in Pairs : tokens[p] # None => tokens[p].grant = None
  BY DEF Init
<1>3. \A g \in Grants : Family(g) = {}
  BY <1>2 DEF Family, Grants, YandexTokens
<1> QED  BY <1>1, <1>3 DEF Ledger!Init, Redeemed, Status, Grants

(* A step that opens nothing, and after which each grant has the pairs and *)
(* the hands it had or fewer, ends those that are left with neither.       *)
LEMMA Shrinks ==
  ASSUME Inductive,
         \A g \in Grants : Opened(g)' = Opened(g),
         \A g \in Grants : Opened(g) => arg'[g] = arg[g],
         \A p \in Pairs : tokens'[p] \in {tokens[p], None},
         \A r \in Requests : Holding(r)' => Holding(r) /\ fam'[r] = fam[r]
  PROVE  Ledger!Next
<1> DEFINE gone == {g \in Grants : Status(g) = "open" /\ Status(g)' # "open"}
<1>1. \A g \in Grants : Family(g)' \subseteq Family(g) /\ (InHand(g)' => InHand(g))
  BY DEF Family, InHand
<1>2. \A g \in Grants : ~Opened(g) => Family(g) = {}
  BY DEF Inductive, GrantsOfRowsAreOpen, Family, Grants, YandexTokens
<1>3. \A g \in Grants : InHand(g) => Family(g) = {}
  BY DEF Inductive, OneHolder, InHand
<1>4. \A g \in Grants : \A p, q \in Family(g) : p = q
  BY DEF Inductive, OneHolder, OneLivePair
<1>5. \A g \in Grants : Status(g)' = IF g \in gone THEN "closed" ELSE Status(g)
  BY <1>1 DEF Status
<1>6. ASSUME NEW g \in Grants PROVE Family(g)' = IF g \in gone THEN {} ELSE Family(g)
  <2>1. Family(g)' \in {{}, Family(g)}
    BY <1>1, <1>4
  <2>2. CASE Family(g) = {}
    BY <2>1, <2>2
  <2>3. CASE Family(g) # {}
    <3>1. Status(g) = "open" /\ Opened(g)' /\ ~InHand(g)'
      BY <1>1, <1>2, <1>3, <2>3 DEF Status
    <3>2. Status(g)' = "open" <=> Family(g)' # {}
      BY <3>1 DEF Status
    <3> QED  BY <2>1, <2>3, <3>1, <3>2
  <2> QED  BY <2>2, <2>3
<1>7. Redeemed' = Redeemed
  BY DEF Redeemed, Grants
<1>8. Ledger!End(gone, gone)
  BY <1>5, <1>6, <1>7 DEF Ledger!End
<1> QED  BY <1>8 DEF Ledger!Next

(* Requests that begin or only look.                                       *)
LEMMA LedgerOfReads ==
  ASSUME Inductive, NEW r \in Requests, Begin(r) \/ Lookup(r) \/ Flag(r) \/ SpentPair(r)
  PROVE  Ledger!Next
<1> USE DEF Inductive, TypeOK
<1>1. pc[r] \in {"idle", "lookup", "flag", "spentPair"} /\ tokens' = tokens
  BY DEF Begin, StartRedeem, StartRefresh, StartRevoke, StartRevokeGrant, StartErase,
       StartSignIn, Start, Lookup, Flag, SpentPair, At, tables
<1>2. fam[r] = None /\ ~Opened(r)
  BY <1>1 DEF UnspentHaveNoGrant, Unspent, Opened, Grants, YandexTokens
<1>3. /\ \A q \in Requests : q # r => pc'[q] = pc[q] /\ fam'[q] = fam[q] /\ arg'[q] = arg[q]
      /\ pc'[r] \notin {"vetCode", "mint", "remember", "mintNext"}
  BY DEF Begin, StartRedeem, StartRefresh, StartRevoke, StartRevokeGrant, StartErase,
       StartSignIn, Start, Lookup, Flag, SpentPair, At, Goto, Finish
<1>4. fam'[r] = None \/ (\E s \in Secrets : spent[s] # None /\ fam'[r] = spent[s].grant)
  <2>1. Flag(r) \/ SpentPair(r) => arg[r] \in Secrets
    BY DEF Flag, SpentPair, At, CodeCalls, PairCalls, Secrets
  <2>2. Begin(r) \/ Lookup(r) => fam' = fam
    BY DEF Begin, StartRedeem, StartRefresh, StartRevoke, StartRevokeGrant, StartErase,
       StartSignIn, Start, Lookup
  <2>3. Flag(r) \/ SpentPair(r) => fam' = fam \/ (spent[arg[r]] # None /\ fam' = [fam EXCEPT ![r] = spent[arg[r]].grant])
    BY DEF Flag, SpentPair, Recalls, Finish
  <2> QED  BY <1>2, <2>1, <2>2, <2>3
<1>5. fam'[r] # r
  BY <1>2, <1>4 DEF SpentNamesItsGrant, Opened, Grants, YandexTokens
<1>6. \A g \in Grants : Opened(g)' = Opened(g) /\ (Opened(g) => arg'[g] = arg[g])
  BY <1>2, <1>3, <1>5 DEF Opened, Grants
<1>7. \A q \in Requests : Holding(q)' => Holding(q) /\ fam'[q] = fam[q]
  BY <1>3 DEF Holding
<1>8. \A p \in Pairs : tokens'[p] \in {tokens[p], None}
  BY <1>1
<1> QED  BY <1>6, <1>7, <1>8, Shrinks

(* The steps that change no grant id: checks, writes elsewhere, removals.  *)
LEMMA LedgerOfRemovals ==
  ASSUME Inductive, UNCHANGED <<arg, fam>>,
         \A p \in Pairs : tokens'[p] \in {tokens[p], None},
         \A q \in Requests : Holding(q)' => Holding(q)
  PROVE  Ledger!Next
BY Shrinks DEF Opened

LEMMA LedgerOfSteps ==
  ASSUME Inductive, NEW r \in Requests,
         \/ VetCode(r) \/ WrongVerifier(r) \/ Recheck(r) \/ Recall(r) \/ SpentCode(r)
         \/ VetPair(r) \/ ReadCreds(r) \/ Renew(r) \/ Reread(r) \/ Reuser(r) \/ Regrant(r)
         \/ SaveCreds(r) \/ Remember(r) \/ Revoke(r) \/ RevokeGrant(r) \/ Erase(r)
         \/ SaveUser(r) \/ SaveLink(r) \/ Fail(r)
  PROVE  Ledger!Next
<1> USE DEF Inductive, TypeOK
<1>1. UNCHANGED <<arg, fam>> /\ \A q \in Requests : q # r => pc'[q] = pc[q]
  BY DEF VetCode, WrongVerifier, Recheck, Recall, SpentCode, VetPair, ReadCreds, Renew, Reread,
     Reuser, Regrant, SaveCreds, Remember, Revoke, RevokeGrant, Erase, SaveUser, SaveLink, Fail,
     Check, Finish, Goto, locals
<1>2. tokens' = tokens \/ \E P : DropRows(P)
  BY DEF VetCode, WrongVerifier, Recheck, Recall, SpentCode, VetPair, ReadCreds, Renew, Reread,
     Reuser, Regrant, SaveCreds, Remember, Revoke, RevokeGrant, Erase, SaveUser, SaveLink, Fail,
     Check, Finish, tables
<1>3. \A p \in Pairs : tokens'[p] \in {tokens[p], None}
  BY <1>2, DropKeeps
<1>4. pc'[r] \in {"vetCode", "mint", "remember", "mintNext"} =>
        pc[r] \in {"vetCode", "mint", "remember", "mintNext"}
  BY DEF VetCode, WrongVerifier, Recheck, Recall, SpentCode, VetPair, ReadCreds, Renew, Reread,
     Reuser, Regrant, SaveCreds, Remember, Revoke, RevokeGrant, Erase, SaveUser, SaveLink, Fail,
     Check, Finish, Goto, At
<1>5. \A q \in Requests : Holding(q)' => Holding(q)
  BY <1>1, <1>4 DEF Holding
<1> QED  BY <1>1, <1>3, <1>5, LedgerOfRemovals

(* A pair is inserted: it goes to the grant that r has in hand.            *)
LEMMA LedgerOfInserts ==
  ASSUME Inductive, NEW r \in Requests, Mint(r) \/ MintNext(r)
  PROVE  Ledger!Next
<1> USE DEF Inductive, TypeOK
<1> DEFINE new == [owner |-> seen[r].owner, client |-> seen[r].client,
                   grant |-> fam[r], expires |-> now + TokenTTL]
<1>1. /\ Holding(r) /\ fam[r] \in Grants /\ fam[r] # None /\ Opened(fam[r])
      /\ Family(fam[r]) = {} /\ r \in Pairs /\ tokens[r] = None
  BY DEF Mint, MintNext, At, Holding, OneHolder, HeldGrantsAreOpen, Grants, Pairs, RowsHaveAnIssuer
<1>2. new # None /\ new.grant = fam[r]
  <2>1. seen[r] \in Row
    BY <1>1
  <2>2. new \in Row
    BY <1>1, <2>1 DEF Row
  <2> QED BY <2>2 DEF Row
<1>3. /\ tokens' = [tokens EXCEPT ![r] = new] /\ UNCHANGED <<arg, fam>>
      /\ pc'[r] \in {"recheck", "issued"}
      /\ \A q \in Requests : q # r => pc'[q] = pc[q]
  BY DEF Mint, MintNext, At, Goto, Finish, InsertPair, locals
<1> HIDE DEF new
<1>4. \A g \in Grants : Family(g)' = IF g = fam[r] THEN {r} ELSE Family(g)
  BY <1>1, <1>2, <1>3 DEF Family
<1>5. \A q \in Requests : q # r => (Holding(q)' <=> Holding(q))
  BY <1>3 DEF Holding
<1>6. \A g \in Grants : Status(g)' = Status(g)
  <2>1. \A g \in Grants : Opened(g)' = Opened(g)
    BY <1>3 DEF Opened
  <2>2. \A g \in Grants : g # fam[r] => (InHand(g)' <=> InHand(g))
    BY <1>3, <1>5 DEF InHand, Holding
  <2>3. Status(fam[r]) = "open"
    BY <1>1 DEF Status, InHand
  <2>4. ASSUME NEW g \in Grants, g = fam[r] PROVE Status(g)' = "open"
    <3>1. Family(g)' = {r} /\ Opened(g)'
      BY <1>1, <1>4, <2>1, <2>4
    <3> QED  BY <3>1 DEF Status
  <2> QED  BY <1>4, <2>1, <2>2, <2>3, <2>4 DEF Status
<1>7. Redeemed' = Redeemed
  BY <1>3 DEF Redeemed, Opened
<1>8. \A g \in Grants : r \notin Family(g)
  BY <1>1 DEF Family
<1>9. ASSUME NEW g \in Grants, g = fam[r] PROVE Ledger!Issue(g, r)
  <2>1. Status(g) = "open" /\ Family(g) = {}
    BY <1>1, <1>9 DEF Status, InHand
  <2>2. [h \in Grants |-> Family(h)]' = [[h \in Grants |-> Family(h)] EXCEPT ![g] = {r}]
    BY <1>4, <1>9
  <2>3. [h \in Grants |-> Status(h)]' = [h \in Grants |-> Status(h)]
    BY <1>6
  <2> QED  BY <1>7, <2>1, <2>2, <2>3 DEF Ledger!Issue
<1> QED  BY <1>1, <1>8, <1>9 DEF Ledger!Next

(* A code is taken, and opens a grant, or is not there.                    *)
LEMMA LedgerOfConsume ==
  ASSUME Inductive, NEW r \in Requests, Consume(r)
  PROVE  Ledger!Next
<1> USE DEF Inductive, TypeOK
<1>1. /\ pc[r] = "consume" /\ arg[r] \in Codes /\ fam[r] = None /\ ~Opened(r) /\ ~Holding(r)
      /\ UNCHANGED <<arg, tokens>> /\ \A q \in Requests : q # r => pc'[q] = pc[q] /\ fam'[q] = fam[q]
  BY DEF Consume, At, Goto, CodeCalls, UnspentHaveNoGrant, Unspent, Opened, Grants, YandexTokens, Holding
<1>2. CASE arg[r] \in codes /\ CodeTTL >= now
  <2>1. fam'[r] = r /\ pc'[r] = "vetCode"
    BY <1>2 DEF Consume, Goto
  <2>2. \A g \in Grants : Opened(g)' = (Opened(g) \/ g = r)
    BY <1>1, <2>1 DEF Opened, Grants
  <2>3. \A g \in Grants : Family(g)' = Family(g)
    BY <1>1 DEF Family
  <2>4. \A g \in Grants : g # r => (InHand(g)' <=> InHand(g))
    BY <1>1, <2>1 DEF InHand, Holding
  <2>5. InHand(r)'
    BY <2>1 DEF InHand, Holding
  <2>6. \A g \in Grants : Status(g)' = IF g = r THEN "open" ELSE Status(g)
    BY <2>2, <2>3, <2>4, <2>5 DEF Status
  <2>7. Redeemed' = Redeemed \cup {arg[r]}
    <3>1. \A c \in Codes : (\E q \in Requests : Opened(q)' /\ arg[q] = c)
                            <=> (\E q \in Requests : Opened(q) /\ arg[q] = c) \/ c = arg[r]
      BY <2>2 DEF Grants
    <3>2. Redeemed' = {c \in Codes : \E q \in Requests : Opened(q)' /\ arg[q] = c}
      BY <1>1 DEF Redeemed
    <3> QED  BY <1>1, <3>1, <3>2 DEF Redeemed
  <2>8. arg[r] \notin Redeemed
    BY <1>2 DEF Redeemed, OpenedCodesAreGone
  <2>9. r \in Grants /\ Status(r) = "unborn"
    BY <1>1 DEF Grants, Status
  <2>10. Ledger!OpenByCode(r, arg[r])
    BY <2>3, <2>6, <2>7, <2>8, <2>9 DEF Ledger!OpenByCode
  <2> QED  BY <1>1, <2>9, <2>10 DEF Ledger!Next
<1>3. CASE ~(arg[r] \in codes /\ CodeTTL >= now)
  <2>1. fam' = fam /\ pc'[r] = "spentCode"
    BY <1>3 DEF Consume, Goto
  <2> QED  BY <1>1, <2>1, LedgerOfRemovals DEF Holding
<1> QED  BY <1>2, <1>3

(* A pair is taken, of a grant that r has in hand from now on: its own if  *)
(* the pair is older than grants.                                          *)
LEMMA LedgerOfRotate ==
  ASSUME Inductive, NEW r \in Requests, Rotate(r)
  PROVE  Ledger!Next
<1> USE DEF Inductive, TypeOK
<1> DEFINE p == arg[r]
<1>1. /\ pc[r] = "rotate" /\ p \in Pairs /\ fam[r] = None /\ ~Opened(r) /\ ~Holding(r) /\ r \in Grants
      /\ arg' = arg /\ \A q \in Requests : q # r => pc'[q] = pc[q] /\ fam'[q] = fam[q]
  BY DEF Rotate, At, Goto, Finish, PairCalls, RefreshCalls, UnspentHaveNoGrant, Unspent, Opened,
         Grants, YandexTokens, Holding
<1>2. CASE RowFound(p)
  <2>1. /\ fam'[r] = GrantOfRotation(r) /\ pc'[r] = "remember"
        /\ \A s \in Pairs : tokens'[s] = IF s = p THEN None ELSE tokens[s]
    BY <1>2, DropKeeps DEF Rotate, Goto
  <2>2. tokens[p] = seen[r] /\ seen[r] # None
    BY <1>1, <1>2 DEF RowFound, SeenIsCurrent, RefreshCalls
  <2>3. \A g \in Grants : Family(g)' = Family(g) \ {p}
    BY <2>1 DEF Family
  <2>4. \A g \in Grants : g # GrantOfRotation(r) => (InHand(g)' <=> InHand(g))
    BY <1>1, <2>1 DEF InHand, Holding
  <2>5. ASSUME NEW g \in Grants, g = GrantOfRotation(r) PROVE InHand(g)'
    BY <2>1, <2>5 DEF InHand, Holding
  <2>6. CASE seen[r].grant = None
    <3>1. GrantOfRotation(r) = r /\ fam'[r] = r
      BY <2>1, <2>6 DEF GrantOfRotation
    <3>2. \A g \in Grants : Opened(g)' = (Opened(g) \/ g = r)
      BY <1>1, <3>1 DEF Opened, Grants
    <3>3. \A g \in Grants : Family(g)' = Family(g)
      BY <2>2, <2>3, <2>6 DEF Family, Grants, YandexTokens
    <3>4. \A g \in Grants : Status(g)' = IF g = r THEN "open" ELSE Status(g)
      BY <1>1, <2>4, <2>5, <3>1, <3>2, <3>3 DEF Status
    <3>5. Redeemed' = Redeemed
      <4>1. \A c \in Codes : (\E q \in Requests : Opened(q)' /\ arg[q] = c)
                              <=> (\E q \in Requests : Opened(q) /\ arg[q] = c)
        <5>1. arg[r] \notin Codes
          BY <1>1
        <5> QED  BY <3>2, <5>1 DEF Grants
      <4>2. Redeemed' = {c \in Codes : \E q \in Requests : Opened(q)' /\ arg[q] = c}
        BY <1>1 DEF Redeemed
      <4> QED  BY <4>1, <4>2 DEF Redeemed
    <3>6. Status(r) = "unborn"
      BY <1>1 DEF Status
    <3>7. Ledger!OpenByRotation(r)
      BY <3>3, <3>4, <3>5, <3>6, <1>1 DEF Ledger!OpenByRotation
    <3> QED  BY <1>1, <3>7 DEF Ledger!Next
  <2>7. ASSUME NEW g \in Grants, seen[r].grant = g PROVE Ledger!Next
    <3>1. g # None /\ GrantOfRotation(r) = g /\ fam'[r] = g
      BY <2>1, <2>7 DEF GrantOfRotation, Grants, YandexTokens
    <3>2. p \in Family(g) /\ Opened(g)
      BY <1>1, <2>2, <2>7, <3>1 DEF Family, GrantsOfRowsAreOpen
    <3>3. g # r
      BY <1>1, <3>2
    <3>4. \A h \in Grants : Opened(h)' = Opened(h)
      BY <1>1, <3>1, <3>3 DEF Opened, Grants
    <3>5. \A h \in Grants : Family(h)' = IF h = g THEN {} ELSE Family(h)
      BY <2>2, <2>3, <2>7, <3>2 DEF Family, OneHolder, OneLivePair
    <3>6. Status(g) = "open"
      BY <3>2 DEF Status
    <3>7. \A h \in Grants : Status(h)' = Status(h)
      BY <2>4, <2>5, <3>1, <3>2, <3>4, <3>5, <3>6 DEF Status
    <3>8. Redeemed' = Redeemed
      BY <1>1, <3>4 DEF Redeemed, Grants
    <3>9. Ledger!Withdraw(g)
      BY <3>5, <3>6, <3>7, <3>8 DEF Ledger!Withdraw
    <3> QED  BY <3>9 DEF Ledger!Next
  <2>8. seen[r].grant \in Grants \cup {None}
    BY <2>2 DEF Row
  <2> QED  BY <2>6, <2>7, <2>8
<1>3. CASE ~RowFound(p)
  <2>1. UNCHANGED <<fam, tokens>> /\ pc'[r] = "failed"
    BY <1>3 DEF Rotate, Finish, Goto
  <2> QED  BY <1>1, <2>1, LedgerOfRemovals DEF Holding
<1> QED  BY <1>2, <1>3

(* Each step of the token endpoint is a step of the ledger, or leaves the  *)
(* grants as they are.                                                     *)
LEMMA LedgerNext == Inductive /\ [Next]_vars => [Ledger!Next]_(Ledger!vars)
<1> SUFFICES ASSUME Inductive, [Next]_vars PROVE [Ledger!Next]_(Ledger!vars)
  OBVIOUS
<1>1. CASE Prune
  <2>1. UNCHANGED <<arg, fam, pc>>
    BY <1>1 DEF Prune, locals
  <2>2. \A p \in Pairs : tokens'[p] \in {tokens[p], None}
    BY <1>1, SweepKeeps DEF Prune, Inductive, TypeOK
  <2> QED  BY <2>1, <2>2, LedgerOfRemovals DEF Holding
<1>2. CASE Tick
  BY <1>2, LedgerOfRemovals DEF Tick, Holding, tables, locals
<1>3. CASE UNCHANGED vars
  BY <1>3 DEF vars, tables, locals, Ledger!vars, Redeemed, Status, Opened, Family, InHand, Holding
<1> QED
  BY <1>1, <1>2, <1>3, LedgerOfReads, LedgerOfSteps, LedgerOfInserts, LedgerOfConsume,
     LedgerOfRotate DEF Next, Step

(* The token endpoint implements the ledger: a code opens one grant, a     *)
(* grant has one pair at a time, a pair that left never returns and a      *)
(* grant that ended never comes back, whatever the requests do.            *)
THEOREM EndpointKeepsTheLedger == Spec => ImplementsLedger
BY LedgerInit, LedgerNext, InductiveCorrect, PTL DEF Spec, ImplementsLedger, Ledger!Spec
=============================================================================
