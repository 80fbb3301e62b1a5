-------------------------- MODULE KeyRotation_proofs --------------------------
(***************************************************************************)
(* Theorems about KeyRotation, for any number of rows, columns, pods,      *)
(* requests and restarts, any size of a page, and an old key with or       *)
(* without an id.                                                          *)
(***************************************************************************)
EXTENDS KeyRotation, FiniteSetTheorems, TLAPS

USE RotationAssumption

------------------------------------------------------------------------------
(* Types.                                                                  *)

(* The types hold at first.                                                *)
LEMMA TypeInit == Init => TypeOK
BY DEF Init, TypeOK, Steps, Nothing, Texts, Cells, Envelope

(* What a pass does to one pod keeps the types.                            *)
LEMMA TypeOfPass == ASSUME TypeOK, NEW p \in Pods, Pass(p) \/ Stop(p) PROVE TypeOK'
<1>1. CASE Scan(p)
  <2>1. after' \in [Pods -> Rows \cup {0}]
    BY <1>1 DEF Scan, Moved, TypeOK, RowsLeft
  <2>2. from' \in [Pods -> [Cells -> Envelope \cup {None}]]
    BY <1>1 DEF Scan, TypeOK
  <2>3. more' \in [Pods -> BOOLEAN] /\ dirty' \in [Pods -> BOOLEAN]
    BY <1>1 DEF Scan, TypeOK, Full
  <2> QED BY <1>1, <2>1, <2>2, <2>3 DEF Scan, TypeOK, writing
<1>2. CASE Rewrite(p)
  <2> PICK c \in Left(p) :
        /\ from' = [from EXCEPT ![p][c] = None]
        /\ store' = IF Unchanged(p, c)
                    THEN [store EXCEPT ![c] = [key |-> ActiveOf(config[p]), text |-> from[p][c].text]]
                    ELSE store
    BY <1>2 DEF Rewrite
  <2>1. c \in Cells /\ from[p][c] \in Envelope
    BY DEF Left, TypeOK
  <2>2. [key |-> ActiveOf(config[p]), text |-> from[p][c].text] \in Envelope
    BY <2>1 DEF Envelope, ActiveOf
  <2>3. store' \in [Cells -> Envelope \cup {None}]
    BY <2>1, <2>2 DEF TypeOK
  <2>4. from' \in [Pods -> [Cells -> Envelope \cup {None}]]
    BY <2>1 DEF TypeOK
  <2> QED BY <1>2, <2>3, <2>4 DEF Rewrite, TypeOK, writing
<1>3. CASE PageDone(p)
  BY <1>3 DEF PageDone, TypeOK, writing
<1>4. CASE Stop(p)
  BY <1>4 DEF Stop, TypeOK, writing, Nothing
<1> QED BY <1>1, <1>2, <1>3, <1>4 DEF Pass

(* Every step keeps the types.                                             *)
LEMMA TypeNext == TypeOK /\ [Next]_vars => TypeOK'
<1> SUFFICES ASSUME TypeOK, [Next]_vars PROVE TypeOK' OBVIOUS
<1>1. CASE Advance
  BY <1>1 DEF Advance, TypeOK, Following, Steps, scanning, writing
<1>2. ASSUME NEW p \in Pods, Start(p) PROVE TypeOK'
  <2>1. pc' \in [Writers -> {"idle", "write", "done", "failed"}]
    BY <1>2 DEF Start, TypeOK
  <2>2. target' \in [Writers -> Cells \cup {None}] /\ sealed' \in [Writers -> Envelope \cup {None}]
    BY <1>2 DEF Start, TypeOK
  <2>3. \A w \in Writers : pc'[w] = "write" => target'[w] # None /\ sealed'[w] # None
    BY <1>2 DEF Start, TypeOK
  <2>4. spare' \in 0..MaxSpare
    BY <1>2 DEF Start, TypeOK
  <2> QED BY <1>2, <2>1, <2>2, <2>3, <2>4 DEF Start, TypeOK, Nothing
<1>3. ASSUME NEW p \in Pods, Pass(p) \/ Stop(p) PROVE TypeOK'
  BY <1>3, TypeOfPass
<1>4. ASSUME NEW w \in Writers, Encrypt(w) PROVE TypeOK'
  <2>1. [key |-> ActiveOf(config[Pod[w]]), text |-> w] \in Envelope
    BY DEF Envelope, ActiveOf, Texts
  <2> QED BY <1>4, <2>1 DEF Encrypt, TypeOK, scanning
<1>5. ASSUME NEW w \in Writers, Write(w) PROVE TypeOK'
  <2>1. target[w] \in Cells /\ sealed[w] \in Envelope
    BY <1>5 DEF Write, TypeOK
  <2> QED BY <1>5, <2>1 DEF Write, Value, TypeOK, scanning, Texts
<1>6. ASSUME NEW r \in Rows, Remove(r) PROVE TypeOK'
  BY <1>6 DEF Remove, TypeOK, scanning, writing
<1>7. CASE UNCHANGED vars
  BY <1>7 DEF vars, TypeOK, scanning, writing
<1> QED BY <1>1, <1>2, <1>3, <1>4, <1>5, <1>6, <1>7 DEF Next

(* The declared types hold in every reachable state.                       *)
THEOREM TypeCorrect == Spec => []TypeOK
BY TypeInit, TypeNext, PTL DEF Spec

------------------------------------------------------------------------------
(* What a request has sealed is its own, under the key its pod writes with.*)
SealedOwn ==
  \A w \in Writers : pc[w] = "write" =>
    sealed[w].text = w /\ sealed[w].key = ActiveOf(config[Pod[w]])

(* What is sealed stays sealed with the settings of a pod that goes on.    *)
LEMMA SealedNext == TypeOK /\ SealedOwn /\ [Next]_vars => SealedOwn'
<1> SUFFICES ASSUME TypeOK, SealedOwn, [Next]_vars PROVE SealedOwn' OBVIOUS
<1>1. ASSUME NEW p \in Pods, Start(p) PROVE SealedOwn'
  <2> SUFFICES ASSUME NEW w \in Writers, pc'[w] = "write"
               PROVE  sealed'[w].text = w /\ sealed'[w].key = ActiveOf(config'[Pod[w]])
    BY DEF SealedOwn, ActiveOf
  <2>1. Pod[w] # p /\ pc[w] = "write"
    BY <1>1 DEF Start, TypeOK
  <2>2. sealed'[w] = sealed[w] /\ config'[Pod[w]] = config[Pod[w]]
    BY <1>1, <2>1 DEF Start, TypeOK
  <2> QED BY <2>1, <2>2 DEF SealedOwn
<1>2. ASSUME NEW w \in Writers, Encrypt(w) PROVE SealedOwn'
  BY <1>2 DEF Encrypt, SealedOwn, TypeOK, ActiveOf
<1>3. ASSUME NEW w \in Writers, Write(w) PROVE SealedOwn'
  BY <1>3 DEF Write, SealedOwn, TypeOK, ActiveOf
<1>4. CASE UNCHANGED <<config, pc, sealed>>
  BY <1>4 DEF SealedOwn, ActiveOf
<1>5. ASSUME NEW p \in Pods, Pass(p) \/ Stop(p) PROVE UNCHANGED <<config, pc, sealed>>
  BY <1>5 DEF Pass, Scan, Rewrite, PageDone, Stop, writing
<1>6. Advance \/ (\E r \in Rows : Remove(r)) \/ UNCHANGED vars => UNCHANGED <<config, pc, sealed>>
  BY DEF Advance, Remove, vars, writing
<1> QED BY <1>1, <1>2, <1>3, <1>4, <1>5, <1>6 DEF Next

(* The rewrite replaces a value only by itself under another key, and a    *)
(* request's write is what the history says it is: nothing is overwritten, *)
(* lost or restored.                                                       *)
LEMMA TextNext == TypeOK /\ SealedOwn /\ TextKept /\ [Next]_vars => TextKept'
<1> SUFFICES ASSUME TypeOK, SealedOwn, TextKept, [Next]_vars PROVE TextKept' OBVIOUS
<1>1. ASSUME NEW p \in Pods, Rewrite(p) PROVE TextKept'
  <2> PICK c \in Left(p) :
        store' = IF Unchanged(p, c)
                 THEN [store EXCEPT ![c] = [key |-> ActiveOf(config[p]), text |-> from[p][c].text]]
                 ELSE store
    BY <1>1 DEF Rewrite
  <2>1. c \in Cells /\ from[p][c] \in Envelope
    BY DEF Left, TypeOK
  <2>2. store[c] = from[p][c] => store[c] # None /\ from[p][c].text = last[c]
    BY <2>1 DEF TextKept, TypeOK
  <2>3. [key |-> ActiveOf(config[p]), text |-> from[p][c].text] # None
    BY <2>1 DEF Envelope, ActiveOf
  <2>4. last' = last
    BY <1>1 DEF Rewrite
  <2> QED BY <2>1, <2>2, <2>3, <2>4 DEF TextKept, TypeOK, Unchanged
<1>2. ASSUME NEW w \in Writers, Write(w) PROVE TextKept'
  <2>1. target[w] \in Cells /\ sealed[w] \in Envelope /\ sealed[w].text = w
    BY <1>2 DEF Write, TypeOK, SealedOwn
  <2> QED BY <1>2, <2>1 DEF Write, Value, TextKept, TypeOK
<1>3. ASSUME NEW r \in Rows, Remove(r) PROVE TextKept'
  BY <1>3 DEF Remove, TextKept, TypeOK
<1>4. CASE UNCHANGED <<store, last>>
  BY <1>4 DEF TextKept
<1>5. ASSUME NEW p \in Pods, Start(p) \/ Scan(p) \/ PageDone(p) \/ Stop(p) PROVE UNCHANGED <<store, last>>
  BY <1>5 DEF Start, Scan, PageDone, Stop
<1>6. ASSUME NEW w \in Writers, Encrypt(w) PROVE UNCHANGED <<store, last>>
  BY <1>6 DEF Encrypt
<1>7. Advance \/ UNCHANGED vars => UNCHANGED <<store, last>>
  BY DEF Advance, vars
<1> QED BY <1>1, <1>2, <1>3, <1>4, <1>5, <1>6, <1>7 DEF Next, Pass

(* The pass never changes what is stored, only the key: a write beside it  *)
(* is not overwritten, and a removed value is not restored.                *)
THEOREM NothingLost == Spec => []TextKept
<1>1. Init => SealedOwn /\ TextKept
  BY DEF Init, SealedOwn, TextKept
<1> QED BY <1>1, TypeInit, TypeNext, SealedNext, TextNext, PTL DEF Spec

------------------------------------------------------------------------------
(* The steps of the operator and the settings of the pods.                 *)

(* A pod runs with the settings of this step or of the one before it.      *)
Current(p) ==
  \/ config[p] = step
  \/ config[p] = "before"  /\ step = "listed"
  \/ config[p] = "listed"  /\ step = "active"
  \/ config[p] = "active"  /\ step = "rewrite"
  \/ config[p] = "rewrite" /\ step = "retired"

(* Nothing is under the new key before pods write with it, and, once the   *)
(* old one is retired, nothing is under that.                              *)
KeysInStep ==
  /\ \A p \in Pods : Current(p)
  /\ \A c \in Cells : store[c] # None /\ store[c].key = New => step \in {"active", "rewrite", "retired"}
  /\ \A c \in Cells : store[c] # None /\ store[c].key = Old => step # "retired"

(* While a pod rewrites, every value under the old key is ahead of its     *)
(* pass, or left on its page and unchanged since it was read.              *)
OldIsAhead(p) ==
  config[p] = "rewrite" =>
    \A c \in Cells : store[c] # None /\ store[c].key = Old =>
      /\ pass[p] = "scan" => c[1] > after[p]
      /\ pass[p] = "rewrite" => \/ from[p][c] = store[c]
                                \/ more[p] /\ c[1] > after[p]
      /\ pass[p] # "done"

Rotating == SealedOwn /\ KeysInStep /\ \A p \in Pods : OldIsAhead(p)

(* Once a pod rewrites, no pod writes with the old key.                    *)
LEMMA NewIsActive ==
  ASSUME TypeOK, \A p \in Pods : Current(p), NEW p \in Pods, config[p] = "rewrite"
  PROVE  \A q \in Pods : ActiveOf(config[q]) = New
BY DEF Current, ActiveOf

(* Values under the new key only appear from pods that write with it.      *)
LEMMA ActiveInStep ==
  ASSUME TypeOK, \A q \in Pods : Current(q), NEW p \in Pods
  PROVE  /\ ActiveOf(config[p]) = New => step \in {"active", "rewrite", "retired"}
         /\ ActiveOf(config[p]) = Old => step # "retired"
         /\ ActiveOf(config[p]) \in {Old, New}
BY DEF Current, ActiveOf, TypeOK, Steps

(* A step that at most turns values into new ones, moves no pod of its     *)
(* settings and no pass on.                                                *)
LEMMA StoreMoves ==
  ASSUME TypeOK, Rotating,
         UNCHANGED <<step, config, pass, after, more, from>>,
         NEW k \in {Old, New},
         k = New => step \in {"active", "rewrite", "retired"},
         k = Old => step # "retired" /\ \A p \in Pods : config[p] # "rewrite",
         \A c \in Cells : \/ store'[c] = store[c]
                          \/ store'[c] = None
                          \/ store'[c].key = k
  PROVE  KeysInStep' /\ \A p \in Pods : OldIsAhead(p)'
<1>1. KeysInStep'
  BY DEF Rotating, KeysInStep, Current, TypeOK
<1>2. ASSUME NEW p \in Pods PROVE OldIsAhead(p)'
  BY <1>2 DEF Rotating, OldIsAhead, TypeOK
<1> QED BY <1>1, <1>2

(* One SELECT: what it returns is left to do, the rest is behind it.       *)
LEMMA ScanMoves ==
  ASSUME TypeOK, Rotating, NEW p \in Pods, Scan(p)
  PROVE  OldIsAhead(p)'
<1> SUFFICES ASSUME config[p] = "rewrite", NEW c \in Cells, store[c] # None, store[c].key = Old
             PROVE  from'[p][c] = store[c] \/ (more'[p] /\ c[1] > after'[p])
  BY DEF OldIsAhead, Scan, TypeOK
<1> DEFINE found(page) == {d \in StaleCells(p) : d[1] \in page /\ Opens(p, store[d])}
<1>1. PICK page \in SUBSET RowsLeft(p) :
        /\ \A r \in page, s \in RowsLeft(p) \ page : r < s
        /\ IF page = RowsLeft(p) THEN Cardinality(page) <= PageSize ELSE Cardinality(page) = PageSize
        /\ from' = [from EXCEPT ![p] = [d \in Cells |-> IF d \in found(page) THEN store[d] ELSE None]]
        /\ more' = [more EXCEPT ![p] = Full(page)]
        /\ Moved(p, page)
  BY DEF Scan
<1>2. c[1] \in Rows /\ c[1] > after[p]
  BY DEF Scan, Rotating, OldIsAhead, Cells
<1>3. c \in StaleCells(p) /\ Opens(p, store[c])
  BY DEF StaleCells, Stale, Opens, ActiveOf, KeysOf
<1>4. c[1] \in RowsLeft(p)
  BY <1>2, <1>3 DEF RowsLeft
<1>5. CASE c[1] \in page
  BY <1>1, <1>3, <1>5 DEF TypeOK
<1>6. CASE c[1] \notin page
  <2>1. Cardinality(page) = PageSize
    BY <1>1, <1>4, <1>6
  <2>2. page # {}
    BY <2>1, FS_EmptySet
  <2>3. after'[p] \in page
    BY <1>1, <2>2 DEF Moved, TypeOK
  <2>4. after'[p] < c[1]
    BY <1>1, <1>4, <1>6, <2>3
  <2> QED BY <1>1, <1>2, <2>1, <2>3, <2>4 DEF Full, TypeOK, RowsLeft
<1> QED BY <1>5, <1>6

(* One UPDATE: a value that changed since it was read was not old any more.*)
LEMMA RewriteMoves ==
  ASSUME TypeOK, Rotating, NEW p \in Pods, Rewrite(p)
  PROVE  KeysInStep' /\ \A q \in Pods : OldIsAhead(q)'
<1> PICK c \in Left(p) :
      /\ from' = [from EXCEPT ![p][c] = None]
      /\ store' = IF Unchanged(p, c)
                  THEN [store EXCEPT ![c] = [key |-> ActiveOf(config[p]), text |-> from[p][c].text]]
                  ELSE store
  BY DEF Rewrite
<1>1. c \in Cells /\ from[p][c] # None
  BY DEF Left
<1>2. UNCHANGED <<step, config, pass, after, more>>
  BY DEF Rewrite
<1>3. \A d \in Cells : store'[d] = store[d] \/ store'[d].key = ActiveOf(config[p])
  BY <1>1 DEF TypeOK
<1>4. KeysInStep'
  BY <1>2, <1>3, ActiveInStep DEF Rotating, KeysInStep, Current
<1>5. ASSUME NEW q \in Pods PROVE OldIsAhead(q)'
  <2> SUFFICES ASSUME config[q] = "rewrite", NEW d \in Cells, store'[d] # None, store'[d].key = Old
               PROVE  /\ pass[q] = "scan" => d[1] > after[q]
                      /\ pass[q] = "rewrite" => \/ from'[q][d] = store'[d]
                                                \/ more[q] /\ d[1] > after[q]
                      /\ pass[q] # "done"
    BY <1>2 DEF OldIsAhead
  <2>1. ActiveOf(config[p]) = New
    BY NewIsActive DEF Rotating, KeysInStep
  <2>2. store'[d] = store[d] /\ ~(d = c /\ Unchanged(p, c))
    BY <1>1, <1>3, <2>1 DEF TypeOK
  <2>3. from'[q][d] = from[q][d] \/ (q = p /\ d = c)
    BY <1>1 DEF TypeOK
  <2> QED BY <2>2, <2>3 DEF Rotating, OldIsAhead, Unchanged
<1> QED BY <1>4, <1>5

(* A page is done: what is still old is on the pages to come.              *)
LEMMA PageDoneMoves ==
  ASSUME TypeOK, Rotating, NEW p \in Pods, PageDone(p)
  PROVE  OldIsAhead(p)'
BY DEF PageDone, Rotating, OldIsAhead, Left, TypeOK

(* A pod starts: its pass has everything ahead of it.                      *)
LEMMA StartMoves ==
  ASSUME TypeOK, Rotating, NEW p \in Pods, Start(p)
  PROVE  KeysInStep' /\ \A q \in Pods : OldIsAhead(q)'
<1>1. UNCHANGED <<store, step>>
  BY DEF Start
<1>2. \A q \in Pods : config'[q] = IF q = p THEN step ELSE config[q]
  BY DEF Start, TypeOK
<1>3. KeysInStep'
  BY <1>1, <1>2 DEF Rotating, KeysInStep, Current
<1>4. OldIsAhead(p)'
  <2>1. pass'[p] \in {"scan", "none"} /\ after'[p] = 0
    BY DEF Start, TypeOK
  <2>2. \A c \in Cells : c[1] \in Nat \ {0}
    BY DEF Cells
  <2>3. \A c \in Cells : c[1] > 0
    BY <2>2
  <2> QED BY <2>1, <2>3 DEF OldIsAhead
<1>5. ASSUME NEW q \in Pods, q # p PROVE OldIsAhead(q)'
  <2>1. /\ config'[q] = config[q] /\ pass'[q] = pass[q] /\ after'[q] = after[q]
        /\ from'[q] = from[q] /\ more'[q] = more[q]
    BY <1>5 DEF Start, TypeOK
  <2> QED BY <1>1, <1>5, <2>1 DEF Rotating, OldIsAhead
<1> QED BY <1>3, <1>4, <1>5

(* The operator goes on: the old key is removed only after a pass that was *)
(* to rewrite ran to its end.                                              *)
LEMMA AdvanceMoves ==
  ASSUME TypeOK, Rotating, Advance
  PROVE  KeysInStep' /\ \A p \in Pods : OldIsAhead(p)'
<1>1. UNCHANGED <<store, config, pass, after, from, more>>
  BY DEF Advance, scanning
<1>2. \A p \in Pods : config[p] = step
  BY DEF Advance
<1>3. step \in {"before", "listed", "active", "rewrite"} /\ step' = Following(step)
  BY DEF Advance, TypeOK, Steps
<1>4. step = "rewrite" => \A c \in Cells : store[c] # None => store[c].key # Old
  BY <1>2 DEF Advance, ReportsClean, Rotating, OldIsAhead
<1>5. KeysInStep'
  BY <1>1, <1>2, <1>3, <1>4 DEF Rotating, KeysInStep, Current, Following
<1>6. \A p \in Pods : OldIsAhead(p)'
  BY <1>1 DEF Rotating, OldIsAhead
<1> QED BY <1>5, <1>6

(* A pass touches only its own pod's place.                                *)
LEMMA OthersPass ==
  ASSUME TypeOK, Rotating, NEW p \in Pods, Scan(p) \/ PageDone(p) \/ Stop(p), OldIsAhead(p)'
  PROVE  KeysInStep' /\ \A q \in Pods : OldIsAhead(q)'
<1>1. UNCHANGED <<store, step, config>>
  BY DEF Scan, PageDone, Stop
<1>2. KeysInStep'
  BY <1>1 DEF Rotating, KeysInStep, Current
<1>3. ASSUME NEW q \in Pods, q # p PROVE OldIsAhead(q)'
  <2>1. pass'[q] = pass[q] /\ after'[q] = after[q] /\ from'[q] = from[q] /\ more'[q] = more[q]
    BY <1>3 DEF Scan, Moved, PageDone, Stop, TypeOK
  <2> QED BY <1>1, <1>3, <2>1 DEF Rotating, OldIsAhead
<1> QED BY <1>2, <1>3

(* Every step keeps the invariant.                                         *)
LEMMA RotatingNext == TypeOK /\ Rotating /\ [Next]_vars => Rotating'
<1> SUFFICES ASSUME TypeOK, Rotating, [Next]_vars
             PROVE  KeysInStep' /\ \A p \in Pods : OldIsAhead(p)'
  BY SealedNext DEF Rotating
<1>1. CASE Advance
  BY <1>1, AdvanceMoves
<1>2. ASSUME NEW p \in Pods, Start(p) PROVE KeysInStep' /\ \A q \in Pods : OldIsAhead(q)'
  BY <1>2, StartMoves
<1>3. ASSUME NEW p \in Pods, Pass(p) \/ Stop(p) PROVE KeysInStep' /\ \A q \in Pods : OldIsAhead(q)'
  <2>1. Stop(p) => OldIsAhead(p)'
    BY DEF Stop, OldIsAhead, TypeOK
  <2> QED BY <1>3, <2>1, ScanMoves, RewriteMoves, PageDoneMoves, OthersPass DEF Pass
<1>4. ASSUME NEW w \in Writers, Encrypt(w) PROVE KeysInStep' /\ \A q \in Pods : OldIsAhead(q)'
  BY <1>4 DEF Encrypt, scanning, Rotating, KeysInStep, Current, OldIsAhead
<1>5. ASSUME NEW w \in Writers, Write(w) PROVE KeysInStep' /\ \A q \in Pods : OldIsAhead(q)'
  <2> DEFINE k == ActiveOf(config[Pod[w]])
  <2>1. target[w] \in Cells /\ sealed[w] \in Envelope /\ sealed[w].key = k
    BY <1>5 DEF Write, TypeOK, Rotating, SealedOwn
  <2>2. \A c \in Cells : store'[c] = store[c] \/ store'[c].key = k
    BY <1>5, <2>1 DEF Write, Value, TypeOK
  <2>3. UNCHANGED <<step, config, pass, after, more, from>>
    BY <1>5 DEF Write, scanning
  <2>4. /\ k = New => step \in {"active", "rewrite", "retired"}
        /\ k = Old => step # "retired"
        /\ k \in {Old, New}
    BY ActiveInStep DEF Rotating, KeysInStep
  <2>5. k = Old => \A p \in Pods : config[p] # "rewrite"
    BY NewIsActive DEF Rotating, KeysInStep
  <2> HIDE DEF k
  <2> QED BY <2>2, <2>3, <2>4, <2>5, StoreMoves
<1>6. ASSUME NEW r \in Rows, Remove(r) PROVE KeysInStep' /\ \A q \in Pods : OldIsAhead(q)'
  <2>1. \A c \in Cells : store'[c] = store[c] \/ store'[c] = None
    BY <1>6 DEF Remove, TypeOK
  <2>2. UNCHANGED <<step, config, pass, after, more, from>>
    BY <1>6 DEF Remove, scanning
  <2> QED BY <2>1, <2>2 DEF Rotating, KeysInStep, Current, OldIsAhead
<1>7. CASE UNCHANGED vars
  BY <1>7 DEF vars, scanning, Rotating, KeysInStep, Current, OldIsAhead
<1> QED BY <1>1, <1>2, <1>3, <1>4, <1>5, <1>6, <1>7 DEF Next

(* At first every pod has the old key only, and nothing is under the new.  *)
LEMMA RotatingInit == Init => Rotating
BY DEF Init, Rotating, SealedOwn, KeysInStep, Current, OldIsAhead

(* The keys are in step in every reachable state.                          *)
LEMMA RotatingCorrect == Spec => [](TypeOK /\ Rotating)
BY TypeInit, TypeNext, RotatingInit, RotatingNext, PTL DEF Spec

(* Whoever follows the steps of the README never leaves a pod without the  *)
(* key of a value, but for values lost before.                             *)
THEOREM EveryKeyAtHand == Spec => []Readable
<1>1. TypeOK /\ Rotating => Readable
  BY DEF TypeOK, Envelope, Rotating, KeysInStep, Current, Readable, KeysOf
<1> QED BY <1>1, RotatingCorrect, PTL

(* A pass that was to rewrite and ran to its end left nothing under the    *)
(* old key, though rows came and went on its pages and other pods wrote.   *)
THEOREM NothingStaleAfterPass == Spec => []NothingStaleLeft
<1>1. TypeOK /\ Rotating => NothingStaleLeft
  BY DEF Rotating, OldIsAhead, NothingStaleLeft
<1> QED BY <1>1, RotatingCorrect, PTL
==============================================================================
