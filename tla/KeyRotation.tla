----------------------------- MODULE KeyRotation -----------------------------
(***************************************************************************)
(* Retiring an encryption key while several pods serve requests.  The      *)
(* operator follows the steps the README gives: list the new key on every  *)
(* pod, make it the active one, restart with REENCRYPT_STORED_CREDENTIALS, *)
(* and remove the old key once a start reports nothing stale.  Each start  *)
(* pages through the stored envelopes in the background; each rewrite is   *)
(* one UPDATE, conditional on the value that was read.                     *)
(*                                                                         *)
(* The three tables are paged one after the other in the same way and are  *)
(* one table here.  A sealed value is the key and what it protects: two    *)
(* requests never store the same.                                          *)
(***************************************************************************)
EXTENDS Integers, FiniteSets

CONSTANTS
  Rows,       \* primary keys, in their order
  Columns,    \* the columns that hold envelopes
  Pods,
  Writers,    \* requests that store a credential
  Pod,        \* the pod that serves a request
  PageSize,   \* ROTATION_PAGE_SIZE
  Old, New,   \* the key to retire and the one to replace it
  Lost,       \* a key no pod has
  Named,      \* whether the old key has an id; without one it seals v1 values
  MaxSpare,   \* bound: how often pods start again with the settings they have
  None

Cells    == Rows \X Columns
Texts    == Cells \cup Writers      \* what was there before, or what a request stored
Envelope == [key: {Old, New, Lost}, text: Texts]
Steps    == {"before", "listed", "active", "rewrite", "retired"}

ASSUME RotationAssumption ==
  /\ Rows \subseteq Nat \ {0}
  /\ PageSize \in Nat \ {0}
  /\ Pod \in [Writers -> Pods]
  /\ Old # New /\ Lost \notin {Old, New}
  /\ Named \in BOOLEAN
  /\ MaxSpare \in Nat
  /\ None \notin Envelope \cup Texts \cup Cells

VARIABLES
  store,   \* the envelopes in the database
  step,    \* the step of the operator: the settings pods start with
  config,  \* the settings a pod has started with
  pass,    \* what the rotation pass of a pod does
  after,   \* the last row of its page
  from,    \* what is left of its page to rewrite: the values as they were read
  more,    \* whether the page was full
  dirty,   \* whether the pass found a value it could open under another key
  pc,      \* what a request does
  target,  \* the cell it will write
  sealed,  \* and the envelope
  last,    \* history: what was last stored in a cell by a request
  spare

scanning == <<after, from, more, dirty>>
writing  == <<pc, target, sealed>>
vars     == <<store, step, config, pass, scanning, writing, last, spare>>

Nothing == [c \in Cells |-> None]

KeysOf(s)   == CASE s = "before" -> {Old} [] s = "retired" -> {New} [] OTHER -> {Old, New}
ActiveOf(s) == IF s \in {"before", "listed"} THEN Old ELSE New

TypeOK ==
  /\ store \in [Cells -> Envelope \cup {None}]
  /\ step \in Steps
  /\ config \in [Pods -> Steps]
  /\ pass \in [Pods -> {"none", "scan", "rewrite", "done", "stopped"}]
  /\ after \in [Pods -> Rows \cup {0}]
  /\ from \in [Pods -> [Cells -> Envelope \cup {None}]]
  /\ more \in [Pods -> BOOLEAN] /\ dirty \in [Pods -> BOOLEAN]
  /\ pc \in [Writers -> {"idle", "write", "done", "failed"}]
  /\ target \in [Writers -> Cells \cup {None}]
  /\ sealed \in [Writers -> Envelope \cup {None}]
  /\ last \in [Cells -> Texts \cup {None}]
  /\ spare \in 0..MaxSpare
  /\ \A w \in Writers : pc[w] = "write" => target[w] # None /\ sealed[w] # None

(* Some values may have been sealed with a key that is long gone.          *)
Init ==
  /\ store \in [Cells -> Envelope \cup {None}]
  /\ \A c \in Cells : store[c] # None => store[c].key # New /\ store[c].text = c
  /\ step = "before"
  /\ config = [p \in Pods |-> "before"]
  /\ pass = [p \in Pods |-> "none"]
  /\ after = [p \in Pods |-> 0]
  /\ from = [p \in Pods |-> Nothing]
  /\ more = [p \in Pods |-> FALSE] /\ dirty = [p \in Pods |-> FALSE]
  /\ pc = [w \in Writers |-> "idle"]
  /\ target = [w \in Writers |-> None]
  /\ sealed = [w \in Writers |-> None]
  /\ last = [c \in Cells |-> IF store[c] = None THEN None ELSE c]
  /\ spare = 0

------------------------------------------------------------------------------
(* The operator.                                                           *)

Following(s) == CASE s = "before" -> "listed" [] s = "listed" -> "active"
                  [] s = "active" -> "rewrite" [] s = "rewrite" -> "retired"

(* A start reports no stale value, or only ones it cannot decrypt.         *)
ReportsClean(p) == pass[p] = "done" /\ ~dirty[p]

(* The next step, once every pod runs with the settings of this one.       *)
Advance ==
  /\ step # "retired"
  /\ \A p \in Pods : config[p] = step
  /\ step = "rewrite" => \E p \in Pods : ReportsClean(p)
  /\ step' = Following(step)
  /\ UNCHANGED <<store, config, pass, scanning, writing, last, spare>>

(* A pod starts: what it was doing is gone, and a pass begins, unless      *)
(* values are still written as v1.                                         *)
Start(p) ==
  /\ IF config[p] = step THEN spare < MaxSpare /\ spare' = spare + 1 ELSE UNCHANGED spare
  /\ config' = [config EXCEPT ![p] = step]
  /\ pass' = [pass EXCEPT ![p] = IF ActiveOf(step) = New \/ Named THEN "scan" ELSE "none"]
  /\ after' = [after EXCEPT ![p] = 0]
  /\ from' = [from EXCEPT ![p] = Nothing]
  /\ more' = [more EXCEPT ![p] = FALSE]
  /\ dirty' = [dirty EXCEPT ![p] = FALSE]
  /\ LET cut == {w \in Writers : Pod[w] = p /\ pc[w] = "write"}
     IN /\ pc' = [w \in Writers |-> IF w \in cut THEN "failed" ELSE pc[w]]
        /\ target' = [w \in Writers |-> IF w \in cut THEN None ELSE target[w]]
        /\ sealed' = [w \in Writers |-> IF w \in cut THEN None ELSE sealed[w]]
  /\ UNCHANGED <<store, step, last>>

------------------------------------------------------------------------------
(* rotateCredentials.                                                      *)

Opens(p, e) == e.key \in KeysOf(config[p])

StaleUnnamed(p, e) == e # None /\ e.key # ActiveOf(config[p]) /\ (e.key = Old => ~Named)
                               \* faulty: takes only v1 values for stale
Stale(p, e) == e # None /\ e.key # ActiveOf(config[p])

StaleCells(p) == {c \in Cells : Stale(p, store[c])}
RowsLeft(p)   == {r \in Rows : r > after[p] /\ \E c \in StaleCells(p) : c[1] = r}

NotMoved(p, page) == after' = after   \* faulty: every page starts from the beginning
Moved(p, page) ==
  IF page = {} THEN UNCHANGED after
  ELSE \E r \in page : (\A s \in page : s <= r) /\ after' = [after EXCEPT ![p] = r]

MoreThanFull(page) == Cardinality(page) > PageSize   \* faulty: takes a full page for the last one
Full(page)         == Cardinality(page) = PageSize

(* One SELECT of the first rows after the last page, and what rotateRow     *)
(* makes of them.  Only a start with the flag rewrites.                    *)
Scan(p) ==
  /\ pass[p] = "scan"
  /\ \E page \in SUBSET RowsLeft(p) :
       /\ \A r \in page, s \in RowsLeft(p) \ page : r < s
       /\ IF page = RowsLeft(p) THEN Cardinality(page) <= PageSize ELSE Cardinality(page) = PageSize
       /\ LET found == {c \in StaleCells(p) : c[1] \in page /\ Opens(p, store[c])}
              rewritten == IF config[p] = "rewrite" THEN found ELSE {}
          IN /\ from' = [from EXCEPT ![p] = [c \in Cells |-> IF c \in rewritten THEN store[c] ELSE None]]
             /\ dirty' = [dirty EXCEPT ![p] = @ \/ found # {}]
       /\ more' = [more EXCEPT ![p] = Full(page)]
       /\ Moved(p, page)
  /\ pass' = [pass EXCEPT ![p] = "rewrite"]
  /\ UNCHANGED <<store, step, config, writing, last, spare>>

Unconditional(p, c) == TRUE          \* faulty: UPDATE without AND column = from
Unchanged(p, c)     == store[c] = from[p][c]

Left(p) == {c \in Cells : from[p][c] # None}

Rewrite(p) ==
  /\ pass[p] = "rewrite"
  /\ \E c \in Left(p) :
       /\ \A d \in Left(p) : c[1] <= d[1]
       /\ from' = [from EXCEPT ![p][c] = None]
       /\ store' = IF Unchanged(p, c)
                   THEN [store EXCEPT ![c] = [key |-> ActiveOf(config[p]), text |-> from[p][c].text]]
                   ELSE store
  /\ UNCHANGED <<step, config, pass, after, more, dirty, writing, last, spare>>

PageDone(p) ==
  /\ pass[p] = "rewrite" /\ Left(p) = {}
  /\ pass' = [pass EXCEPT ![p] = IF more[p] THEN "scan" ELSE "done"]
  /\ after' = IF more[p] THEN after ELSE [after EXCEPT ![p] = 0]
  /\ UNCHANGED <<store, step, config, from, more, dirty, writing, last, spare>>

(* A failed query ends the pass part-way.                                  *)
Stop(p) ==
  /\ pass[p] \in {"scan", "rewrite"}
  /\ pass' = [pass EXCEPT ![p] = "stopped"]
  /\ after' = [after EXCEPT ![p] = 0]
  /\ from' = [from EXCEPT ![p] = Nothing]
  /\ more' = [more EXCEPT ![p] = FALSE]
  /\ UNCHANGED <<store, step, config, dirty, writing, last, spare>>

------------------------------------------------------------------------------
(* Requests.                                                               *)

(* A request seals what it is about to store with the active key of its    *)
(* pod, and sends it when storage is ready.                                *)
Encrypt(w) ==
  /\ pc[w] = "idle"
  /\ \E c \in Cells : target' = [target EXCEPT ![w] = c]
  /\ sealed' = [sealed EXCEPT ![w] = [key |-> ActiveOf(config[Pod[w]]), text |-> w]]
  /\ pc' = [pc EXCEPT ![w] = "write"]
  /\ UNCHANGED <<store, step, config, pass, scanning, last, spare>>

InClear(w) == w                      \* faulty: stores what should have been sealed
Value(w)   == sealed[w]

Write(w) ==
  /\ pc[w] = "write"
  /\ store' = [store EXCEPT ![target[w]] = Value(w)]
  /\ last' = [last EXCEPT ![target[w]] = w]
  /\ pc' = [pc EXCEPT ![w] = "done"]
  /\ target' = [target EXCEPT ![w] = None]
  /\ sealed' = [sealed EXCEPT ![w] = None]
  /\ UNCHANGED <<step, config, pass, scanning, spare>>

(* A row is revoked, redeemed, deleted or expires.                         *)
Remove(r) ==
  /\ \E c \in Cells : c[1] = r /\ store[c] # None
  /\ store' = [c \in Cells |-> IF c[1] = r THEN None ELSE store[c]]
  /\ last' = [c \in Cells |-> IF c[1] = r THEN None ELSE last[c]]
  /\ UNCHANGED <<step, config, pass, scanning, writing, spare>>

Pass(p) == Scan(p) \/ Rewrite(p) \/ PageDone(p)

Next ==
  \/ Advance
  \/ \E p \in Pods : Start(p) \/ Pass(p) \/ Stop(p)
  \/ \E w \in Writers : Encrypt(w) \/ Write(w)
  \/ \E r \in Rows : Remove(r)

Spec == Init /\ [][Next]_vars

(* The database answers the pass.                                          *)
FairSpec == Spec /\ \A p \in Pods : WF_vars(Pass(p))

------------------------------------------------------------------------------
(* Properties.                                                             *)

(* The pass never changes what is stored, only the key it is sealed with:  *)
(* "a concurrent write is never overwritten", nor a removed row restored.  *)
TextKept ==
  \A c \in Cells : IF store[c] = None THEN last[c] = None ELSE store[c].text = last[c]

(* If the operator follows the steps, every pod can open every value, but  *)
(* for those that were lost before: no key is removed too early, and no    *)
(* pod meets a key it has not been given yet.                              *)
Readable ==
  \A p \in Pods, c \in Cells :
    store[c] # None /\ store[c].key # Lost => store[c].key \in KeysOf(config[p])

(* A pass that was to rewrite and ran to its end leaves nothing under the  *)
(* old key, whatever was written, removed or rewritten beside it.          *)
NothingStaleLeft ==
  \A p \in Pods :
    pass[p] = "done" /\ config[p] = "rewrite" => \A c \in Cells : store[c] = None \/ store[c].key # Old

(* Every pass comes to an end: values it cannot open do not hold it up.    *)
EveryPassEnds == \A p \in Pods : pass[p] \in {"scan", "rewrite"} ~> pass[p] \notin {"scan", "rewrite"}
==============================================================================
