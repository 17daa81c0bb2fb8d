-------------------------- MODULE ConfigStoreProofs --------------------------
(***************************************************************************)
(* What ConfigStore and Secrets promise for any number of processes,       *)
(* tenants, names, calls and faults: calls of the repository that run at   *)
(* the same time answer as if one ran after the other, tenants do not      *)
(* meet, and what the processes count stays balanced: the ids of the       *)
(* rows, the rotations of the secret and the records of its uses.          *)
(***************************************************************************)
EXTENDS Secrets, FoldLemmas

Calls ==
  [op: {"none", "provision", "save", "delete"},
   at: {"idle", "look", "create", "commit", "insert", "find", "remove", "done", "refused"},
   item: 1..3, made: SUBSET AllItems, key: Keys \union {NoKey}, row: Nat,
   freed: BOOLEAN, taken: BOOLEAN]

\* The table has each id and each key once, and no id that was not given out.
TableOK(table, last) ==
  /\ last \in Nat
  /\ table \subseteq [id: 1..last, key: Keys, active: BOOLEAN]
  /\ \A r, s \in table : r.id = s.id \/ r.key = s.key => r = s

HasRow(table, id, key) == \E r \in table : r.id = id /\ r.key = key

\* A save that may commit holds a new id and a free key.
SaveOK(c, table, last) ==
  /\ c.key \in Keys
  /\ c.at \in {"insert", "commit", "done", "refused"}
  /\ c.at = "insert" => c.row = 0
  /\ c.at = "commit" =>
       /\ c.row \in 1..last
       /\ ~HasKey(table, c.key)
       /\ \A r \in table : r.id # c.row
  /\ c.at = "refused" => c.taken

\* A delete that has found a row knows an id that never meant another key; until
\* it has locked the row, somebody else may have freed the key.
DeleteOK(c, table, last) ==
  /\ c.key \in Keys
  /\ c.at \in {"find", "remove", "commit", "done"}
  /\ c.at = "find" => c.row = 0
  /\ c.at = "remove" =>
       /\ c.row \in 1..last
       /\ c.freed \/ HasRow(table, c.row, c.key)
       /\ \A r \in table : r.id = c.row => r.key = c.key
  /\ c.at = "commit" =>
       IF c.row = 0 THEN c.freed ELSE HasRow(table, c.row, c.key)
  /\ c.at = "done" => c.freed

CallOK(c, table, last) ==
  /\ c.op = "none" => c.at = "idle"
  /\ c.op = "provision" => c.at \in {"look", "create", "commit"} /\ c.row = 0
  /\ c.op = "save" => SaveOK(c, table, last)
  /\ c.op = "delete" => DeleteOK(c, table, last)

\* A row that a save has yet to commit is not one that a delete has found or
\* another save is to commit, and no key is locked by two transactions.
Apart(c, d) ==
  /\ c.op = "delete" /\ c.at = "remove" /\ d.op = "save" /\ d.at = "commit" => c.row # d.row
  /\ c.op = "save" /\ c.at = "commit" /\ d.op = "save" /\ d.at = "commit" => c.row # d.row
  /\ Locks(c, c.key) /\ Locks(d, d.key) => c.key # d.key

IInv ==
  /\ call \in [Workers -> Calls]
  /\ TableOK(rows, inserted)
  /\ \A w \in Workers : CallOK(call[w], rows, inserted)
  /\ \A u, w \in Workers : u # w => Apart(call[u], call[w])

-----------------------------------------------------------------------------
(* Helpers *)

LEMMA NoCallOK == NoCall \in Calls /\ NoCall.op = "none" /\ NoCall.at = "idle" /\ NoCall.row = 0
  BY DEF NoCall, Calls, Keys

\* What a step of w leaves of every call, and what it makes of its own.
Same(d, c) == d.op = c.op /\ d.at = c.at /\ d.key = c.key /\ d.row = c.row

LEMMA Marked ==
  ASSUME NEW d \in Calls, NEW freed \in BOOLEAN, NEW taken \in BOOLEAN
  PROVE  LET e == [d EXCEPT !.freed = freed, !.taken = taken]
         IN  e \in Calls /\ Same(e, d) /\ e.freed = freed /\ e.taken = taken
  BY DEF Calls, Same

\* What the call of another process becomes by a step, and what the step's own.
Becomes(d, e, table) ==
  /\ Same(e, d)
  /\ d.freed => e.freed
  /\ d.taken => e.taken
  /\ d.op = "delete" /\ d.at \notin {"done", "refused"} /\ ~HasKey(table, d.key) => e.freed

BecomesOwn(d, e, table) ==
  /\ Same(e, d)
  /\ d.freed => e.freed
  /\ d.taken => e.taken
  /\ d.op = "delete" /\ ~HasKey(table, d.key) => e.freed
  /\ d.op = "save" /\ HasKey(table, d.key) => e.taken

LEMMA GoesCalls ==
  ASSUME call \in [Workers -> Calls], NEW w \in Workers, NEW c \in Calls, NEW table,
         Goes(w, c, table)
  PROVE  /\ rows' = table
         /\ call' \in [Workers -> Calls]
         /\ BecomesOwn(c, call'[w], table)
         /\ \A u \in Workers \ {w} : Becomes(call[u], call'[u], table)
<1> DEFINE D(u) == IF u = w THEN c ELSE call[u]
           Goes1(u, d) ==
             IF d.op \in {"save", "delete"} /\ (u = w \/ d.at \notin {"done", "refused"})
               THEN [d EXCEPT !.freed = @ \/ ~HasKey(table, d.key),
                              !.taken = @ \/ HasKey(table, d.key)]
               ELSE d
           Effect(u, d, e) ==
             /\ e \in Calls /\ Same(e, d)
             /\ d.freed => e.freed
             /\ d.taken => e.taken
             /\ d.op = "delete" /\ (u = w \/ d.at \notin {"done", "refused"})
                  /\ ~HasKey(table, d.key) => e.freed
             /\ d.op = "save" /\ (u = w \/ d.at \notin {"done", "refused"})
                  /\ HasKey(table, d.key) => e.taken
<1>1. call' = [u \in Workers |-> Goes1(u, D(u))] /\ rows' = table
  BY DEF Goes
<1>2. \A u \in Workers : D(u) \in Calls
  OBVIOUS
<1>3. ASSUME NEW u \in Workers, NEW d \in Calls
      PROVE  Effect(u, d, Goes1(u, d))
  <2> DEFINE f == d.freed \/ ~HasKey(table, d.key)
             t == d.taken \/ HasKey(table, d.key)
  <2>1. f \in BOOLEAN /\ t \in BOOLEAN
    OBVIOUS
  <2>2. LET e == [d EXCEPT !.freed = f, !.taken = t]
        IN  e \in Calls /\ Same(e, d) /\ e.freed = f /\ e.taken = t
    BY <2>1, Marked
  <2>3. Same(d, d)
    BY DEF Same
  <2>4. CASE d.op \in {"save", "delete"} /\ (u = w \/ d.at \notin {"done", "refused"})
    BY <2>2, <2>4
  <2>5. CASE ~(d.op \in {"save", "delete"} /\ (u = w \/ d.at \notin {"done", "refused"}))
    BY <2>3, <2>5
  <2> QED BY <2>4, <2>5
<1> HIDE DEF Goes1
<1>4. \A u \in Workers : Effect(u, D(u), call'[u])
  BY <1>1, <1>2, <1>3
<1>5. call' \in [Workers -> Calls]
  BY <1>1, <1>4
<1>6. BecomesOwn(c, call'[w], table)
  BY <1>4 DEF BecomesOwn
<1>7. \A u \in Workers \ {w} : Becomes(call[u], call'[u], table)
  BY <1>4 DEF Becomes
<1> QED BY <1>1, <1>5, <1>6, <1>7

\* A step keeps the invariant if it keeps the table, what the others are doing
\* and what its own call has become apart from them.
LEMMA StepIInv ==
  ASSUME IInv, NEW w \in Workers, NEW c \in Calls, NEW table, NEW last,
         Goes(w, c, table), inserted' = last,
         TableOK(table, last),
         \A e \in Calls : BecomesOwn(c, e, table) => CallOK(e, table, last),
         \A u \in Workers \ {w} : \A e \in Calls :
           Becomes(call[u], e, table) => CallOK(e, table, last),
         \A u \in Workers \ {w} : Apart(c, call[u]) /\ Apart(call[u], c)
  PROVE  IInv'
<1>1. /\ rows' = table /\ call' \in [Workers -> Calls]
      /\ BecomesOwn(c, call'[w], table)
      /\ \A u \in Workers \ {w} : Becomes(call[u], call'[u], table)
  BY GoesCalls DEF IInv
<1>2. \A u \in Workers : call'[u] \in Calls
  BY <1>1
<1>3. \A u \in Workers : CallOK(call'[u], table, last)
  BY <1>1, <1>2
<1>4. \A d, e, f, g : Apart(d, e) /\ Same(f, d) /\ Same(g, e) => Apart(f, g)
  BY DEF Apart, Same, Locks
<1>5. /\ Same(call'[w], c)
      /\ \A u \in Workers \ {w} : Same(call'[u], call[u])
  BY <1>1 DEF Becomes, BecomesOwn
<1>6. ASSUME NEW u \in Workers, NEW v \in Workers, u # v
      PROVE  Apart(call'[u], call'[v])
  <2>1. CASE u = w
    BY <1>4, <1>5, <1>6, <2>1
  <2>2. CASE v = w
    BY <1>4, <1>5, <1>6, <2>2
  <2>3. CASE u # w /\ v # w
    <3>1. Apart(call[u], call[v])
      BY <1>6 DEF IInv
    <3> QED BY <1>4, <1>5, <2>3, <3>1
  <2> QED BY <2>1, <2>2, <2>3
<1> QED BY <1>1, <1>3, <1>6 DEF IInv

LEMMA KeepsOK ==
  ASSUME NEW d, NEW e, NEW table, NEW last, CallOK(d, table, last), Becomes(d, e, table)
  PROVE  CallOK(e, table, last)
  BY DEF CallOK, SaveOK, DeleteOK, Becomes, Same

\* The same for a step that leaves the table alone.
LEMMA SameTableIInv ==
  ASSUME IInv, NEW w \in Workers, NEW c \in Calls, Goes(w, c, rows), inserted' = inserted,
         \A e \in Calls : BecomesOwn(c, e, rows) => CallOK(e, rows, inserted),
         \A u \in Workers \ {w} : Apart(c, call[u]) /\ Apart(call[u], c)
  PROVE  IInv'
<1>1. \A u \in Workers \ {w} : \A e \in Calls :
        Becomes(call[u], e, rows) => CallOK(e, rows, inserted)
  BY KeepsOK DEF IInv
<1>2. TableOK(rows, inserted)
  BY DEF IInv
<1> QED BY <1>1, <1>2, StepIInv

\* Going idle, or on with a provisioning, concerns no row.
LEMMA RowlessIInv ==
  ASSUME IInv, NEW w \in Workers, NEW c \in Calls, Goes(w, c, rows), inserted' = inserted,
         \/ c.op = "none" /\ c.at = "idle"
         \/ c.op = "provision" /\ c.at \in {"look", "create", "commit"} /\ c.row = 0
  PROVE  IInv'
<1>1. \A e \in Calls : BecomesOwn(c, e, rows) => CallOK(e, rows, inserted)
  BY DEF BecomesOwn, Same, CallOK
<1>2. \A u \in Workers \ {w} : Apart(c, call[u]) /\ Apart(call[u], c)
  BY DEF Apart, Locks
<1> QED BY <1>1, <1>2, SameTableIInv

-----------------------------------------------------------------------------
(* The actions *)

LEMMA InitIInv == Init => IInv
<1> SUFFICES ASSUME Init PROVE IInv
  OBVIOUS
<1>1. call = [w \in Workers |-> NoCall]
  BY DEF Init, StoreInit
<1>2. TableOK(rows, inserted)
  <2>1. CASE rows = {} /\ inserted = 0
    BY <2>1 DEF TableOK
  <2>2. CASE inserted = 1 /\ \E key \in Keys : rows = {[id |-> 1, key |-> key, active |-> TRUE]}
    BY <2>2 DEF TableOK
  <2> QED BY <2>1, <2>2 DEF Init, StoreInit
<1> QED BY <1>1, <1>2, NoCallOK DEF IInv, CallOK, Apart, Locks

LEMMA ProvisionIInv ==
  ASSUME IInv, NEW w \in Workers,
         Bootstrap(w) \/ Look(w) \/ Create(w) \/ Provisioned(w) \/ Return(w)
  PROVE  IInv'
<1> DEFINE items == [call[w] EXCEPT !.made = @ \union {Items[call[w].item]}]
<1>1. /\ call[w] \in Calls /\ Items[call[w].item] \in AllItems
      /\ call[w].op = "provision" => call[w].at \in {"look", "create", "commit"} /\ call[w].row = 0
  BY DEF IInv, CallOK, Calls, Items, AllItems
<1>2. \A c \in Calls : LET a == AfterItem(c)
                       IN  a \in Calls /\ a.op = c.op /\ a.row = c.row /\ a.at \in {"look", "commit"}
  <2> SUFFICES ASSUME NEW c \in Calls
               PROVE  LET a == AfterItem(c)
                      IN  a \in Calls /\ a.op = c.op /\ a.row = c.row /\ a.at \in {"look", "commit"}
    OBVIOUS
  <2>1. c.item = 3 \/ c.item + 1 \in 1..3
    BY DEF Calls
  <2>2. CASE c.item = 3
    BY <2>2 DEF AfterItem, Calls
  <2>3. CASE c.item # 3
    BY <2>1, <2>3 DEF AfterItem, Calls
  <2> QED BY <2>2, <2>3
<1>3. /\ items \in Calls /\ items.op = call[w].op /\ items.row = call[w].row
      /\ LET c == [call[w] EXCEPT !.at = "create"]
         IN  c \in Calls /\ c.op = call[w].op /\ c.row = call[w].row /\ c.at = "create"
  BY <1>1 DEF Calls
<1>4. LET c == [NoCall EXCEPT !.op = "provision", !.at = "look"]
      IN  c \in Calls /\ c.op = "provision" /\ c.at = "look" /\ c.row = 0
  BY NoCallOK DEF Calls
<1>5. CASE Bootstrap(w)
  BY <1>4, <1>5, RowlessIInv DEF Bootstrap
<1>6. CASE Look(w)
  BY <1>1, <1>2, <1>3, <1>6, RowlessIInv DEF Look
<1>7. CASE Create(w)
  BY <1>1, <1>2, <1>3, <1>7, NoCallOK, RowlessIInv DEF Create
<1>8. CASE Provisioned(w) \/ Return(w)
  BY <1>8, NoCallOK, RowlessIInv DEF Provisioned, Return
<1> QED BY <1>5, <1>6, <1>7, <1>8

LEMMA FaultIInv ==
  ASSUME IInv, NEW w \in Workers, Breaks(w) \/ Crash(w)
  PROVE  IInv'
  BY NoCallOK, RowlessIInv DEF Breaks, Crash

LEMMA CallIInv ==
  ASSUME IInv, NEW w \in Workers, NEW op \in {"save", "delete"}, NEW key \in Keys,
         CallRepository(w, op, key)
  PROVE  IInv'
<1> DEFINE c == [NoCall EXCEPT !.op = op, !.key = key,
                               !.at = IF op = "save" THEN "insert" ELSE "find"]
<1>1. /\ c \in Calls /\ c.op = op /\ c.key = key /\ c.row = 0
      /\ c.at = IF op = "save" THEN "insert" ELSE "find"
  <2> DEFINE at == IF op = "save" THEN "insert" ELSE "find"
  <2>1. at \in {"insert", "find"} /\ key \in Keys \union {NoKey}
    OBVIOUS
  <2> HIDE DEF at
  <2>2. ASSUME NEW n \in Calls
        PROVE  LET d == [n EXCEPT !.op = op, !.key = key, !.at = at]
               IN  d \in Calls /\ d.op = op /\ d.key = key /\ d.row = n.row /\ d.at = at
    BY <2>1 DEF Calls
  <2> QED BY <2>2, NoCallOK DEF at
<1>2. Goes(w, c, rows) /\ inserted' = inserted
  BY DEF CallRepository
<1> HIDE DEF c
<1>3. \A e \in Calls : BecomesOwn(c, e, rows) => CallOK(e, rows, inserted)
  BY <1>1 DEF BecomesOwn, Same, CallOK, SaveOK, DeleteOK
<1>4. \A u \in Workers \ {w} : Apart(c, call[u]) /\ Apart(call[u], c)
  BY <1>1 DEF Apart, Locks
<1> QED BY <1>1, <1>2, <1>3, <1>4, SameTableIInv

LEMMA SaveInsertsIInv ==
  ASSUME IInv, NEW w \in Workers, SaveInserts(w)
  PROVE  IInv'
<1>1. call[w] \in Calls /\ SaveOK(call[w], rows, inserted) /\ call[w].op = "save"
  BY DEF SaveInserts, IInv, CallOK
<1>2. TableOK(rows, inserted)
  BY DEF IInv
<1>3. CASE HasKey(rows, call[w].key)
  <2> DEFINE c == Answers(w, "refused")
  <2>1. c \in Calls /\ c.op = "save" /\ c.at = "refused" /\ c.row = 0 /\ c.key = call[w].key
    BY <1>1 DEF Answers, Calls
  <2>2. Goes(w, c, rows) /\ inserted' = inserted
    BY <1>3 DEF SaveInserts
  <2> HIDE DEF c
  <2>3. \A e \in Calls : BecomesOwn(c, e, rows) => CallOK(e, rows, inserted)
    BY <1>1, <1>3, <2>1 DEF BecomesOwn, Same, CallOK, SaveOK
  <2>4. \A u \in Workers \ {w} : Apart(c, call[u]) /\ Apart(call[u], c)
    BY <2>1 DEF Apart, Locks
  <2> QED BY <2>1, <2>2, <2>3, <2>4, SameTableIInv
<1>4. CASE ~HasKey(rows, call[w].key)
  <2> DEFINE last == inserted + 1
             c == [call[w] EXCEPT !.at = "commit", !.row = last]
  <2>1. last \in Nat /\ inserted \in Nat /\ inserted < last
    BY <1>2 DEF TableOK
  <2>2. c \in Calls /\ c.op = "save" /\ c.at = "commit" /\ c.row = last /\ c.key = call[w].key
    BY <1>1, <2>1 DEF Calls
  <2>3. Goes(w, c, rows) /\ inserted' = last
    BY <1>4 DEF SaveInserts
  <2>4. \A u \in Workers \ {w} : ~Locks(call[u], call[w].key)
    BY DEF SaveInserts, Others
  <2> HIDE DEF c
  <2>5. TableOK(rows, last) /\ \A r \in rows : r.id # last
    BY <1>2, <2>1 DEF TableOK
  <2>6. \A e \in Calls : BecomesOwn(c, e, rows) => CallOK(e, rows, last)
    BY <1>1, <1>4, <2>1, <2>2, <2>5 DEF BecomesOwn, Same, CallOK, SaveOK
  <2>7. \A u \in Workers : CallOK(call[u], rows, last)
    <3> SUFFICES ASSUME NEW u \in Workers PROVE CallOK(call[u], rows, last)
      OBVIOUS
    <3>1. CallOK(call[u], rows, inserted)
      BY DEF IInv
    <3> QED BY <2>1, <3>1 DEF CallOK, SaveOK, DeleteOK
  <2>8. \A u \in Workers \ {w} : \A e \in Calls :
          Becomes(call[u], e, rows) => CallOK(e, rows, last)
    BY <2>7, KeepsOK
  <2>9. \A u \in Workers \ {w} : Apart(c, call[u]) /\ Apart(call[u], c)
    <3> SUFFICES ASSUME NEW u \in Workers \ {w} PROVE Apart(c, call[u]) /\ Apart(call[u], c)
      OBVIOUS
    <3>1. CallOK(call[u], rows, inserted)
      BY DEF IInv
    <3>2. \/ call[u].op = "delete" /\ call[u].at = "remove"
          \/ call[u].op = "save" /\ call[u].at = "commit"
          => call[u].row # c.row
      BY <2>1, <2>2, <3>1 DEF CallOK, DeleteOK, SaveOK
    <3>3. Locks(call[u], call[u].key) => call[u].key # c.key
      BY <2>2, <2>4 DEF Locks
    <3> QED BY <2>2, <3>2, <3>3 DEF Apart
  <2> QED BY <2>2, <2>3, <2>5, <2>6, <2>8, <2>9, StepIInv
<1> QED BY <1>3, <1>4

LEMMA DeleteFindsIInv ==
  ASSUME IInv, NEW w \in Workers, DeleteFinds(w)
  PROVE  IInv'
<1>1. /\ call[w] \in Calls /\ DeleteOK(call[w], rows, inserted)
      /\ call[w].op = "delete" /\ call[w].at = "find"
  BY DEF DeleteFinds, IInv, CallOK
<1>2. TableOK(rows, inserted) /\ inserted' = inserted
  BY DEF DeleteFinds, IInv
<1>3. CASE HasKey(rows, call[w].key)
  <2>1. PICK r \in rows : /\ r.key = call[w].key
                          /\ Goes(w, [call[w] EXCEPT !.at = "remove", !.row = r.id], rows)
    BY <1>3 DEF DeleteFinds
  <2> DEFINE c == [call[w] EXCEPT !.at = "remove", !.row = r.id]
  <2>2. r.id \in 1..inserted /\ r.id \in Nat
    BY <1>2 DEF TableOK
  <2>3. c \in Calls /\ c.op = "delete" /\ c.at = "remove" /\ c.row = r.id /\ c.key = call[w].key
    BY <1>1, <2>2 DEF Calls
  <2>4. Goes(w, c, rows)
    BY <2>1
  <2> HIDE DEF c
  <2>5. \A s \in rows : s.id = r.id => s = r
    BY <1>2 DEF TableOK
  <2>6. \A e \in Calls : BecomesOwn(c, e, rows) => CallOK(e, rows, inserted)
    BY <1>1, <2>1, <2>2, <2>3, <2>5 DEF BecomesOwn, Same, CallOK, DeleteOK, HasRow
  <2>7. \A u \in Workers \ {w} : Apart(c, call[u]) /\ Apart(call[u], c)
    <3> SUFFICES ASSUME NEW u \in Workers \ {w} PROVE Apart(c, call[u]) /\ Apart(call[u], c)
      OBVIOUS
    <3>1. CallOK(call[u], rows, inserted)
      BY DEF IInv
    <3> QED BY <2>3, <3>1 DEF Apart, Locks, CallOK, SaveOK
  <2> QED BY <1>2, <2>3, <2>4, <2>6, <2>7, SameTableIInv
<1>4. CASE ~HasKey(rows, call[w].key)
  <2> DEFINE c == [call[w] EXCEPT !.at = "commit"]
  <2>1. c \in Calls /\ c.op = "delete" /\ c.at = "commit" /\ c.row = 0 /\ c.key = call[w].key
    BY <1>1 DEF Calls, DeleteOK
  <2>2. Goes(w, c, rows)
    BY <1>4 DEF DeleteFinds
  <2> HIDE DEF c
  <2>3. \A e \in Calls : BecomesOwn(c, e, rows) => CallOK(e, rows, inserted)
    BY <1>1, <1>4, <2>1 DEF BecomesOwn, Same, CallOK, DeleteOK
  <2>4. \A u \in Workers \ {w} : Apart(c, call[u]) /\ Apart(call[u], c)
    BY <2>1 DEF Apart, Locks
  <2> QED BY <1>2, <2>1, <2>2, <2>3, <2>4, SameTableIInv
<1> QED BY <1>3, <1>4

LEMMA DeleteRemovesIInv ==
  ASSUME IInv, NEW w \in Workers, DeleteRemoves(w)
  PROVE  IInv'
<1>1. /\ call[w] \in Calls /\ DeleteOK(call[w], rows, inserted)
      /\ call[w].op = "delete" /\ call[w].at = "remove"
  BY DEF DeleteRemoves, IInv, CallOK
<1>2. TableOK(rows, inserted) /\ inserted' = inserted
  BY DEF DeleteRemoves, IInv
<1> DEFINE row == IF \E r \in rows : r.id = call[w].row THEN call[w].row ELSE 0
           c == [call[w] EXCEPT !.at = "commit", !.row = row]
<1>3. /\ c \in Calls /\ c.op = "delete" /\ c.at = "commit" /\ c.row = row /\ c.key = call[w].key
      /\ c.freed = call[w].freed
  BY <1>1 DEF Calls
<1>4. Goes(w, c, rows)
  BY DEF DeleteRemoves
<1>5. \A u \in Workers \ {w} : ~(call[u].at = "commit" /\ call[u].row = call[w].row)
  BY DEF DeleteRemoves, Others
<1> HIDE DEF c
<1>6. /\ call[w].row # 0
      /\ row # 0 => HasRow(rows, call[w].row, call[w].key)
      /\ row = 0 => call[w].freed
  BY <1>1, <1>2 DEF DeleteOK, HasRow, TableOK
<1>7. \A e \in Calls : BecomesOwn(c, e, rows) => CallOK(e, rows, inserted)
  BY <1>1, <1>3, <1>6 DEF BecomesOwn, Same, CallOK, DeleteOK
<1>8. \A u \in Workers \ {w} : Apart(c, call[u]) /\ Apart(call[u], c)
  <2> SUFFICES ASSUME NEW u \in Workers \ {w} PROVE Apart(c, call[u]) /\ Apart(call[u], c)
    OBVIOUS
  <2>1. CASE Locks(call[u], c.key) /\ row # 0
    <3>1. call[u].at = "commit" /\ call[u].key = call[w].key /\ call[u].row # 0
      BY <1>3, <2>1 DEF Locks
    <3>2. CallOK(call[u], rows, inserted) /\ call[u].op \in {"none", "provision", "save", "delete"}
      BY DEF IInv, Calls
    <3>3. HasKey(rows, call[w].key)
      BY <1>6, <2>1 DEF HasRow, HasKey
    <3>4. HasRow(rows, call[u].row, call[w].key)
      BY <3>1, <3>2, <3>3 DEF CallOK, SaveOK, DeleteOK
    <3>5. call[u].row = call[w].row
      BY <1>2, <1>6, <2>1, <3>4 DEF HasRow, TableOK
    <3> QED BY <1>5, <3>1, <3>5
  <2>2. CASE ~(Locks(call[u], c.key) /\ row # 0)
    BY <1>3, <2>2 DEF Apart, Locks
  <2> QED BY <2>1, <2>2
<1> QED BY <1>2, <1>3, <1>4, <1>7, <1>8, SameTableIInv

\* A commit of a save adds a row that no other call can take for its own.
LEMMA CommitSaveIInv ==
  ASSUME IInv, NEW w \in Workers, Commit(w), call[w].op = "save"
  PROVE  IInv'
<1> DEFINE c == Answers(w, "done")
           new == [id |-> call[w].row, key |-> call[w].key, active |-> TRUE]
           table == rows \union {new}
<1>1. call[w] \in Calls /\ SaveOK(call[w], rows, inserted) /\ call[w].at = "commit"
  BY DEF Commit, IInv, CallOK
<1>2. TableOK(rows, inserted) /\ inserted' = inserted
  BY DEF Commit, IInv
<1>3. c \in Calls /\ c.op = "save" /\ c.at = "done" /\ c.row = 0 /\ c.key = call[w].key
  BY <1>1 DEF Answers, Calls
<1>4. Goes(w, c, table)
  BY DEF Commit
<1>5. /\ new.id = call[w].row /\ new.key = call[w].key
      /\ new.id \in 1..inserted /\ ~HasKey(rows, new.key) /\ \A r \in rows : r.id # new.id
      /\ new \in [id: 1..inserted, key: Keys, active: BOOLEAN]
  BY <1>1 DEF SaveOK
<1>6. \A key, id : /\ HasKey(table, key) <=> HasKey(rows, key) \/ key = new.key
                   /\ HasRow(rows, id, key) => HasRow(table, id, key)
  BY DEF HasKey, HasRow
<1> HIDE DEF c, new
<1>7. TableOK(table, inserted)
  BY <1>2, <1>5 DEF TableOK, HasKey
<1>8. \A e \in Calls : BecomesOwn(c, e, table) => CallOK(e, table, inserted)
  BY <1>1, <1>3 DEF BecomesOwn, Same, CallOK, SaveOK
<1>9. \A u \in Workers \ {w} : CallOK(call[u], table, inserted)
  <2> SUFFICES ASSUME NEW u \in Workers \ {w} PROVE CallOK(call[u], table, inserted)
    OBVIOUS
  <2>1. CallOK(call[u], rows, inserted) /\ Apart(call[u], call[w])
    BY DEF IInv
  <2>2. CASE call[u].op = "save"
    <3>1. call[u].at = "commit" => call[u].key # new.key /\ call[u].row # new.id
      <4>1. call[u].at = "commit" => call[u].key # new.key
        BY <1>1, <1>5, <2>1, <2>2 DEF Apart, Locks, CallOK, SaveOK
      <4>2. call[u].at = "commit" => call[u].row # new.id
        BY <1>1, <1>5, <2>1, <2>2 DEF Apart
      <4> QED BY <4>1, <4>2
    <3> QED BY <1>6, <2>1, <2>2, <3>1 DEF CallOK, SaveOK
  <2>3. CASE call[u].op = "delete"
    <3>1. call[u].at = "remove" => call[u].row # new.id
      BY <1>1, <1>5, <2>1, <2>3 DEF Apart
    <3> QED BY <1>6, <2>1, <2>3, <3>1 DEF CallOK, DeleteOK
  <2> QED BY <2>1, <2>2, <2>3 DEF CallOK
<1>10. \A u \in Workers \ {w} : \A e \in Calls :
         Becomes(call[u], e, table) => CallOK(e, table, inserted)
  BY <1>9, KeepsOK
<1>11. \A u \in Workers \ {w} : Apart(c, call[u]) /\ Apart(call[u], c)
  BY <1>3 DEF Apart, Locks
<1> QED BY <1>2, <1>3, <1>4, <1>7, <1>8, <1>10, <1>11, StepIInv

\* A commit of a delete takes a row that only deletes of its key may know, and
\* these find the key free.
LEMMA CommitDeleteIInv ==
  ASSUME IInv, NEW w \in Workers, Commit(w), call[w].op = "delete"
  PROVE  IInv'
<1> DEFINE c == Answers(w, "done")
           table == {r \in rows : r.id # call[w].row}
<1>1. call[w] \in Calls /\ DeleteOK(call[w], rows, inserted) /\ call[w].at = "commit"
  BY DEF Commit, IInv, CallOK
<1>2. TableOK(rows, inserted) /\ inserted' = inserted
  BY DEF Commit, IInv
<1>3. /\ c \in Calls /\ c.op = "delete" /\ c.at = "done" /\ c.row = 0 /\ c.key = call[w].key
      /\ c.freed = call[w].freed
  BY <1>1 DEF Answers, Calls
<1>4. Goes(w, c, table)
  BY DEF Commit
<1>5. TableOK(table, inserted)
  BY <1>2 DEF TableOK
<1>6. \/ call[w].row = 0 /\ call[w].freed
      \/ call[w].row # 0 /\ ~HasKey(table, call[w].key)
  <2>1. CASE call[w].row = 0
    BY <1>1, <2>1 DEF DeleteOK
  <2>2. CASE call[w].row # 0
    BY <1>1, <1>2, <2>2 DEF DeleteOK, HasRow, HasKey, TableOK
  <2> QED BY <2>1, <2>2
<1>7. \A r \in rows : r \in table \/ (call[w].row # 0 /\ r.id = call[w].row /\ r.key = call[w].key)
  BY <1>1, <1>2 DEF DeleteOK, HasRow, TableOK
<1> HIDE DEF c
<1>8. \A e \in Calls : BecomesOwn(c, e, table) => CallOK(e, table, inserted)
  BY <1>1, <1>3, <1>6 DEF BecomesOwn, Same, CallOK, DeleteOK
<1>9. ASSUME NEW u \in Workers \ {w}, NEW e \in Calls, Becomes(call[u], e, table)
      PROVE  CallOK(e, table, inserted)
  <2>1. CallOK(call[u], rows, inserted) /\ Apart(call[u], call[w])
    BY DEF IInv
  <2>2. Same(e, call[u]) /\ (call[u].freed => e.freed) /\ (call[u].taken => e.taken)
    BY <1>9 DEF Becomes
  <2>3. CASE e.op = "save"
    <3>1. ~HasKey(rows, e.key) => ~HasKey(table, e.key)
      BY DEF HasKey
    <3> QED BY <2>1, <2>2, <2>3, <3>1 DEF CallOK, SaveOK, Same
  <2>4. CASE e.op = "delete" /\ e.at = "remove"
    <3>1. HasRow(rows, e.row, e.key) =>
            \/ HasRow(table, e.row, e.key)
            \/ e.key = call[w].key /\ ~HasKey(table, call[w].key)
      BY <1>6, <1>7 DEF HasRow
    <3>2. ~HasKey(table, e.key) => e.freed
      BY <1>9, <2>2, <2>4 DEF Becomes, Same
    <3> QED BY <2>1, <2>2, <2>4, <3>1, <3>2 DEF CallOK, DeleteOK, Same
  <2>5. CASE e.op = "delete" /\ e.at = "commit"
    <3>1. e.row # 0 /\ call[w].row # 0 => e.key # call[w].key
      BY <1>1, <2>1, <2>2, <2>5 DEF Apart, Locks, Same
    <3>2. HasRow(rows, e.row, e.key) /\ e.row # 0 => HasRow(table, e.row, e.key)
      BY <1>7, <3>1 DEF HasRow
    <3> QED BY <2>1, <2>2, <2>5, <3>2 DEF CallOK, DeleteOK, Same
  <2> QED BY <2>1, <2>2, <2>3, <2>4, <2>5 DEF CallOK, DeleteOK, Same
<1>10. \A u \in Workers \ {w} : Apart(c, call[u]) /\ Apart(call[u], c)
  BY <1>3 DEF Apart, Locks
<1> QED BY <1>2, <1>3, <1>4, <1>5, <1>8, <1>9, <1>10, StepIInv

\* Deactivating changes neither an id nor a key.
LEMMA DeactivateIInv ==
  ASSUME IInv, NEW r \in rows, Deactivate(r)
  PROVE  IInv'
<1> DEFINE off == [r EXCEPT !.active = FALSE]
<1>1. TableOK(rows, inserted)
  BY DEF IInv
<1>2. rows' = (rows \ {r}) \union {off} /\ call' = call /\ inserted' = inserted
  BY DEF Deactivate
<1>3. /\ off.id = r.id /\ off.key = r.key
      /\ off \in [id: 1..inserted, key: Keys, active: BOOLEAN]
  BY <1>1 DEF TableOK
<1> HIDE DEF off
<1>4. TableOK(rows', inserted)
  BY <1>1, <1>2, <1>3 DEF TableOK
<1>5. \A id, key : /\ HasKey(rows', key) <=> HasKey(rows, key)
                   /\ HasRow(rows', id, key) <=> HasRow(rows, id, key)
  BY <1>2, <1>3 DEF HasKey, HasRow
<1>6. \A id, key : /\ (\A s \in rows : s.id # id) <=> (\A s \in rows' : s.id # id)
                   /\ (\A s \in rows : s.id = id => s.key = key)
                        <=> (\A s \in rows' : s.id = id => s.key = key)
  BY <1>2, <1>3
<1>7. \A w \in Workers : CallOK(call[w], rows', inserted)
  <2> SUFFICES ASSUME NEW w \in Workers PROVE CallOK(call[w], rows', inserted)
    OBVIOUS
  <2>1. CallOK(call[w], rows, inserted)
    BY DEF IInv
  <2> DEFINE c == call[w]
  <2>2. /\ HasKey(rows', c.key) <=> HasKey(rows, c.key)
        /\ HasRow(rows', c.row, c.key) <=> HasRow(rows, c.row, c.key)
        /\ (\A s \in rows : s.id # c.row) => (\A s \in rows' : s.id # c.row)
        /\ (\A s \in rows : s.id = c.row => s.key = c.key)
             => (\A s \in rows' : s.id = c.row => s.key = c.key)
    BY <1>5, <1>6
  <2> HIDE DEF c
  <2>3. CallOK(c, rows, inserted) => CallOK(c, rows', inserted)
    <3>1. SaveOK(c, rows, inserted) => SaveOK(c, rows', inserted)
      BY <2>2 DEF SaveOK
    <3>2. DeleteOK(c, rows, inserted) => DeleteOK(c, rows', inserted)
      BY <2>2 DEF DeleteOK
    <3> QED BY <3>1, <3>2 DEF CallOK
  <2> QED BY <2>1, <2>3 DEF c
<1> QED BY <1>2, <1>4, <1>7 DEF IInv

LEMMA NextIInv == IInv /\ [Next]_vars => IInv'
<1> SUFFICES ASSUME IInv, [Next]_vars PROVE IInv'
  OBVIOUS
<1>1. CASE UNCHANGED <<rows, inserted, call>>
  BY <1>1 DEF IInv
<1>2. ASSUME NEW w \in Workers, StoreStep(w) PROVE IInv'
  <2>1. CASE Commit(w)
    BY <2>1, CommitSaveIInv, CommitDeleteIInv DEF Commit
  <2> QED
    BY <1>2, <2>1, ProvisionIInv, SaveInsertsIInv, DeleteFindsIInv, DeleteRemovesIInv
    DEF StoreStep
<1>3. ASSUME NEW w \in Workers, NEW op \in {"save", "delete"}, NEW key \in Keys,
             CallRepository(w, op, key)
      PROVE  IInv'
  BY <1>3, CallIInv
<1>4. CASE UNCHANGED vars
  BY <1>1, <1>4 DEF vars, storeVars
<1>5. ASSUME NEW w \in Workers, NEW chain \in Chains,
             UseSecret(w, chain) \/ CoreAnswers(w) \/ Records(w) \/ UseCancelled(w)
      PROVE  IInv'
  <2>1. UNCHANGED <<rows, inserted, call>>
    BY <1>5 DEF UseSecret, CoreAnswers, Records, UseCancelled, storeVars
  <2> QED BY <1>1, <2>1
<1>6. ASSUME NEW w \in Workers, CoreAnswers(w) \/ Records(w) \/ UseCancelled(w)
      PROVE  IInv'
  <2>1. UNCHANGED <<rows, inserted, call>>
    BY <1>6 DEF CoreAnswers, Records, UseCancelled, storeVars
  <2> QED BY <1>1, <2>1
<1> QED BY <1>2, <1>3, <1>4, <1>5, <1>6, FaultIInv, DeactivateIInv DEF Next

LEMMA SpecIInv == Spec => []IInv
  BY InitIInv, NextIInv, PTL DEF Spec

-----------------------------------------------------------------------------
(* StoreTypeOK, over IInv: who has made what of the schema, and how many ids *)

\* What a provisioning has looked for is committed, or made by its transaction.
ProvisionOK(c, schema) ==
  /\ c.made \subseteq AllItems \ schema
  /\ c.op # "provision" => c.made = {}
  /\ c.op = "provision" /\ c.at \in {"look", "create"} =>
       \A j \in 1..3 : j < c.item => Items[j] \in c.made \union schema
  /\ c.op = "provision" /\ c.at = "commit" => AllItems \subseteq c.made \union schema

\* A save that has still to insert its row.
Inserting(c) == IF c.op = "save" /\ c.at = "insert" THEN 1 ELSE 0
InsertingByCall == [w \in Workers |-> Inserting(call[w])]

SchemaInv ==
  /\ catalogue \subseteq AllItems
  /\ ready \subseteq Workers
  /\ ready # {} => catalogue = AllItems
  /\ \A w \in Workers : ProvisionOK(call[w], catalogue)
  /\ \A u, w \in Workers : u # w => call[u].made \intersect call[w].made = {}

\* Every id but the first is due to a call of its own.
CountInv ==
  /\ calls \in 0..MaxCalls /\ faults \in 0..MaxFaults
  /\ \A w \in Workers : call[w].row \in 0..inserted
  /\ inserted + SumFunction(InsertingByCall) <= calls + 1

TInv == SchemaInv /\ CountInv

\* The fields of a call that are not history.
Fields(c) == <<c.op, c.at, c.item, c.made, c.row>>

LEMMA GoesFields ==
  ASSUME call \in [Workers -> Calls], NEW w \in Workers, NEW c \in Calls, NEW table,
         Goes(w, c, table)
  PROVE  /\ call' \in [Workers -> Calls]
         /\ Fields(call'[w]) = Fields(c)
         /\ \A u \in Workers \ {w} : Fields(call'[u]) = Fields(call[u])
<1> DEFINE D(u) == IF u = w THEN c ELSE call[u]
<1>1. call' \in [Workers -> Calls]
  BY GoesCalls
<1>2. ASSUME NEW u \in Workers PROVE Fields(call'[u]) = Fields(D(u))
  <2>1. D(u) \in Calls
    OBVIOUS
  <2>2. PICK freed, taken :
          call'[u] = D(u) \/ call'[u] = [D(u) EXCEPT !.freed = freed, !.taken = taken]
    BY Zenon DEF Goes
  <2> HIDE DEF D
  <2> QED BY <2>1, <2>2 DEF Fields, Calls
<1>3. D(w) = c /\ \A u \in Workers \ {w} : D(u) = call[u]
  OBVIOUS
<1> HIDE DEF D
<1> QED BY <1>1, <1>2, <1>3

\* What a step of w has to keep.
LEMMA GoesTInv ==
  ASSUME IInv, TInv, NEW w \in Workers, NEW c \in Calls, NEW table, Goes(w, c, table),
         catalogue \subseteq catalogue', catalogue' \subseteq AllItems,
         ready' \subseteq Workers, ready' # {} => catalogue' = AllItems,
         ProvisionOK(c, catalogue'),
         \A u \in Workers \ {w} : call[u].made \intersect (c.made \union catalogue') = {},
         inserted' \in Nat, inserted <= inserted', c.row \in 0..inserted',
         calls' \in 0..MaxCalls, faults' \in 0..MaxFaults,
         inserted' + (Inserting(c) - Inserting(call[w])) <= inserted + (calls' - calls)
  PROVE  TInv'
<1>0. /\ call \in [Workers -> Calls] /\ inserted \in Nat
      /\ call' \in [Workers -> Calls]
      /\ Fields(call'[w]) = Fields(c)
      /\ \A u \in Workers \ {w} : Fields(call'[u]) = Fields(call[u])
  BY GoesFields DEF IInv, TableOK
<1>1. /\ call'[w].op = c.op /\ call'[w].at = c.at /\ call'[w].item = c.item
      /\ call'[w].made = c.made /\ call'[w].row = c.row
      /\ \A u \in Workers \ {w} :
           /\ call'[u].op = call[u].op /\ call'[u].at = call[u].at
           /\ call'[u].item = call[u].item /\ call'[u].made = call[u].made
           /\ call'[u].row = call[u].row
  BY <1>0 DEF Fields
<1>2. \A u \in Workers : ProvisionOK(call'[u], catalogue')
  <2>1. ProvisionOK(call'[w], catalogue')
    BY <1>1 DEF ProvisionOK
  <2>2. ASSUME NEW u \in Workers \ {w} PROVE ProvisionOK(call'[u], catalogue')
    <3>1. ProvisionOK(call[u], catalogue)
      BY DEF TInv, SchemaInv
    <3>2. ProvisionOK(call[u], catalogue')
      BY <3>1 DEF ProvisionOK
    <3> QED BY <1>1, <3>2 DEF ProvisionOK
  <2> QED BY <2>1, <2>2
<1>3. \A u, v \in Workers : u # v => call'[u].made \intersect call'[v].made = {}
  BY <1>1 DEF TInv, SchemaInv
<1>4. SchemaInv'
  BY <1>2, <1>3 DEF SchemaInv
<1>5. \A u \in Workers : call'[u].row \in 0..inserted'
  <2>1. \A u \in Workers \ {w} : call'[u].row \in 0..inserted
    BY <1>1 DEF TInv, CountInv
  <2>2. call'[w].row \in 0..inserted'
    BY <1>1
  <2> QED BY <1>0, <2>1, <2>2
<1>6. SumFunction(InsertingByCall') = SumFunction(InsertingByCall)
                                      + (Inserting(c) - Inserting(call[w]))
  <2>1. InsertingByCall \in [Workers -> Int] /\ InsertingByCall' \in [Workers -> Int]
    BY DEF InsertingByCall, Inserting
  <2>2. \A u \in Workers \ {w} : InsertingByCall'[u] = InsertingByCall[u]
    BY <1>1 DEF InsertingByCall, Inserting
  <2>3. InsertingByCall'[w] = Inserting(c) /\ InsertingByCall[w] = Inserting(call[w])
    BY <1>1 DEF InsertingByCall, Inserting
  <2>4. IsFiniteSet(Workers)
    BY StoreAssumption
  <2>5. SumFunction(InsertingByCall')
        = SumFunction(InsertingByCall) + (InsertingByCall'[w] - InsertingByCall[w])
    BY <2>1, <2>2, <2>4, SumChanges
  <2> QED BY <2>3, <2>5
<1>7. SumFunction(InsertingByCall) \in Int
  BY StoreAssumption, SumType DEF InsertingByCall, Inserting
<1>8. inserted' + SumFunction(InsertingByCall') <= calls' + 1
  <2>1. inserted + SumFunction(InsertingByCall) <= calls + 1 /\ calls \in Int
    BY StoreAssumption DEF TInv, CountInv
  <2>2. Inserting(c) \in Int /\ Inserting(call[w]) \in Int /\ calls' \in Int
    BY StoreAssumption DEF Inserting
  <2> QED BY <1>0, <1>6, <1>7, <2>1, <2>2
<1>9. CountInv'
  BY <1>5, <1>8 DEF CountInv
<1> QED BY <1>4, <1>9 DEF TInv

\* What w starts from.
LEMMA OwnFields ==
  ASSUME IInv, TInv, NEW w \in Workers
  PROVE  /\ call[w] \in Calls /\ inserted \in Nat /\ call[w].row \in 0..inserted
         /\ ProvisionOK(call[w], catalogue) /\ catalogue \subseteq AllItems
         /\ ready \subseteq Workers /\ (ready # {} => catalogue = AllItems)
         /\ calls \in 0..MaxCalls /\ faults \in 0..MaxFaults
         /\ Inserting(call[w]) \in {0, 1} /\ calls \in Nat /\ faults \in Nat
         /\ \A u \in Workers \ {w} : /\ call[u].made \intersect call[w].made = {}
                                     /\ call[u].made \intersect catalogue = {}
  BY StoreAssumption
  DEF IInv, TableOK, TInv, SchemaInv, CountInv, ProvisionOK, Inserting

\* A call that makes nothing of the schema and inserts no row.
LEMMA QuietTInv ==
  ASSUME IInv, TInv, NEW w \in Workers, NEW c \in Calls, NEW table, Goes(w, c, table),
         catalogue' = catalogue, inserted' = inserted, ready' \subseteq ready,
         c.op # "provision", c.made = {}, c.row \in 0..inserted,
         calls' \in 0..MaxCalls, faults' \in 0..MaxFaults,
         Inserting(c) - Inserting(call[w]) <= calls' - calls
  PROVE  TInv'
<1>1. ProvisionOK(c, catalogue')
  BY DEF ProvisionOK
<1>2. /\ ready' \subseteq Workers /\ (ready' # {} => catalogue' = AllItems)
      /\ catalogue' \subseteq AllItems /\ catalogue \subseteq catalogue'
      /\ \A u \in Workers \ {w} : call[u].made \intersect (c.made \union catalogue') = {}
  BY OwnFields
<1>3. inserted' \in Nat /\ inserted <= inserted' /\ c.row \in 0..inserted'
  BY OwnFields
<1>4. inserted' + (Inserting(c) - Inserting(call[w])) <= inserted + (calls' - calls)
  <2>1. inserted \in Int /\ calls \in Int /\ calls' \in Int
        /\ Inserting(c) \in Int /\ Inserting(call[w]) \in Int
    BY OwnFields, StoreAssumption DEF Inserting
  <2> QED BY <2>1
<1> QED BY <1>1, <1>2, <1>3, <1>4, GoesTInv

LEMMA NoCallQuiet == NoCall \in Calls /\ NoCall.made = {} /\ NoCall.row = 0
                     /\ NoCall.op = "none" /\ Inserting(NoCall) = 0
  BY NoCallOK DEF NoCall, Inserting

\* A call returns, its connection breaks, or its process dies.
LEMMA EndsTInv ==
  ASSUME IInv, TInv, NEW w \in Workers, Return(w) \/ Breaks(w) \/ Crash(w)
  PROVE  TInv'
<1>1. /\ Goes(w, NoCall, rows) /\ UNCHANGED <<catalogue, inserted, calls>>
      /\ ready' \subseteq ready
      /\ faults' = faults \/ (faults < MaxFaults /\ faults' = faults + 1)
  BY DEF Return, Breaks, Crash, Fault
<1>2. faults' \in 0..MaxFaults /\ calls' \in 0..MaxCalls /\ calls' - calls = 0
  BY <1>1, OwnFields, StoreAssumption
<1>3. Inserting(NoCall) - Inserting(call[w]) <= 0
  BY OwnFields, NoCallQuiet
<1>4. 0 \in 0..inserted
  BY OwnFields
<1> QED BY <1>1, <1>2, <1>3, <1>4, NoCallQuiet, QuietTInv

\* The steps of a call that insert nothing.
LEMMA CallTInv ==
  ASSUME IInv, TInv, NEW w \in Workers,
         \/ DeleteFinds(w) \/ DeleteRemoves(w) \/ Commit(w)
         \/ \E op \in {"save", "delete"}, key \in Keys : CallRepository(w, op, key)
  PROVE  TInv'
<1>0. /\ call[w] \in Calls /\ inserted \in Nat /\ call[w].row \in 0..inserted
      /\ ProvisionOK(call[w], catalogue)
      /\ calls \in 0..MaxCalls /\ faults \in 0..MaxFaults /\ calls \in Nat
  BY OwnFields
<1>1. CASE DeleteFinds(w) \/ DeleteRemoves(w) \/ Commit(w)
  <2>1. /\ call[w].op \in {"save", "delete"} /\ call[w].at # "insert"
        /\ UNCHANGED <<catalogue, inserted, ready, calls, faults>>
    BY <1>1 DEF DeleteFinds, DeleteRemoves, Commit
  <2> DEFINE Moves(c, table) ==
               /\ Goes(w, c, table) /\ c.op = call[w].op /\ c.made = call[w].made
               /\ c.at # "insert" /\ c.row \in 0..inserted
  <2>2. PICK c \in Calls : \E table : Moves(c, table)
    <3>1. ASSUME NEW r \in rows, Goes(w, [call[w] EXCEPT !.at = "remove", !.row = r.id], rows)
          PROVE  \E c \in Calls : Moves(c, rows)
      <4> DEFINE c == [call[w] EXCEPT !.at = "remove", !.row = r.id]
      <4>1. r.id \in 1..inserted /\ r.id \in Nat
        BY <1>0 DEF IInv, TableOK
      <4>2. c \in Calls /\ c.op = call[w].op /\ c.made = call[w].made /\ c.at = "remove"
            /\ c.row = r.id
        BY <1>0, <4>1 DEF Calls
      <4>3. Goes(w, c, rows) /\ c.row \in 0..inserted
        BY <1>0, <3>1, <4>1, <4>2
      <4> HIDE DEF c
      <4> QED BY <4>2, <4>3
    <3>2. ASSUME Goes(w, [call[w] EXCEPT !.at = "commit"], rows)
          PROVE  \E c \in Calls : Moves(c, rows)
      <4> DEFINE c == [call[w] EXCEPT !.at = "commit"]
      <4>1. c \in Calls /\ c.op = call[w].op /\ c.made = call[w].made /\ c.at = "commit"
            /\ c.row = call[w].row
        BY <1>0 DEF Calls
      <4>2. Goes(w, c, rows) /\ c.row \in 0..inserted
        BY <1>0, <3>2, <4>1
      <4> HIDE DEF c
      <4> QED BY <4>1, <4>2
    <3>3. CASE DeleteFinds(w)
      <4> HIDE DEF Moves
      <4> QED BY <3>1, <3>2, <3>3, Zenon DEF DeleteFinds
    <3>4. CASE DeleteRemoves(w)
      <4> DEFINE row == IF \E r \in rows : r.id = call[w].row THEN call[w].row ELSE 0
                 c == [call[w] EXCEPT !.at = "commit", !.row = row]
      <4>1. row \in 0..inserted /\ row \in Nat
        BY <1>0
      <4>2. Goes(w, c, rows)
        BY <1>0, <3>4 DEF DeleteRemoves, Calls
      <4> HIDE DEF row
      <4>3. c \in Calls /\ c.op = call[w].op /\ c.made = call[w].made /\ c.at = "commit"
            /\ c.row = row
        BY <1>0, <4>1 DEF Calls
      <4> HIDE DEF c
      <4> QED BY <4>1, <4>2, <4>3
    <3>5. CASE Commit(w)
      <4> DEFINE c == [call[w] EXCEPT !.at = "done", !.row = 0]
      <4>1. c \in Calls /\ c.op = call[w].op /\ c.made = call[w].made /\ c.at = "done" /\ c.row = 0
        BY <1>0 DEF Calls
      <4>2. \E table : Goes(w, c, table)
        BY <3>5, Zenon DEF Commit, Answers
      <4>3. c.row \in 0..inserted
        BY <1>0, <4>1
      <4> HIDE DEF c
      <4> QED BY <4>1, <4>2, <4>3
    <3> HIDE DEF Moves
    <3> QED BY <1>1, <3>3, <3>4, <3>5
  <2>3. Inserting(c) = 0 /\ Inserting(call[w]) = 0 /\ c.made = {}
    BY <1>0, <2>1, <2>2 DEF Inserting, ProvisionOK
  <2>4. Inserting(c) - Inserting(call[w]) <= calls' - calls
    BY <1>0, <2>1, <2>3
  <2>5. c.op # "provision"
    BY <2>1, <2>2
  <2> QED BY <1>0, <2>1, <2>2, <2>3, <2>4, <2>5, QuietTInv
<1>2. ASSUME NEW op \in {"save", "delete"}, NEW key \in Keys, CallRepository(w, op, key)
      PROVE  TInv'
  <2> DEFINE c == [NoCall EXCEPT !.op = op, !.key = key,
                                 !.at = IF op = "save" THEN "insert" ELSE "find"]
  <2>1. c \in Calls /\ c.made = {} /\ c.row = 0 /\ c.op = op
    BY NoCallQuiet DEF Calls
  <2>2. /\ Goes(w, c, rows) /\ UNCHANGED <<catalogue, inserted, ready, faults>>
        /\ calls' = calls + 1 /\ calls < MaxCalls /\ call[w].op = "none"
    BY <1>2 DEF CallRepository
  <2>3. Inserting(c) \in {0, 1} /\ Inserting(call[w]) = 0
    BY <2>2 DEF Inserting
  <2>4. Inserting(c) - Inserting(call[w]) <= calls' - calls /\ calls' \in 0..MaxCalls
    BY <1>0, <2>2, <2>3, StoreAssumption
  <2> HIDE DEF c
  <2> QED BY <1>0, <2>1, <2>2, <2>4, QuietTInv
<1> QED BY <1>1, <1>2

\* save inserts a row of a new id, and its insertion was to come.
LEMMA InsertTInv == ASSUME IInv, TInv, NEW w \in Workers, SaveInserts(w) PROVE TInv'
<1>0. /\ call[w] \in Calls /\ inserted \in Nat
      /\ ProvisionOK(call[w], catalogue) /\ catalogue \subseteq AllItems
      /\ ready \subseteq Workers /\ (ready # {} => catalogue = AllItems)
      /\ calls \in 0..MaxCalls /\ faults \in 0..MaxFaults /\ calls \in Nat
      /\ \A u \in Workers \ {w} : call[u].made \intersect catalogue = {}
  BY OwnFields
<1>1. /\ call[w].op = "save" /\ call[w].at = "insert"
      /\ UNCHANGED <<catalogue, ready, calls, faults>>
  BY DEF SaveInserts
<1>2. Inserting(call[w]) = 1 /\ call[w].made = {}
  BY <1>0, <1>1 DEF Inserting, ProvisionOK
<1>3. CASE HasKey(rows, call[w].key)
  <2> DEFINE c == [call[w] EXCEPT !.at = "refused", !.row = 0]
  <2>1. c \in Calls /\ c.op = "save" /\ c.made = {} /\ c.at = "refused" /\ c.row = 0
    BY <1>0, <1>1, <1>2 DEF Calls
  <2>2. Goes(w, c, rows) /\ inserted' = inserted
    BY <1>3 DEF SaveInserts, Answers
  <2> HIDE DEF c
  <2>3. Inserting(c) = 0
    BY <2>1 DEF Inserting
  <2>4. Inserting(c) - Inserting(call[w]) <= calls' - calls
    BY <1>0, <1>1, <1>2, <2>3
  <2> QED BY <1>0, <1>1, <2>1, <2>2, <2>4, QuietTInv
<1>4. CASE ~HasKey(rows, call[w].key)
  <2> DEFINE id == inserted + 1
             c == [call[w] EXCEPT !.at = "commit", !.row = id]
  <2>0. id \in Nat
    BY <1>0
  <2> HIDE DEF id
  <2>1. c \in Calls /\ c.op = "save" /\ c.made = {} /\ c.at = "commit" /\ c.row = id
    BY <1>0, <1>1, <1>2, <2>0 DEF Calls
  <2>2. Goes(w, c, rows) /\ inserted' = id /\ id = inserted + 1
    BY <1>4 DEF SaveInserts, id
  <2> HIDE DEF c
  <2>3. Inserting(c) = 0 /\ ProvisionOK(c, catalogue')
    BY <2>1 DEF Inserting, ProvisionOK
  <2>4. inserted' + (Inserting(c) - Inserting(call[w])) <= inserted + (calls' - calls)
    BY <1>0, <1>1, <1>2, <2>2, <2>3
  <2>5. /\ inserted' \in Nat /\ inserted <= inserted' /\ c.row \in 0..inserted'
        /\ \A u \in Workers \ {w} : call[u].made \intersect (c.made \union catalogue') = {}
    BY <1>0, <1>1, <2>1, <2>2
  <2> QED BY <1>0, <1>1, <2>1, <2>2, <2>3, <2>4, <2>5, GoesTInv
<1> QED BY <1>3, <1>4

\* An item that is committed or has been made is behind.
LEMMA AfterItemOK ==
  ASSUME NEW c \in Calls, NEW schema, ProvisionOK(c, schema),
         c.op = "provision", c.at \in {"look", "create"}, Items[c.item] \in c.made \union schema
  PROVE  LET a == AfterItem(c)
         IN  a \in Calls /\ a.op = "provision" /\ a.row = c.row /\ a.made = c.made
             /\ ProvisionOK(a, schema)
<1>1. c.item \in 1..3
  BY DEF Calls
<1>2. /\ c.made \subseteq AllItems \ schema
      /\ \A j \in 1..c.item : Items[j] \in c.made \union schema
  <2>1. \A j \in 1..3 : j < c.item => Items[j] \in c.made \union schema
    BY DEF ProvisionOK
  <2> QED BY <1>1, <2>1 DEF ProvisionOK
<1>3. CASE c.item = 3
  <2> DEFINE a == [c EXCEPT !.at = "commit"]
  <2>1. a \in Calls /\ a.op = "provision" /\ a.row = c.row /\ a.made = c.made /\ a.at = "commit"
    BY DEF Calls
  <2>2. Items[1] \in c.made \union schema /\ Items[2] \in c.made \union schema
        /\ Items[3] \in c.made \union schema
    BY <1>2, <1>3
  <2>3. AllItems \subseteq c.made \union schema
    BY <2>2 DEF AllItems, Items
  <2>4. AfterItem(c) = a
    BY <1>3 DEF AfterItem
  <2> HIDE DEF a
  <2>5. ProvisionOK(a, schema)
    BY <1>2, <2>1, <2>3 DEF ProvisionOK
  <2> QED BY <2>1, <2>4, <2>5
<1>4. CASE c.item # 3
  <2> DEFINE next == c.item + 1
             a == [c EXCEPT !.at = "look", !.item = next]
  <2>0. next \in 1..3 /\ \A j \in 1..3 : j < next => j \in 1..c.item
    BY <1>1, <1>4
  <2>1. AfterItem(c) = a
    BY <1>4 DEF AfterItem, Calls
  <2> HIDE DEF next
  <2>2. /\ a \in Calls /\ a.op = "provision" /\ a.row = c.row /\ a.made = c.made
        /\ a.at = "look" /\ a.item = next
    BY <2>0 DEF Calls
  <2> HIDE DEF a
  <2>3. ProvisionOK(a, schema)
    BY <1>2, <2>0, <2>2 DEF ProvisionOK
  <2> QED BY <2>1, <2>2, <2>3
<1> QED BY <1>3, <1>4

\* The steps of a provisioning before its commit.
LEMMA LooksTInv ==
  ASSUME IInv, TInv, NEW w \in Workers, NEW c \in Calls, Goes(w, c, rows),
         UNCHANGED <<catalogue, inserted, ready, calls, faults>>,
         c.op # "save", c.row \in 0..inserted, ProvisionOK(c, catalogue),
         \A u \in Workers \ {w} : call[u].made \intersect c.made = {}
  PROVE  TInv'
<1>1. /\ inserted \in Nat /\ catalogue \subseteq AllItems
      /\ ready \subseteq Workers /\ (ready # {} => catalogue = AllItems)
      /\ calls \in 0..MaxCalls /\ faults \in 0..MaxFaults
      /\ calls \in Nat /\ Inserting(call[w]) \in {0, 1}
      /\ \A u \in Workers \ {w} : call[u].made \intersect catalogue = {}
  BY OwnFields
<1>2. Inserting(c) = 0
  BY DEF Inserting
<1>3. inserted' + (Inserting(c) - Inserting(call[w])) <= inserted + (calls' - calls)
  BY <1>1, <1>2
<1>4. \A u \in Workers \ {w} : call[u].made \intersect (c.made \union catalogue') = {}
  BY <1>1
<1> QED BY <1>1, <1>3, <1>4, GoesTInv

LEMMA ProvisionTInv ==
  ASSUME IInv, TInv, NEW w \in Workers,
         Bootstrap(w) \/ Look(w) \/ Create(w) \/ Provisioned(w)
  PROVE  TInv'
<1>0. /\ call[w] \in Calls /\ inserted \in Nat /\ call[w].row \in 0..inserted
      /\ ProvisionOK(call[w], catalogue) /\ catalogue \subseteq AllItems
      /\ ready \subseteq Workers /\ (ready # {} => catalogue = AllItems)
      /\ calls \in 0..MaxCalls /\ faults \in 0..MaxFaults
      /\ Inserting(call[w]) \in {0, 1} /\ calls \in Nat
      /\ \A u \in Workers \ {w} : /\ call[u].made \intersect call[w].made = {}
                                  /\ call[u].made \intersect catalogue = {}
  BY OwnFields
<1>1. CASE Bootstrap(w)
  <2> DEFINE c == [NoCall EXCEPT !.op = "provision", !.at = "look"]
  <2>1. c \in Calls /\ c.op = "provision" /\ c.at = "look" /\ c.made = {} /\ c.row = 0 /\ c.item = 1
    BY NoCallQuiet DEF Calls, NoCall
  <2>2. Goes(w, c, rows) /\ UNCHANGED <<catalogue, inserted, ready, calls, faults>>
    BY <1>1 DEF Bootstrap
  <2> HIDE DEF c
  <2>3. ProvisionOK(c, catalogue)
    BY <2>1 DEF ProvisionOK
  <2>4. c.row \in 0..inserted
    BY <1>0, <2>1
  <2> QED BY <2>1, <2>2, <2>3, <2>4, LooksTInv
<1>2. CASE Look(w) /\ Items[call[w].item] \in catalogue
  <2> DEFINE c == AfterItem(call[w])
  <2>1. /\ Goes(w, c, rows) /\ UNCHANGED <<catalogue, inserted, ready, calls, faults>>
        /\ call[w].op = "provision" /\ call[w].at = "look"
    BY <1>2 DEF Look
  <2> HIDE DEF c
  <2>2. /\ c \in Calls /\ c.op = "provision" /\ c.row = call[w].row /\ c.made = call[w].made
        /\ ProvisionOK(c, catalogue)
    BY <1>0, <1>2, <2>1, AfterItemOK DEF c
  <2> QED BY <1>0, <2>1, <2>2, LooksTInv
<1>3. CASE Look(w) /\ Items[call[w].item] \notin catalogue
  <2> DEFINE c == [call[w] EXCEPT !.at = "create"]
  <2>1. /\ Goes(w, c, rows) /\ UNCHANGED <<catalogue, inserted, ready, calls, faults>>
        /\ call[w].op = "provision" /\ call[w].at = "look"
    BY <1>3 DEF Look
  <2>2. /\ c \in Calls /\ c.op = "provision" /\ c.row = call[w].row /\ c.made = call[w].made
        /\ c.at = "create" /\ c.item = call[w].item
    BY <1>0, <2>1 DEF Calls
  <2> HIDE DEF c
  <2>3. ProvisionOK(c, catalogue)
    BY <1>0, <2>1, <2>2 DEF ProvisionOK
  <2> QED BY <1>0, <2>1, <2>2, <2>3, LooksTInv
<1>4. CASE Create(w) /\ Items[call[w].item] \in catalogue
  <2>1. Goes(w, NoCall, rows) /\ UNCHANGED <<catalogue, inserted, ready, calls, faults>>
    BY <1>4 DEF Create
  <2>2. ProvisionOK(NoCall, catalogue) /\ NoCall.row \in 0..inserted
    BY <1>0, NoCallQuiet DEF ProvisionOK
  <2> QED BY <2>1, <2>2, NoCallQuiet, LooksTInv
<1>5. CASE Create(w) /\ Items[call[w].item] \notin catalogue
  <2> DEFINE item == Items[call[w].item]
             made == call[w].made \union {item}
             b == [call[w] EXCEPT !.made = made]
             c == AfterItem(b)
  <2>1. /\ UNCHANGED <<catalogue, inserted, ready, calls, faults>>
        /\ call[w].op = "provision" /\ call[w].at = "create"
        /\ \A u \in Workers \ {w} : item \notin call[u].made
    BY <1>5 DEF Create, Others
  <2>2. Goes(w, c, rows)
    BY <1>5 DEF Create
  <2>3. item \in AllItems /\ made \subseteq AllItems
    BY <1>0 DEF Calls, Items, AllItems
  <2>4. \A u \in Workers \ {w} : call[u].made \intersect made = {}
    BY <1>0, <2>1
  <2>5. made \subseteq AllItems \ catalogue /\ call[w].made \subseteq made /\ item \in made
    BY <1>0, <1>5, <2>3 DEF ProvisionOK
  <2> HIDE DEF made
  <2>6. /\ b \in Calls /\ b.op = "provision" /\ b.row = call[w].row /\ b.made = made
        /\ b.at = "create" /\ b.item = call[w].item
    BY <1>0, <2>1, <2>3 DEF Calls
  <2> HIDE DEF b, item
  <2>7. ProvisionOK(b, catalogue)
    BY <1>0, <2>1, <2>5, <2>6 DEF ProvisionOK
  <2>8. Items[b.item] \in b.made \union catalogue
    BY <2>5, <2>6 DEF item
  <2> HIDE DEF c
  <2>9. /\ c \in Calls /\ c.op = "provision" /\ c.row = b.row /\ c.made = b.made
        /\ ProvisionOK(c, catalogue)
    BY <2>6, <2>7, <2>8, AfterItemOK DEF c
  <2> QED BY <1>0, <2>1, <2>2, <2>4, <2>6, <2>9, LooksTInv
<1>6. CASE Provisioned(w)
  <2>1. /\ Goes(w, NoCall, rows) /\ UNCHANGED <<inserted, calls, faults>>
        /\ catalogue' = catalogue \union call[w].made /\ ready' = ready \union {w}
        /\ call[w].op = "provision" /\ call[w].at = "commit"
    BY <1>6 DEF Provisioned
  <2>2. catalogue' = AllItems
    BY <1>0, <2>1 DEF ProvisionOK
  <2>3. ProvisionOK(NoCall, catalogue') /\ NoCall.row \in 0..inserted'
    BY <1>0, <2>1, NoCallQuiet DEF ProvisionOK
  <2>4. inserted' + (Inserting(NoCall) - Inserting(call[w])) <= inserted + (calls' - calls)
    BY <1>0, <2>1, NoCallQuiet
  <2>5. \A u \in Workers \ {w} : call[u].made \intersect (NoCall.made \union catalogue') = {}
    BY <1>0, <2>1, NoCallQuiet
  <2>6. /\ catalogue \subseteq catalogue' /\ catalogue' \subseteq AllItems
        /\ ready' \subseteq Workers /\ (ready' # {} => catalogue' = AllItems)
        /\ inserted' \in Nat /\ inserted <= inserted'
        /\ calls' \in 0..MaxCalls /\ faults' \in 0..MaxFaults
    BY <1>0, <2>1, <2>2
  <2> QED BY <2>1, <2>3, <2>4, <2>5, <2>6, NoCallQuiet, GoesTInv
<1> QED BY <1>1, <1>2, <1>3, <1>4, <1>5, <1>6

\* What no process does in the store.
LEMMA CallsKeptTInv ==
  ASSUME IInv, TInv, UNCHANGED <<call, catalogue, inserted, ready>>,
         calls' \in {calls, calls + 1}, calls' \in 0..MaxCalls, faults' \in 0..MaxFaults
  PROVE  TInv'
<1>1. SchemaInv'
  BY DEF TInv, SchemaInv
<1>2. InsertingByCall' = InsertingByCall
  BY DEF InsertingByCall
<1>3. inserted + SumFunction(InsertingByCall) <= calls + 1
  BY DEF TInv, CountInv
<1>4. SumFunction(InsertingByCall) \in Int
  BY StoreAssumption, SumType DEF InsertingByCall, Inserting
<1>5. inserted \in Int /\ calls \in Int
  BY DEF IInv, TableOK, TInv, CountInv
<1> HIDE DEF InsertingByCall
<1>6. inserted' + SumFunction(InsertingByCall') <= calls' + 1
  BY <1>2, <1>3, <1>4, <1>5
<1>7. \A w \in Workers : call'[w].row \in 0..inserted'
  BY DEF TInv, CountInv
<1>8. CountInv'
  BY <1>6, <1>7 DEF CountInv
<1> QED BY <1>1, <1>8 DEF TInv

LEMMA InitTInv == Init => TInv
<1> SUFFICES ASSUME Init PROVE TInv
  OBVIOUS
<1>1. /\ call = [w \in Workers |-> NoCall] /\ ready = {} /\ calls = 0 /\ faults = 0
      /\ inserted \in {0, 1} /\ catalogue \subseteq AllItems
  BY DEF Init, StoreInit, AllItems
<1>2. InsertingByCall = [w \in Workers |-> 0]
  BY <1>1, NoCallQuiet DEF InsertingByCall
<1>3. SumFunction([w \in Workers |-> 0]) \in {0}
  <2> DEFINE none == [w \in Workers |-> 0]
  <2>1. DOMAIN none = Workers /\ \A w \in Workers : none[w] \in {0}
    OBVIOUS
  <2>2. 0 \in {0} /\ \A m, n \in {0} : m + n \in {0}
    OBVIOUS
  <2> HIDE DEF none
  <2>3. SumFunction(none) \in {0}
    BY StoreAssumption, <2>1, <2>2, SumType
  <2> QED BY <2>3 DEF none
<1>4. SchemaInv
  BY <1>1, NoCallQuiet DEF SchemaInv, ProvisionOK
<1>5. CountInv
  BY <1>1, <1>2, <1>3, NoCallQuiet, StoreAssumption DEF CountInv
<1> QED BY <1>4, <1>5 DEF TInv

LEMMA NextTInv == IInv /\ TInv /\ [Next]_vars => TInv'
<1> SUFFICES ASSUME IInv, TInv, [Next]_vars PROVE TInv'
  OBVIOUS
<1>0. /\ calls \in 0..MaxCalls /\ faults \in 0..MaxFaults /\ calls \in Nat /\ faults \in Nat
  BY StoreAssumption DEF TInv, CountInv
<1>1. ASSUME NEW w \in Workers, StoreStep(w) PROVE TInv'
  BY <1>1, ProvisionTInv, CallTInv, InsertTInv, EndsTInv DEF StoreStep
<1>2. ASSUME NEW w \in Workers, NEW op \in {"save", "delete"}, NEW key \in Keys,
             CallRepository(w, op, key)
      PROVE  TInv'
  BY <1>2, CallTInv
<1>3. ASSUME NEW r \in rows, Deactivate(r) PROVE TInv'
  BY <1>0, <1>3, CallsKeptTInv DEF Deactivate
<1>4. ASSUME NEW w \in Workers, Breaks(w) \/ Crash(w) PROVE TInv'
  BY <1>4, EndsTInv
<1>5. ASSUME NEW w \in Workers, NEW chain \in Chains, UseSecret(w, chain) PROVE TInv'
  <2>1. calls' = calls + 1 /\ calls' \in 0..MaxCalls
        /\ UNCHANGED <<call, catalogue, inserted, ready, faults>>
    BY <1>0, <1>5, StoreAssumption DEF UseSecret
  <2> QED BY <1>0, <2>1, CallsKeptTInv
<1>6. ASSUME NEW w \in Workers, CoreAnswers(w) \/ Records(w) \/ UseCancelled(w) PROVE TInv'
  <2>1. /\ UNCHANGED <<call, catalogue, inserted, ready, calls>>
        /\ faults' = faults \/ (faults < MaxFaults /\ faults' = faults + 1)
    BY <1>6 DEF CoreAnswers, Records, UseCancelled, storeVars, Fault
  <2>2. faults' \in 0..MaxFaults
    BY <1>0, <2>1, StoreAssumption
  <2> QED BY <1>0, <2>1, <2>2, CallsKeptTInv
<1>7. CASE UNCHANGED vars
  BY <1>0, <1>7, CallsKeptTInv DEF vars, storeVars
<1> QED BY <1>1, <1>2, <1>3, <1>4, <1>5, <1>6, <1>7 DEF Next

LEMMA StoreTyped == IInv /\ TInv => StoreTypeOK
<1> SUFFICES ASSUME IInv, TInv PROVE StoreTypeOK
  OBVIOUS
<1>1. inserted \in Nat /\ rows \subseteq [id: 1..inserted, key: Keys, active: BOOLEAN]
  BY DEF IInv, TableOK
<1>2. SumFunction(InsertingByCall) \in Nat
  <2>1. \A w \in Workers : InsertingByCall[w] \in Nat
    BY DEF InsertingByCall, Inserting
  <2>2. DOMAIN InsertingByCall = Workers
    BY DEF InsertingByCall
  <2>3. 0 \in Nat /\ \A m, n \in Nat : m + n \in Nat
    OBVIOUS
  <2> QED BY StoreAssumption, <2>1, <2>2, <2>3, SumType
<1>3. inserted + SumFunction(InsertingByCall) <= calls + 1 /\ calls \in 0..MaxCalls
      /\ faults \in 0..MaxFaults
  BY DEF TInv, CountInv
<1>4. inserted \in 0..MaxCalls + 1
  BY <1>1, <1>2, <1>3, StoreAssumption
<1>5. 1..inserted \subseteq 1..MaxCalls + 1
  BY <1>1, <1>4, StoreAssumption
<1>6. rows \subseteq Rows
  BY <1>1, <1>5 DEF Rows
<1>7. \A w \in Workers :
        /\ call[w].row \in 0..inserted
        /\ call[w].made \subseteq AllItems \ catalogue
        /\ \A c \in Others(w) : c.made \intersect call[w].made = {}
  BY DEF TInv, CountInv, SchemaInv, ProvisionOK, Others
<1> QED BY <1>3, <1>4, <1>6, <1>7 DEF StoreTypeOK, TInv, SchemaInv

-----------------------------------------------------------------------------
(* The records of the secret's uses *)

\* What a use may have to do: a chain, or the end of one.
Todos == Chains \union {<<>>, <<"audit">>, <<"record">>, <<"audit", "record">>}
Uses == [op: {"none", "get", "rotate"}, todo: Todos, hit: HitKind]

\* The core has still to answer, and the records that it has called for.
Asking(todo) == IF todo # <<>> /\ Head(todo) \in {"get", "rotate"} THEN 1 ELSE 0
Owing(todo) == IF todo # <<>> /\ Head(todo) \in {"audit", "record"} THEN Owed(todo) ELSE 0

\* Of hit h, for one use and for all of them.
OwingOf(u, h) == IF u.hit = h THEN Owing(u.todo) ELSE 0

AskingByUse == [w \in Workers |-> Asking(use[w].todo)]
OwingByUse(h) == [w \in Workers |-> Pending(w, h)]

\* Every record of hit h that was called for is written, owed or lost, unless
\* nothing is written at all.
Balanced(h) ==
  /\ trail[h] + SumFunction(OwingByUse(h)) + lost[h] <= due[h]
  /\ recorder = "NoopSecretAuditRecorder" => trail[h] = 0
  /\ recorder # "NoopSecretAuditRecorder" =>
       trail[h] + SumFunction(OwingByUse(h)) + lost[h] = due[h]

\* Every rotation is due to a call of its own, and the records balance.
UInv ==
  /\ recorder \in {"RepositorySecretAuditRecorder", "NoopSecretAuditRecorder"}
  /\ trail \in [HitKind -> Nat] /\ due \in [HitKind -> Nat] /\ lost \in [HitKind -> Nat]
  /\ use \in [Workers -> Uses]
  /\ \A w \in Workers : use[w].op = "none" => use[w].todo = <<>>
  /\ version \in Nat
  /\ version + SumFunction(AskingByUse) <= calls
  /\ \A h \in HitKind : Balanced(h)

LEMMA OwedValues ==
  /\ Owed(<<"audit">>) = 1 /\ Owed(<<"record">>) = 1 /\ Owed(<<"audit", "record">>) = 2
  /\ Owed(<<"get", "audit">>) = 1 /\ Owed(<<"rotate", "audit">>) = 1
  /\ Owed(<<"rotate", "record">>) = 1 /\ Owed(<<"rotate", "audit", "record">>) = 2
<1> DEFINE Due(todo) == {i \in DOMAIN todo : todo[i] \in {"audit", "record"}}
<1>1. \A i \in Int : Cardinality({i}) = 1
  BY FS_Singleton
<1>2. \A i \in Int : Cardinality({i, i + 1}) = 2
  <2> SUFFICES ASSUME NEW i \in Int PROVE Cardinality({i, i + 1}) = 2
    OBVIOUS
  <2>1. IsFiniteSet({i}) /\ i + 1 \notin {i} /\ {i, i + 1} = {i} \union {i + 1}
    BY FS_Singleton
  <2> QED BY <1>1, <2>1, FS_AddElement
<1>3. /\ Due(<<"audit">>) = {1} /\ Due(<<"record">>) = {1}
      /\ Due(<<"audit", "record">>) = {1, 1 + 1}
      /\ Due(<<"get", "audit">>) = {2} /\ Due(<<"rotate", "audit">>) = {2}
      /\ Due(<<"rotate", "record">>) = {2}
      /\ Due(<<"rotate", "audit", "record">>) = {2, 2 + 1}
  OBVIOUS
<1> HIDE DEF Due
<1>4. \A todo : Owed(todo) = Cardinality(Due(todo))
  BY DEF Owed, Due
<1> QED BY <1>1, <1>2, <1>3, <1>4

LEMMA TodoTails ==
  ASSUME NEW todo \in Todos, todo # <<>>
  PROVE  /\ todo \in Seq(Awaits) /\ Tail(todo) \in Todos
         /\ Head(todo) \in {"get", "rotate", "audit", "record"}
         /\ Head(todo) \in {"get", "rotate"} =>
              Tail(todo) # <<>> /\ Head(Tail(todo)) \in {"audit", "record"}
                /\ Owed(Tail(todo)) = Owed(todo)
         /\ Head(todo) \in {"audit", "record"} /\ Tail(todo) # <<>> =>
              Head(Tail(todo)) = "record" /\ Owed(Tail(todo)) = 1 /\ Owed(todo) = 2
         /\ Head(todo) \in {"audit", "record"} /\ Tail(todo) = <<>> => Owed(todo) = 1
<1>1. \A a, b, c \in Awaits :
        /\ <<a>> \in Seq(Awaits) /\ Head(<<a>>) = a /\ Tail(<<a>>) = <<>>
        /\ <<a, b>> \in Seq(Awaits) /\ Head(<<a, b>>) = a /\ Tail(<<a, b>>) = <<b>>
        /\ <<a, b, c>> \in Seq(Awaits) /\ Head(<<a, b, c>>) = a /\ Tail(<<a, b, c>>) = <<b, c>>
        /\ <<a>> # <<>> /\ <<a, b>> # <<>>
  OBVIOUS
<1>2. /\ "get" \in Awaits /\ "rotate" \in Awaits /\ "audit" \in Awaits /\ "record" \in Awaits
      /\ "get" # "audit" /\ "get" # "record" /\ "rotate" # "audit" /\ "rotate" # "record"
  BY DEF Awaits
<1>3. CASE todo = <<"audit">> \/ todo = <<"record">>
  <2>1. CASE todo = <<"audit">>
    BY <1>1, <1>2, <2>1, OwedValues, ZenonT(30) DEF Todos
  <2>2. CASE todo = <<"record">>
    BY <1>1, <1>2, <2>2, OwedValues, ZenonT(30) DEF Todos
  <2> QED BY <1>3, <2>1, <2>2
<1>4. CASE todo = <<"audit", "record">>
  BY <1>1, <1>2, <1>4, OwedValues, ZenonT(30) DEF Todos
<1>5. CASE todo = <<"get", "audit">> \/ todo = <<"rotate", "audit">>
  <2>1. /\ todo \in Seq(Awaits) /\ Tail(todo) = <<"audit">> /\ Head(Tail(todo)) = "audit"
        /\ Head(todo) \in {"get", "rotate"} /\ Head(todo) \in Awaits /\ Tail(todo) # <<>>
    <3>1. CASE todo = <<"get", "audit">>
      BY <1>1, <1>2, <3>1
    <3>2. CASE todo = <<"rotate", "audit">>
      BY <1>1, <1>2, <3>2
    <3> QED BY <1>5, <3>1, <3>2
  <2>2. Owed(todo) = 1 /\ Owed(Tail(todo)) = 1
    BY <1>5, <2>1, OwedValues, Zenon
  <2>3. Head(todo) \notin {"audit", "record"} /\ Tail(todo) \in Todos
    BY <1>2, <2>1, Zenon DEF Todos
  <2> QED BY <2>1, <2>2, <2>3 DEF Awaits
<1>6. CASE todo = <<"rotate", "record">>
  <2>1. /\ todo \in Seq(Awaits) /\ Tail(todo) = <<"record">> /\ Head(Tail(todo)) = "record"
        /\ Head(todo) \in {"get", "rotate"} /\ Head(todo) \in Awaits /\ Tail(todo) # <<>>
    BY <1>1, <1>2, <1>6
  <2>2. Owed(todo) = 1 /\ Owed(Tail(todo)) = 1
    BY <1>6, <2>1, OwedValues
  <2>3. Head(todo) \notin {"audit", "record"} /\ Tail(todo) \in Todos
    BY <1>2, <2>1, Zenon DEF Todos
  <2> QED BY <2>1, <2>2, <2>3 DEF Awaits
<1>7. CASE todo = <<"rotate", "audit", "record">>
  <2>1. /\ todo \in Seq(Awaits) /\ Tail(todo) = <<"audit", "record">> /\ Head(Tail(todo)) = "audit"
        /\ Head(todo) \in {"get", "rotate"} /\ Head(todo) \in Awaits /\ Tail(todo) # <<>>
    BY <1>1, <1>2, <1>7
  <2>2. Owed(todo) = 2 /\ Owed(Tail(todo)) = 2
    BY <1>7, <2>1, OwedValues
  <2>3. Head(todo) \notin {"audit", "record"} /\ Tail(todo) \in Todos
    BY <1>2, <2>1, Zenon DEF Todos
  <2> QED BY <2>1, <2>2, <2>3 DEF Awaits
<1> QED BY <1>3, <1>4, <1>5, <1>6, <1>7, Zenon DEF Todos, Chains

\* A use asks, and then owes one record after the other.
LEMMA Tasks ==
  ASSUME NEW todo \in Todos
  PROVE  /\ todo \in Seq(Awaits)
         /\ Asking(todo) \in {0, 1} /\ Owing(todo) \in Nat
         /\ todo = <<>> => Asking(todo) = 0 /\ Owing(todo) = 0
         /\ todo # <<>> /\ Head(todo) \in {"get", "rotate"} =>
              /\ Asking(todo) = 1 /\ Owing(todo) = 0 /\ Tail(todo) \in Todos /\ Tail(todo) # <<>>
              /\ Asking(Tail(todo)) = 0 /\ Owing(Tail(todo)) = Owed(todo)
         /\ todo # <<>> /\ Head(todo) \in {"audit", "record"} =>
              /\ Asking(todo) = 0 /\ Owing(todo) = Owed(todo) /\ Owed(todo) \in Nat \ {0}
              /\ Tail(todo) \in Todos
              /\ Asking(Tail(todo)) = 0 /\ Owing(Tail(todo)) = Owed(todo) - 1
<1>1. CASE todo = <<>>
  BY <1>1 DEF Asking, Owing
<1>2. CASE todo # <<>>
  BY <1>2, TodoTails DEF Asking, Owing
<1>3. \A c \in Chains : c # <<>> /\ Owed(c) \in {1, 2}
  BY OwedValues DEF Chains
<1>4. Owed(<<"audit">>) \in Nat /\ Owed(<<"record">>) \in Nat /\ Owed(<<"audit", "record">>) \in Nat
  BY OwedValues
<1> QED BY <1>1, <1>2, <1>3, <1>4 DEF Todos

LEMMA OwingOfIs ==
  ASSUME NEW u \in Uses, NEW h \in HitKind
  PROVE  OwingOf(u, h) \in Nat /\ (u.todo = <<>> => OwingOf(u, h) = 0)
<1>1. Owing(u.todo) \in Nat /\ (u.todo = <<>> => Owing(u.todo) = 0)
  BY Tasks DEF Uses
<1> QED BY <1>1 DEF OwingOf

\* What a step of w's use does to the sums.
LEMMA AskingChanges ==
  ASSUME use \in [Workers -> Uses], NEW w \in Workers, NEW u \in Uses,
         use' = [use EXCEPT ![w] = u]
  PROVE  /\ use' \in [Workers -> Uses]
         /\ SumFunction(AskingByUse') = SumFunction(AskingByUse)
                                        + (Asking(u.todo) - Asking(use[w].todo))
<1>1. use' \in [Workers -> Uses] /\ use'[w] = u /\ \A v \in Workers \ {w} : use'[v] = use[v]
  OBVIOUS
<1>2. \A v \in Workers : use[v].todo \in Todos /\ use'[v].todo \in Todos
  BY <1>1 DEF Uses
<1>3. AskingByUse \in [Workers -> Int] /\ AskingByUse' \in [Workers -> Int]
  <2>1. \A todo \in Todos : Asking(todo) \in {0, 1}
    BY Tasks
  <2> QED BY <1>2, <2>1 DEF AskingByUse
<1>4. /\ AskingByUse'[w] = Asking(u.todo) /\ AskingByUse[w] = Asking(use[w].todo)
      /\ \A v \in Workers \ {w} : AskingByUse'[v] = AskingByUse[v]
  BY <1>1 DEF AskingByUse
<1> HIDE DEF AskingByUse
<1>5. SumFunction(AskingByUse') = SumFunction(AskingByUse) + (AskingByUse'[w] - AskingByUse[w])
  <2>1. \A v \in Workers \ {w} : AskingByUse'[v] = AskingByUse[v]
    BY <1>4
  <2>2. IsFiniteSet(Workers)
    BY StoreAssumption
  <2> QED BY <1>3, <2>1, <2>2, SumChanges
<1> QED BY <1>1, <1>4, <1>5

LEMMA OwingChanges ==
  ASSUME use \in [Workers -> Uses], NEW w \in Workers, NEW u \in Uses, NEW h \in HitKind,
         use' = [use EXCEPT ![w] = u]
  PROVE  SumFunction(OwingByUse(h)') = SumFunction(OwingByUse(h))
                                       + (OwingOf(u, h) - OwingOf(use[w], h))
<1>1. use' \in [Workers -> Uses] /\ use'[w] = u /\ \A v \in Workers \ {w} : use'[v] = use[v]
  OBVIOUS
<1>2. \A v \in Workers : Pending(v, h) = OwingOf(use[v], h) /\ Pending(v, h)' = OwingOf(use'[v], h)
  BY DEF Pending, OwingOf, Owing
<1>3. OwingByUse(h) \in [Workers -> Int] /\ OwingByUse(h)' \in [Workers -> Int]
  <2>1. \A v \in Uses : OwingOf(v, h) \in Int
    BY OwingOfIs
  <2> QED BY <1>1, <1>2, <2>1 DEF OwingByUse
<1>4. /\ OwingByUse(h)'[w] = OwingOf(u, h) /\ OwingByUse(h)[w] = OwingOf(use[w], h)
      /\ \A v \in Workers \ {w} : OwingByUse(h)'[v] = OwingByUse(h)[v]
  BY <1>1, <1>2 DEF OwingByUse
<1> DEFINE f == OwingByUse(h)
           g == OwingByUse(h)'
<1>5. /\ f \in [Workers -> Int] /\ g \in [Workers -> Int]
      /\ \A v \in Workers \ {w} : g[v] = f[v]
  BY <1>3, <1>4
<1> HIDE DEF f, g
<1>6. SumFunction(g) = SumFunction(f) + (g[w] - f[w])
  <2>1. IsFiniteSet(Workers)
    BY StoreAssumption
  <2> QED BY <1>5, <2>1, SumChanges
<1> QED BY <1>4, <1>6 DEF f, g

LEMMA UseSums ==
  ASSUME use \in [Workers -> Uses], NEW h \in HitKind
  PROVE  SumFunction(AskingByUse) \in Nat /\ SumFunction(OwingByUse(h)) \in Nat
<1>1. \A w \in Workers : AskingByUse[w] \in Nat
  BY Tasks DEF AskingByUse, Uses
<1>2. \A w \in Workers : OwingByUse(h)[w] \in Nat
  <2>1. \A w \in Workers : Pending(w, h) = OwingOf(use[w], h)
    BY DEF Pending, OwingOf, Owing
  <2> QED BY <2>1, OwingOfIs DEF OwingByUse
<1>3. DOMAIN AskingByUse = Workers /\ DOMAIN OwingByUse(h) = Workers
  BY DEF AskingByUse, OwingByUse
<1>4. 0 \in Nat /\ \A m, n \in Nat : m + n \in Nat
  OBVIOUS
<1> HIDE DEF AskingByUse, OwingByUse
<1>5. SumFunction(AskingByUse) \in Nat
  BY <1>1, <1>3, <1>4, StoreAssumption, SumType
<1>6. SumFunction(OwingByUse(h)) \in Nat
  BY <1>2, <1>3, <1>4, StoreAssumption, SumType
<1> QED BY <1>5, <1>6

LEMMA Minus == \A a, b \in Int : b - a \in Int /\ b = a + (b - a)
  OBVIOUS

LEMMA Moves ==
  ASSUME NEW a \in Int, NEW b \in Int, NEW c \in Int, NEW d \in Int,
         NEW a1 \in Int, NEW b1 \in Int, NEW c1 \in Int, NEW d1 \in Int
  PROVE  /\ a + b <= d /\ a1 + b1 <= d1 => (a + a1) + (b + b1) <= d + d1
         /\ a + b + c <= d /\ a1 + b1 + c1 <= d1 =>
              (a + a1) + (b + b1) + (c + c1) <= d + d1
         /\ a + b + c = d /\ a1 + b1 + c1 = d1 =>
              (a + a1) + (b + b1) + (c + c1) = d + d1
  OBVIOUS

\* What a step of w's use has to keep of the records of hit h.
LEMMA StepBalance ==
  ASSUME UInv, NEW w \in Workers, NEW u \in Uses, use' = [use EXCEPT ![w] = u],
         recorder' = recorder, NEW h \in HitKind,
         NEW called \in Nat, due'[h] = due[h] + called,
         NEW missed \in Nat, lost'[h] = lost[h] + missed,
         NEW put \in Nat, trail'[h] = trail[h] + put,
         put + (OwingOf(u, h) - OwingOf(use[w], h)) + missed <= called,
         recorder = "NoopSecretAuditRecorder" => put = 0,
         recorder # "NoopSecretAuditRecorder" =>
           put + (OwingOf(u, h) - OwingOf(use[w], h)) + missed = called
  PROVE  Balanced(h)'
<1> DEFINE owes == SumFunction(OwingByUse(h))
           owes1 == SumFunction(OwingByUse(h)')
           o == OwingOf(u, h) - OwingOf(use[w], h)
           written == trail[h]
           gone == lost[h]
           called0 == due[h]
<1>1. /\ written \in Int /\ gone \in Int /\ called0 \in Int /\ put \in Int /\ missed \in Int
      /\ called \in Int
  BY DEF UInv
<1>2. owes \in Int /\ o \in Int
  <2>1. use[w] \in Uses
    BY DEF UInv
  <2> QED BY <2>1, UseSums, OwingOfIs DEF UInv
<1>3. owes1 = owes + o
  BY OwingChanges DEF UInv
<1>4. /\ written + owes + gone <= called0
      /\ recorder = "NoopSecretAuditRecorder" => written = 0
      /\ recorder # "NoopSecretAuditRecorder" => written + owes + gone = called0
  BY DEF UInv, Balanced
<1>5. /\ trail'[h] = written + put /\ lost'[h] = gone + missed /\ due'[h] = called0 + called
      /\ put + o + missed <= called
      /\ recorder # "NoopSecretAuditRecorder" => put + o + missed = called
  OBVIOUS
<1> HIDE DEF owes, owes1, o, written, gone, called0
<1>6. (written + put) + (owes + o) + (gone + missed) <= called0 + called
  BY <1>1, <1>2, <1>4, <1>5, Moves
<1>7. recorder # "NoopSecretAuditRecorder" =>
        (written + put) + (owes + o) + (gone + missed) = called0 + called
  BY <1>1, <1>2, <1>4, <1>5, Moves
<1>8. recorder = "NoopSecretAuditRecorder" => written + put = 0
  BY <1>4
<1>9. /\ trail'[h] + owes1 + lost'[h] <= due'[h]
      /\ recorder # "NoopSecretAuditRecorder" => trail'[h] + owes1 + lost'[h] = due'[h]
      /\ recorder = "NoopSecretAuditRecorder" => trail'[h] = 0
  BY <1>3, <1>5, <1>6, <1>7, <1>8
<1> QED BY <1>9 DEF Balanced, owes1

\* And of the rotations.
LEMMA StepUInv ==
  ASSUME UInv, calls \in Nat, NEW w \in Workers, NEW u \in Uses, use' = [use EXCEPT ![w] = u],
         u.op = "none" => u.todo = <<>>,
         recorder' = recorder, calls' \in Nat,
         trail' \in [HitKind -> Nat], due' \in [HitKind -> Nat], lost' \in [HitKind -> Nat],
         NEW rotated \in Nat, version' = version + rotated,
         rotated + (Asking(u.todo) - Asking(use[w].todo)) <= calls' - calls,
         \A h \in HitKind : Balanced(h)'
  PROVE  UInv'
<1> DEFINE asks == SumFunction(AskingByUse)
           asks1 == SumFunction(AskingByUse')
           a == Asking(u.todo) - Asking(use[w].todo)
           more == calls' - calls
<1>1. use' \in [Workers -> Uses] /\ asks1 = asks + a
  BY AskingChanges DEF UInv
<1>2. \A v \in Workers : use'[v].op = "none" => use'[v].todo = <<>>
  BY DEF UInv
<1>3. asks \in Int /\ a \in Int /\ version \in Nat
  <2>1. u.todo \in Todos /\ use[w].todo \in Todos
    BY DEF Uses, UInv
  <2>2. \A todo \in Todos : Asking(todo) \in {0, 1}
    BY Tasks
  <2>3. asks \in Int
    BY UseSums DEF UInv, HitKind
  <2>4. Asking(u.todo) \in {0, 1} /\ Asking(use[w].todo) \in {0, 1} /\ version \in Nat
    BY <2>1, <2>2 DEF UInv
  <2>5. a \in Int
    BY <2>4
  <2> QED BY <2>3, <2>4, <2>5
<1>4. version + asks <= calls /\ rotated + a <= more
  BY DEF UInv
<1>5. more \in Int /\ calls' = calls + more
  <2>1. calls' \in Int /\ calls \in Int
    OBVIOUS
  <2> QED BY <2>1, Minus, Zenon
<1> HIDE DEF asks, asks1, a, more
<1>6. (version + rotated) + (asks + a) <= calls + more
  BY <1>3, <1>4, <1>5, Moves
<1>7. version' \in Nat /\ version' + asks1 <= calls'
  BY <1>1, <1>3, <1>5, <1>6
<1> QED BY <1>1, <1>2, <1>7 DEF UInv, asks1

LEMMA NoUseOK ==
  /\ NoUse \in Uses /\ NoUse.op = "none" /\ NoUse.todo = <<>>
  /\ Asking(NoUse.todo) = 0 /\ Owing(NoUse.todo) = 0
<1>1. <<>> \in Todos
  BY DEF Todos
<1>2. NoUse \in Uses /\ NoUse.op = "none" /\ NoUse.todo = <<>>
  BY <1>1 DEF NoUse, Uses, HitKind
<1> QED BY <1>1, <1>2, Tasks

\* What follows an await.
LEMMA AfterUse ==
  ASSUME NEW u \in Uses, u.todo # <<>>, u.op # "none"
  PROVE  /\ After(u) \in Uses /\ After(u).todo = Tail(u.todo)
         /\ After(u).op = "none" => After(u).todo = <<>>
         /\ After(u).todo # <<>> => After(u).hit = u.hit
<1>1. u.todo \in Todos /\ Tail(u.todo) \in Todos
  BY TodoTails DEF Uses
<1>2. CASE Tail(u.todo) = <<>>
  BY <1>2, NoUseOK DEF After
<1>3. CASE Tail(u.todo) # <<>>
  <2> DEFINE rest == Tail(u.todo)
             v == [u EXCEPT !.todo = rest]
  <2>1. After(u) = v
    BY <1>3 DEF After, Uses
  <2> HIDE DEF rest
  <2>2. rest \in Todos
    BY <1>1 DEF rest
  <2>3. v \in Uses /\ v.todo = rest /\ v.op = u.op /\ v.hit = u.hit
    BY <2>2 DEF Uses
  <2> HIDE DEF v
  <2> QED BY <2>1, <2>3 DEF rest
<1> QED BY <1>2, <1>3

\* What w's use starts from.
LEMMA OwnUse ==
  ASSUME UInv, NEW w \in Workers, use[w].todo # <<>>
  PROVE  /\ use[w] \in Uses /\ use[w].todo \in Todos /\ use[w].op # "none"
         /\ use[w].hit \in HitKind
         /\ Asking(use[w].todo) \in {0, 1} /\ Owing(use[w].todo) \in Nat
  BY Tasks DEF UInv, Uses

LEMMA UseSecretUInv ==
  ASSUME UInv, calls \in Nat, NEW w \in Workers, NEW chain \in Chains, UseSecret(w, chain)
  PROVE  UInv'
<1> DEFINE op == Head(chain)
           u == [NoUse EXCEPT !.op = op, !.todo = chain]
<1>1. /\ use[w].op = "none" /\ calls' = calls + 1 /\ use' = [use EXCEPT ![w] = u]
      /\ UNCHANGED <<recorder, version, trail, due, lost>>
  BY DEF UseSecret
<1>2. chain \in Todos /\ chain # <<>> /\ op \in {"get", "rotate"}
  BY DEF Chains, Todos
<1> HIDE DEF op
<1>3. u \in Uses /\ u.todo = chain /\ u.op # "none"
  BY <1>2, NoUseOK DEF Uses
<1> HIDE DEF u
<1>4. Asking(u.todo) = 1 /\ Owing(u.todo) = 0
  BY <1>2, <1>3, Tasks DEF op
<1>5. use[w] \in Uses /\ use[w].todo = <<>> /\ Asking(use[w].todo) = 0
  <2>1. use[w] \in Uses /\ use[w].todo = <<>> /\ use[w].todo \in Todos
    BY <1>1 DEF UInv, Uses
  <2> QED BY <2>1, Tasks
<1>6. /\ version \in Nat /\ trail' \in [HitKind -> Nat] /\ due' \in [HitKind -> Nat]
      /\ lost' \in [HitKind -> Nat] /\ recorder' = recorder
  BY <1>1 DEF UInv
<1>7. ASSUME NEW h \in HitKind PROVE Balanced(h)'
  <2>1. OwingOf(u, h) = 0 /\ OwingOf(use[w], h) = 0
    BY <1>4, <1>5, OwingOfIs DEF OwingOf
  <2>2. /\ due'[h] = due[h] + 0 /\ lost'[h] = lost[h] + 0 /\ trail'[h] = trail[h] + 0 /\ 0 \in Nat
    BY <1>1 DEF UInv
  <2>3. /\ 0 + (OwingOf(u, h) - OwingOf(use[w], h)) + 0 = 0
        /\ 0 + (OwingOf(u, h) - OwingOf(use[w], h)) + 0 <= 0
    BY <2>1
  <2> QED BY <1>1, <1>3, <1>6, <1>7, <2>2, <2>3, StepBalance
<1>8. /\ version' = version + 0 /\ calls' \in Nat /\ 0 \in Nat
      /\ 0 + (Asking(u.todo) - Asking(use[w].todo)) <= calls' - calls
  BY <1>1, <1>4, <1>5, <1>6
<1> QED BY <1>1, <1>3, <1>6, <1>7, <1>8, StepUInv

\* A use goes on or ends after an answer of the core.
LEMMA AskedUInv ==
  ASSUME UInv, calls \in Nat, NEW w \in Workers, NEW u \in Uses, use' = [use EXCEPT ![w] = u],
         u.op = "none" => u.todo = <<>>,
         use[w].todo # <<>>, Head(use[w].todo) \in {"get", "rotate"},
         UNCHANGED <<recorder, trail, lost, calls>>,
         version' \in {version, version + 1},
         \/ /\ u.todo = Tail(use[w].todo)
            /\ due' = [due EXCEPT ![u.hit] = due[u.hit] + Owed(use[w].todo)]
         \/ u.todo = <<>> /\ due' = due
  PROVE  UInv'
<1>1. /\ version \in Nat /\ trail' \in [HitKind -> Nat] /\ lost' \in [HitKind -> Nat]
      /\ due \in [HitKind -> Nat] /\ u.hit \in HitKind /\ u.todo \in Todos
  BY DEF UInv, Uses
<1>2. /\ use[w] \in Uses /\ use[w].todo \in Todos /\ Asking(use[w].todo) = 1
      /\ Owing(use[w].todo) = 0
      /\ Asking(Tail(use[w].todo)) = 0 /\ Owing(Tail(use[w].todo)) = Owed(use[w].todo)
      /\ Tail(use[w].todo) \in Todos
  BY OwnUse, Tasks
<1>3. Asking(<<>>) = 0 /\ Owing(<<>>) = 0
  BY NoUseOK
<1>4. PICK rotated \in {0, 1} : version' = version + rotated
  BY <1>1
<1>5. PICK called \in Nat :
        due' = [due EXCEPT ![u.hit] = due[u.hit] + called] /\ Owing(u.todo) = called
        /\ Asking(u.todo) = 0
  <2>1. CASE /\ u.todo = Tail(use[w].todo)
             /\ due' = [due EXCEPT ![u.hit] = due[u.hit] + Owed(use[w].todo)]
    <3>1. Owed(use[w].todo) \in Nat
      BY <1>2, Tasks
    <3> QED BY <1>2, <2>1, <3>1
  <2>2. CASE u.todo = <<>> /\ due' = due
    <3>1. due' = [due EXCEPT ![u.hit] = due[u.hit] + 0]
      BY <1>1, <2>2
    <3> QED BY <1>3, <2>2, <3>1
  <2> QED BY <2>1, <2>2
<1>6. ASSUME NEW h \in HitKind PROVE Balanced(h)'
  <2>1. OwingOf(use[w], h) = 0
    BY <1>2 DEF OwingOf
  <2>2. lost'[h] = lost[h] + 0 /\ trail'[h] = trail[h] + 0 /\ 0 \in Nat /\ due[h] \in Nat
    BY <1>1 DEF UInv
  <2>3. PICK more \in Nat : due'[h] = due[h] + more /\ OwingOf(u, h) = more
    <3>1. CASE h = u.hit
      BY <1>1, <1>5, <3>1 DEF OwingOf
    <3>2. CASE h # u.hit
      <4>1. due'[h] = due[h] + 0 /\ OwingOf(u, h) = 0
        BY <1>1, <1>5, <2>2, <3>2 DEF OwingOf
      <4> QED BY <4>1
    <3> QED BY <3>1, <3>2
  <2>4. 0 + (OwingOf(u, h) - OwingOf(use[w], h)) + 0 = more
    BY <2>1, <2>3
  <2>5. 0 + (OwingOf(u, h) - OwingOf(use[w], h)) + 0 <= more
    BY <2>4
  <2> QED BY <2>2, <2>3, <2>4, <2>5, StepBalance
<1>7. due' \in [HitKind -> Nat]
  <2>1. due[u.hit] + called \in Nat
    BY <1>1
  <2> QED BY <1>1, <1>5, <2>1
<1>8. /\ rotated \in Nat /\ calls' \in Nat /\ recorder' = recorder
      /\ rotated + (Asking(u.todo) - Asking(use[w].todo)) <= calls' - calls
  BY <1>1, <1>2, <1>4, <1>5
<1> QED BY <1>1, <1>4, <1>6, <1>7, <1>8, StepUInv

\* A record is written or lost, or all that are owed are.
LEMMA OwedUInv ==
  ASSUME UInv, calls \in Nat, NEW w \in Workers, NEW u \in Uses, use' = [use EXCEPT ![w] = u],
         u.op = "none" => u.todo = <<>>, u.todo # <<>> => u.hit = use[w].hit,
         use[w].todo # <<>>, Head(use[w].todo) \in {"audit", "record"},
         UNCHANGED <<recorder, version, due, calls>>,
         NEW put \in Nat, trail' = [trail EXCEPT ![use[w].hit] = trail[use[w].hit] + put],
         NEW missed \in Nat, lost' = [lost EXCEPT ![use[w].hit] = lost[use[w].hit] + missed],
         recorder = "NoopSecretAuditRecorder" => put = 0,
         \/ u.todo = Tail(use[w].todo) /\ put + missed = 1
         \/ u.todo = Tail(use[w].todo) /\ put + missed = 0
              /\ recorder = "NoopSecretAuditRecorder"
         \/ u.todo = <<>> /\ put = 0 /\ missed = Owed(use[w].todo)
  PROVE  UInv'
<1>1. /\ version \in Nat /\ due' \in [HitKind -> Nat] /\ due \in [HitKind -> Nat]
      /\ trail \in [HitKind -> Nat] /\ lost \in [HitKind -> Nat]
      /\ u.todo \in Todos
  BY DEF UInv, Uses
<1>2. /\ use[w].todo \in Todos /\ Asking(use[w].todo) = 0 /\ use[w].hit \in HitKind
      /\ Owing(use[w].todo) = Owed(use[w].todo) /\ Owed(use[w].todo) \in Nat
      /\ Asking(Tail(use[w].todo)) = 0 /\ Owing(Tail(use[w].todo)) = Owed(use[w].todo) - 1
  BY OwnUse, Tasks
<1>3. Asking(<<>>) = 0 /\ Owing(<<>>) = 0
  BY NoUseOK
<1>4. Asking(u.todo) = 0
  BY <1>2, <1>3
<1>5. /\ put + (Owing(u.todo) - Owing(use[w].todo)) + missed <= 0
      /\ recorder # "NoopSecretAuditRecorder" =>
           put + (Owing(u.todo) - Owing(use[w].todo)) + missed = 0
  <2>1. CASE u.todo = Tail(use[w].todo)
    <3>1. Owing(u.todo) - Owing(use[w].todo) = -1 /\ -1 \in Int
      BY <1>2, <2>1
    <3>2. u.todo # <<>> \/ Owed(use[w].todo) = 1
      BY <1>2, <2>1, TodoTails
    <3>3. put + missed = 1 \/ (put + missed = 0 /\ recorder = "NoopSecretAuditRecorder")
      BY <3>2
    <3> QED BY <3>1, <3>3
  <2>2. CASE u.todo = <<>> /\ put = 0 /\ missed = Owed(use[w].todo)
    BY <1>2, <1>3, <2>2
  <2> QED BY <2>1, <2>2
<1>6. ASSUME NEW h \in HitKind PROVE Balanced(h)'
  <2>1. due'[h] = due[h] + 0 /\ 0 \in Nat /\ recorder' = recorder
    BY <1>1
  <2>2. CASE h = use[w].hit
    <3>1. OwingOf(use[w], h) = Owing(use[w].todo) /\ OwingOf(u, h) = Owing(u.todo)
      BY <1>3, <2>2 DEF OwingOf
    <3>2. trail'[h] = trail[h] + put /\ lost'[h] = lost[h] + missed
      BY <1>1, <2>2
    <3>3. /\ put + (OwingOf(u, h) - OwingOf(use[w], h)) + missed <= 0
          /\ recorder # "NoopSecretAuditRecorder" =>
               put + (OwingOf(u, h) - OwingOf(use[w], h)) + missed = 0
      BY <1>5, <3>1
    <3> QED BY <2>1, <3>2, <3>3, StepBalance
  <2>3. CASE h # use[w].hit
    <3>1. OwingOf(use[w], h) = 0 /\ OwingOf(u, h) = 0
      BY <1>3, <2>3 DEF OwingOf
    <3>2. trail'[h] = trail[h] + 0 /\ lost'[h] = lost[h] + 0
      BY <1>1, <2>3
    <3>3. /\ 0 + (OwingOf(u, h) - OwingOf(use[w], h)) + 0 <= 0
          /\ 0 + (OwingOf(u, h) - OwingOf(use[w], h)) + 0 = 0
      BY <3>1
    <3> QED BY <2>1, <3>2, <3>3, StepBalance
  <2> QED BY <2>2, <2>3
<1>7. trail' \in [HitKind -> Nat] /\ lost' \in [HitKind -> Nat]
  <2>1. trail[use[w].hit] + put \in Nat /\ lost[use[w].hit] + missed \in Nat
    BY <1>1, <1>2
  <2> QED BY <1>1, <1>2, <2>1
<1>8. /\ version' = version + 0 /\ 0 \in Nat /\ calls' \in Nat
      /\ 0 + (Asking(u.todo) - Asking(use[w].todo)) <= calls' - calls
  BY <1>1, <1>2, <1>4
<1> QED BY <1>1, <1>6, <1>7, <1>8, StepUInv

LEMMA CoreAnswersUInv ==
  ASSUME UInv, calls \in Nat, NEW w \in Workers, CoreAnswers(w)
  PROVE  UInv'
<1>1. /\ use[w].todo # <<>> /\ Head(use[w].todo) \in {"get", "rotate"}
      /\ UNCHANGED <<recorder, trail, calls>>
  BY DEF CoreAnswers, storeVars
<1>2. /\ use[w] \in Uses /\ use[w].op # "none" /\ use[w].todo \in Todos
      /\ use[w].hit \in HitKind /\ version \in Nat /\ lost \in [HitKind -> Nat]
  BY <1>1, OwnUse DEF UInv
<1>3. ASSUME NEW u \in Uses, u.todo = use[w].todo, u.op = use[w].op, Answered(w, u),
             version' \in {version, version + 1}
      PROVE  UInv'
  <2>1. /\ use' = [use EXCEPT ![w] = After(u)] /\ lost' = lost
        /\ due' = [due EXCEPT ![u.hit] = due[u.hit] + Owed(use[w].todo)]
    BY <1>3 DEF Answered
  <2>2. /\ After(u) \in Uses /\ After(u).todo = Tail(use[w].todo)
        /\ After(u).op = "none" => After(u).todo = <<>>
        /\ After(u).todo # <<>> => After(u).hit = u.hit
    BY <1>1, <1>2, <1>3, AfterUse
  <2>3. Tail(use[w].todo) # <<>>
    BY <1>1, <1>2, Tasks
  <2>4. After(u).hit = u.hit
    BY <2>2, <2>3
  <2> QED BY <1>1, <1>3, <2>1, <2>2, <2>4, AskedUInv
<1>4. CASE Answered(w, use[w]) /\ version' = version + (IF use[w].op = "rotate" THEN 1 ELSE 0)
  <2>1. version' \in {version, version + 1}
    BY <1>2, <1>4
  <2> QED BY <1>2, <1>3, <1>4, <2>1
<1>5. CASE Answered(w, [use[w] EXCEPT !.hit = "miss"]) /\ UNCHANGED version
  <2> DEFINE u == [use[w] EXCEPT !.hit = "miss"]
  <2>1. u \in Uses /\ u.todo = use[w].todo /\ u.op = use[w].op
    BY <1>2 DEF Uses, HitKind
  <2> HIDE DEF u
  <2>2. Answered(w, u)
    BY <1>5 DEF u
  <2> QED BY <1>3, <1>5, <2>1, <2>2
<1>6. CASE Ends(w, 0) /\ UNCHANGED <<due, version>>
  <2>1. use' = [use EXCEPT ![w] = NoUse] /\ lost' = lost
    BY <1>2, <1>6 DEF Ends
  <2> QED BY <1>1, <1>6, <2>1, NoUseOK, AskedUInv
<1> QED BY <1>4, <1>5, <1>6 DEF CoreAnswers

LEMMA RecordsUInv ==
  ASSUME UInv, calls \in Nat, NEW w \in Workers, Records(w)
  PROVE  UInv'
<1>1. /\ use[w].todo # <<>> /\ Head(use[w].todo) \in {"audit", "record"}
      /\ UNCHANGED <<recorder, version, due, calls>>
  BY DEF Records
<1>2. /\ use[w] \in Uses /\ use[w].op # "none" /\ use[w].todo \in Todos
      /\ use[w].hit \in HitKind
      /\ lost \in [HitKind -> Nat] /\ trail \in [HitKind -> Nat]
  BY <1>1, OwnUse DEF UInv
<1>3. /\ After(use[w]) \in Uses /\ After(use[w]).todo = Tail(use[w].todo)
      /\ After(use[w]).op = "none" => After(use[w]).todo = <<>>
      /\ After(use[w]).todo # <<>> => After(use[w]).hit = use[w].hit
  BY <1>1, <1>2, AfterUse
<1>4. Owed(use[w].todo) \in Nat
  BY <1>1, <1>2, Tasks
<1>5. /\ lost = [lost EXCEPT ![use[w].hit] = lost[use[w].hit] + 0]
      /\ trail = [trail EXCEPT ![use[w].hit] = trail[use[w].hit] + 0]
  BY <1>2
<1>6. CASE /\ trail' = IF recorder = "NoopSecretAuditRecorder" THEN trail
                       ELSE [trail EXCEPT ![use[w].hit] = @ + 1]
           /\ use' = [use EXCEPT ![w] = After(use[w])]
           /\ UNCHANGED <<lost, faults>>
  <2> DEFINE put == IF recorder = "NoopSecretAuditRecorder" THEN 0 ELSE 1
  <2>1. trail' = [trail EXCEPT ![use[w].hit] = trail[use[w].hit] + put]
    BY <1>5, <1>6
  <2>2. /\ put \in Nat /\ 0 \in Nat /\ lost' = [lost EXCEPT ![use[w].hit] = lost[use[w].hit] + 0]
        /\ recorder = "NoopSecretAuditRecorder" => put = 0 /\ put + 0 = 0
        /\ recorder # "NoopSecretAuditRecorder" => put + 0 = 1
    BY <1>5, <1>6
  <2> HIDE DEF put
  <2>3. use' = [use EXCEPT ![w] = After(use[w])]
    BY <1>6
  <2>4. \/ After(use[w]).todo = Tail(use[w].todo) /\ put + 0 = 1
        \/ /\ After(use[w]).todo = Tail(use[w].todo) /\ put + 0 = 0
           /\ recorder = "NoopSecretAuditRecorder"
    BY <1>3, <2>2
  <2> QED BY <1>1, <1>3, <2>1, <2>2, <2>3, <2>4, OwedUInv
<1>7. CASE /\ Fault /\ recorder # "NoopSecretAuditRecorder"
           /\ IF Head(use[w].todo) = "audit"
                THEN /\ use' = [use EXCEPT ![w] = After(use[w])]
                     /\ lost' = [lost EXCEPT ![use[w].hit] = @ + 1]
                ELSE Ends(w, Owed(use[w].todo))
           /\ UNCHANGED trail
  <2>1. /\ trail' = [trail EXCEPT ![use[w].hit] = trail[use[w].hit] + 0]
        /\ 0 \in Nat /\ 1 \in Nat /\ 0 + 1 = 1
    BY <1>5, <1>7
  <2>2. CASE Head(use[w].todo) = "audit"
    BY <1>1, <1>3, <1>7, <2>1, <2>2, OwedUInv
  <2>3. CASE Head(use[w].todo) # "audit"
    BY <1>1, <1>4, <1>7, <2>1, <2>3, NoUseOK, OwedUInv DEF Ends
  <2> QED BY <2>2, <2>3
<1> QED BY <1>6, <1>7 DEF Records

LEMMA UseCancelledUInv ==
  ASSUME UInv, calls \in Nat, NEW w \in Workers, UseCancelled(w)
  PROVE  UInv'
<1>1. use[w].todo # <<>> /\ UNCHANGED <<recorder, trail, due, calls>>
  BY DEF UseCancelled
<1>2. /\ use[w].todo \in Todos /\ use[w].hit \in HitKind /\ version \in Nat
      /\ lost \in [HitKind -> Nat] /\ trail \in [HitKind -> Nat]
  BY <1>1, OwnUse DEF UInv
<1>3. CASE /\ Head(use[w].todo) \in {"get", "rotate"} /\ Ends(w, 0)
           /\ version' \in {version, version + 1}
  <2>1. use' = [use EXCEPT ![w] = NoUse] /\ lost' = lost
    BY <1>2, <1>3 DEF Ends
  <2> QED BY <1>1, <1>3, <2>1, NoUseOK, AskedUInv
<1>4. CASE /\ Head(use[w].todo) \in {"audit", "record"}
           /\ UNCHANGED version /\ Ends(w, Owed(use[w].todo))
  <2>1. /\ use' = [use EXCEPT ![w] = NoUse]
        /\ lost' = [lost EXCEPT ![use[w].hit] = lost[use[w].hit] + Owed(use[w].todo)]
    BY <1>4 DEF Ends
  <2>2. trail' = [trail EXCEPT ![use[w].hit] = trail[use[w].hit] + 0] /\ 0 \in Nat
    BY <1>1, <1>2
  <2>3. Owed(use[w].todo) \in Nat
    BY <1>1, <1>2, <1>4, Tasks
  <2> QED BY <1>1, <1>4, <2>1, <2>2, <2>3, NoUseOK, OwedUInv
<1> QED BY <1>3, <1>4 DEF UseCancelled

LEMMA StoreUInv ==
  ASSUME UInv, calls \in Nat, UNCHANGED secretVars, calls' \in {calls, calls + 1}
  PROVE  UInv'
<1>1. /\ AskingByUse' = AskingByUse /\ \A h \in HitKind : OwingByUse(h)' = OwingByUse(h)
      /\ UNCHANGED <<recorder, version, trail, use, due, lost>>
  BY DEF secretVars, AskingByUse, OwingByUse, Pending
<1>2. version \in Nat /\ SumFunction(AskingByUse) \in Nat
      /\ version + SumFunction(AskingByUse) <= calls
  BY UseSums DEF UInv, HitKind
<1>3. version' + SumFunction(AskingByUse') <= calls'
  BY <1>1, <1>2
<1>4. \A h \in HitKind : Balanced(h)'
  BY <1>1 DEF UInv, Balanced
<1> QED BY <1>1, <1>3, <1>4 DEF UInv

LEMMA InitUInv == Init => UInv
<1> SUFFICES ASSUME Init PROVE UInv
  OBVIOUS
<1>1. /\ recorder \in {"RepositorySecretAuditRecorder", "NoopSecretAuditRecorder"}
      /\ version = 0 /\ calls = 0
      /\ due = [h \in HitKind |-> 0] /\ lost = [h \in HitKind |-> 0]
      /\ trail = [h \in HitKind |-> 0] /\ use = [w \in Workers |-> NoUse]
  BY DEF Init, StoreInit
<1>2. trail \in [HitKind -> Nat] /\ due \in [HitKind -> Nat] /\ lost \in [HitKind -> Nat]
  BY <1>1
<1>3. use \in [Workers -> Uses]
  BY <1>1, NoUseOK
<1>4. \A w \in Workers : use[w].todo = <<>>
  BY <1>1, NoUseOK
<1>5. 0 \in {0} /\ \A m, n \in {0} : m + n \in {0}
  OBVIOUS
<1>6. SumFunction(AskingByUse) = 0
  <2>1. \A w \in Workers : AskingByUse[w] \in {0}
    BY <1>4 DEF AskingByUse, Asking
  <2>2. DOMAIN AskingByUse = Workers
    BY DEF AskingByUse
  <2> HIDE DEF AskingByUse
  <2>3. SumFunction(AskingByUse) \in {0}
    BY <1>5, <2>1, <2>2, StoreAssumption, SumType
  <2> QED BY <2>3
<1>7. ASSUME NEW h \in HitKind PROVE Balanced(h)
  <2>1. \A w \in Workers : OwingByUse(h)[w] \in {0}
    BY <1>4 DEF OwingByUse, Pending
  <2>2. DOMAIN OwingByUse(h) = Workers
    BY DEF OwingByUse
  <2> HIDE DEF OwingByUse
  <2>3. SumFunction(OwingByUse(h)) \in {0}
    BY <1>5, <2>1, <2>2, StoreAssumption, SumType
  <2>4. SumFunction(OwingByUse(h)) = 0
    BY <2>3
  <2> QED BY <1>1, <2>4 DEF Balanced
<1> QED BY <1>1, <1>2, <1>3, <1>6, <1>7, NoUseOK DEF UInv

LEMMA NextUInv == TInv /\ UInv /\ [Next]_vars => UInv'
<1> SUFFICES ASSUME TInv, UInv, [Next]_vars PROVE UInv'
  OBVIOUS
<1>0. calls \in Nat
  BY StoreAssumption DEF TInv, CountInv
<1>1. ASSUME NEW w \in Workers, StoreStep(w) \/ Breaks(w) \/ Crash(w), UNCHANGED secretVars
      PROVE  UInv'
  <2>1. calls' = calls
    BY <1>1
    DEF StoreStep, Breaks, Crash, Bootstrap, Look, Create, Provisioned, SaveInserts,
        DeleteFinds, DeleteRemoves, Commit, Return
  <2> QED BY <1>0, <1>1, <2>1, StoreUInv
<1>2. ASSUME NEW w \in Workers, NEW op \in {"save", "delete"}, NEW key \in Keys,
             CallRepository(w, op, key), UNCHANGED secretVars
      PROVE  UInv'
  BY <1>0, <1>2, StoreUInv DEF CallRepository
<1>3. ASSUME NEW r \in rows, Deactivate(r), UNCHANGED secretVars PROVE UInv'
  <2>1. calls' = calls
    BY <1>3 DEF Deactivate
  <2> QED BY <1>0, <1>3, <2>1, StoreUInv
<1>4. ASSUME NEW w \in Workers, NEW chain \in Chains, UseSecret(w, chain) PROVE UInv'
  BY <1>0, <1>4, UseSecretUInv
<1>5. ASSUME NEW w \in Workers, CoreAnswers(w) \/ Records(w) \/ UseCancelled(w) PROVE UInv'
  BY <1>0, <1>5, CoreAnswersUInv, RecordsUInv, UseCancelledUInv
<1>6. CASE UNCHANGED vars
  BY <1>0, <1>6, StoreUInv DEF vars, storeVars
<1> QED BY <1>1, <1>2, <1>3, <1>4, <1>5, <1>6 DEF Next

LEMMA SpecTUInv == Spec => [](TInv /\ UInv)
<1>1. Init => TInv /\ UInv
  BY InitTInv, InitUInv
<1>2. IInv /\ (TInv /\ UInv) /\ [Next]_vars => (TInv /\ UInv)'
  BY NextTInv, NextUInv
<1> QED BY <1>1, <1>2, SpecIInv, PTL DEF Spec

-----------------------------------------------------------------------------

\* A process that is ready finds the whole schema, no two transactions make the
\* same item of it, and every id of a row and every rotation is due to a call.
THEOREM TypeCorrect == Spec => []TypeOK
<1>1. IInv /\ TInv /\ UInv => TypeOK
  <2> SUFFICES ASSUME IInv, TInv, UInv PROVE TypeOK
    OBVIOUS
  <2>1. StoreTypeOK
    BY StoreTyped
  <2>2. version \in 0..calls
    <3>1. version \in Nat /\ calls \in Nat /\ SumFunction(AskingByUse) \in Nat
          /\ version + SumFunction(AskingByUse) <= calls
      BY UseSums, StoreAssumption DEF UInv, HitKind, TInv, CountInv
    <3> QED BY <3>1
  <2>3. \A h \in HitKind : trail[h] \in Nat /\ due[h] \in Nat /\ lost[h] \in 0..due[h]
    <3> SUFFICES ASSUME NEW h \in HitKind
                 PROVE  trail[h] \in Nat /\ due[h] \in Nat /\ lost[h] \in 0..due[h]
      OBVIOUS
    <3>1. trail[h] \in Nat /\ due[h] \in Nat /\ lost[h] \in Nat
          /\ SumFunction(OwingByUse(h)) \in Nat
          /\ trail[h] + SumFunction(OwingByUse(h)) + lost[h] <= due[h]
      BY UseSums DEF UInv, Balanced
    <3> QED BY <3>1
  <2>4. \A w \in Workers : use[w].hit \in HitKind /\ use[w].todo \in Seq(Awaits)
    BY Tasks DEF UInv, Uses
  <2> QED BY <2>1, <2>2, <2>3, <2>4 DEF TypeOK, UInv
<1> QED BY <1>1, SpecIInv, SpecTUInv, PTL

\* What the auditor and the rotator have had an answer for is on the trail as the
\* hit or the miss that it was, once for each recorder of the chain, is about to
\* be, or was lost to a recorder that failed or to a cancellation.
THEOREM TrailsBalance == Spec => []TrailBalances
<1>1. UInv => TrailBalances
  BY DEF UInv, Balanced, TrailBalances, OwingByUse
<1> QED BY <1>1, SpecTUInv, PTL

\* Calls of the repository that run at the same time answer as if one ran after
\* the other, for any number of processes, names, crashes and broken connections.
THEOREM RepositoryLinearizes == Spec => []CallsLinearize
<1>1. IInv => CallsLinearize
  <2> SUFFICES ASSUME IInv PROVE CallsLinearize
    OBVIOUS
  <2>1. \A r, s \in rows : r.key = s.key => r = s
    BY DEF IInv, TableOK
  <2>2. ASSUME NEW w \in Workers
        PROVE  /\ call[w].at = "refused" => call[w].taken
               /\ call[w].op = "delete" /\ call[w].at = "done" => call[w].freed
    <3>1. CallOK(call[w], rows, inserted) /\ call[w].op \in {"none", "provision", "save", "delete"}
      BY DEF IInv, Calls
    <3>2. call[w].at = "refused" => call[w].taken
      <4>1. CASE call[w].op = "save"
        BY <3>1, <4>1 DEF CallOK, SaveOK
      <4>2. CASE call[w].op # "save"
        BY <3>1, <4>2 DEF CallOK, DeleteOK
      <4> QED BY <4>1, <4>2
    <3>3. call[w].op = "delete" /\ call[w].at = "done" => call[w].freed
      BY <3>1 DEF CallOK, DeleteOK
    <3> QED BY <3>2, <3>3
  <2> QED BY <2>1, <2>2 DEF CallsLinearize
<1> QED BY <1>1, SpecIInv, PTL

\* A tenant's configurations change by its own calls and the operator only.
THEOREM TenantsStayApart == Spec => TenantsApart
<1> DEFINE Kept ==
      \A t \in Tenants :
        /\ \A r \in list_by_tenant(t) :
             (\A s \in rows' : s.id # r.id) =>
                \E w \in Workers : call[w].op = "delete" /\ call[w].key = r.key
                                     /\ call[w].row = r.id
        /\ \A r \in rows' \ rows :
             r.key[1] = t /\ r.active =>
                \E w \in Workers : call[w].op = "save" /\ call[w].key = r.key
                                     /\ call[w].row = r.id
<1>1. ASSUME IInv, [Next]_vars PROVE Kept \/ UNCHANGED rows
  <2>1. ASSUME NEW w \in Workers, Commit(w), call[w].op = "save" PROVE Kept
    <3> DEFINE new == [id |-> call[w].row, key |-> call[w].key, active |-> TRUE]
    <3>1. rows' = rows \union {new}
      BY <2>1 DEF Commit, Goes
    <3>2. new.id = call[w].row /\ new.key = call[w].key
      OBVIOUS
    <3> HIDE DEF new
    <3> QED BY <2>1, <3>1, <3>2 DEF list_by_tenant
  <2>2. ASSUME NEW w \in Workers, Commit(w), call[w].op = "delete" PROVE Kept
    <3>1. rows' = {r \in rows : r.id # call[w].row}
      BY <2>2 DEF Commit, Goes
    <3>2. DeleteOK(call[w], rows, inserted) /\ call[w].at = "commit" /\ TableOK(rows, inserted)
      BY <1>1, <2>2 DEF IInv, CallOK, Commit
    <3>3. \A r \in rows : r.id = call[w].row => r.key = call[w].key
      BY <3>2 DEF DeleteOK, HasRow, TableOK
    <3> QED BY <2>2, <3>1, <3>3 DEF list_by_tenant
  <2>3. ASSUME NEW r \in rows, Deactivate(r) PROVE Kept
    <3> DEFINE off == [r EXCEPT !.active = FALSE]
    <3>1. rows' = (rows \ {r}) \union {off}
      BY <2>3 DEF Deactivate
    <3>2. off.id = r.id /\ off.active = FALSE
      BY <1>1 DEF IInv, TableOK
    <3> HIDE DEF off
    <3> QED BY <3>1, <3>2 DEF list_by_tenant
  <2>4. ASSUME NEW w \in Workers, StoreStep(w) \/ Breaks(w) \/ Crash(w), ~Commit(w)
        PROVE  UNCHANGED rows
    BY <2>4
    DEF StoreStep, Breaks, Crash, Bootstrap, Look, Create, Provisioned, SaveInserts,
        DeleteFinds, DeleteRemoves, Return, Goes
  <2>5. ASSUME NEW w \in Workers, Commit(w) PROVE Kept
    BY <2>1, <2>2, <2>5 DEF Commit
  <2>6. ASSUME NEW w \in Workers, NEW op \in {"save", "delete"}, NEW key \in Keys,
               CallRepository(w, op, key)
        PROVE  UNCHANGED rows
    BY <2>6 DEF CallRepository, Goes
  <2>7. ASSUME UNCHANGED storeVars \/ UNCHANGED vars PROVE UNCHANGED rows
    BY <2>7 DEF storeVars, vars
  <2>8. ASSUME NEW w \in Workers, NEW chain \in Chains, UseSecret(w, chain)
        PROVE  UNCHANGED rows
    BY <2>8 DEF UseSecret
  <2>9. ASSUME NEW w \in Workers, CoreAnswers(w) \/ Records(w) \/ UseCancelled(w)
        PROVE  UNCHANGED rows
    BY <2>9 DEF CoreAnswers, Records, UseCancelled, storeVars
  <2> HIDE DEF Kept
  <2> QED BY <1>1, <2>3, <2>4, <2>5, <2>6, <2>7, <2>8, <2>9 DEF Next
<1>2. IInv /\ [Next]_vars => [Kept]_rows
  BY <1>1
<1> QED BY <1>2, SpecIInv, PTL DEF Spec, TenantsApart
=============================================================================
