----------------------------- MODULE ConfigStore -----------------------------
(***************************************************************************)
(* The configuration store: ConfigStoreProvisioner (db/provisioner.py) and *)
(* AgentConfigRepository (db/repositories/agent_config_repository.py), run *)
(* by several server processes on one PostgreSQL database.                 *)
(*                                                                         *)
(* The database is external: a transaction sees what is committed, the     *)
(* insertion of a key waits while another transaction has inserted it or   *)
(* is deleting it, and is refused if the key is there when it may go on.   *)
(* CREATE ... IF NOT EXISTS is such an insertion too, into the catalogue,  *)
(* after a look at what is committed.  A process may die, and a            *)
(* connection break, within a transaction, which is then rolled back.      *)
(***************************************************************************)
EXTENDS Naturals, Sequences, FiniteSets

CONSTANTS
  Workers,    \* the server processes
  Tenants,
  Names,      \* the names of agent configurations
  NoKey,      \* the key of a call that has none
  MaxCalls,   \* bound: calls of a repository
  MaxFaults   \* bound: crashes, broken connections and failing records

Keys == Tenants \X Names

ASSUME StoreAssumption ==
  /\ IsFiniteSet(Workers)
  /\ MaxCalls \in Nat /\ MaxFaults \in Nat
  /\ NoKey \notin Keys

VARIABLES
  catalogue,  \* what of the schema is committed
  rows,       \* the committed rows of yamlagno_agent_configs
  inserted,   \* how many rows were ever inserted, the last of the ids
  ready,      \* the processes whose bootstrap_database() has returned
  call,       \* what each process is doing
  calls,      \* how many calls of a repository were made
  faults      \* how many faults occurred

storeVars == <<catalogue, rows, inserted, ready, call, calls, faults>>

\* What provision() looks for and creates, in its order.
Items == <<"schema", "tables", "version">>
AllItems == {"schema", "tables", "version"}

\* AgentConfigRecord, with its unique (tenant_id, name).
Rows == [id: 1..MaxCalls + 1, key: Keys, active: BOOLEAN]

HasKey(table, key) == \E r \in table : r.key = key

\* A call: "made" is what its transaction has created of the schema, "row" the
\* id it has found or inserted, 0 if none.  "freed" and "taken" are history: was
\* there an instant of the call at which its key had no row, and one at which
\* it had?
NoCall == [op |-> "none", at |-> "idle", item |-> 1, made |-> {}, key |-> NoKey,
           row |-> 0, freed |-> FALSE, taken |-> FALSE]

StoreInit ==
  /\ \/ /\ catalogue \in {{}, {"schema"}, {"schema", "tables"}}
        /\ rows = {} /\ inserted = 0
     \/ /\ catalogue = AllItems
        /\ \E key \in Keys : rows = {[id |-> 1, key |-> key, active |-> TRUE]}
        /\ inserted = 1
  /\ ready = {}
  /\ call = [w \in Workers |-> NoCall]
  /\ calls = 0 /\ faults = 0

\* The process w goes on with c, and these rows are committed.
Goes(w, c, table) ==
  /\ rows' = table
  /\ call' = [u \in Workers |->
                LET d == IF u = w THEN c ELSE call[u]
                IN  IF d.op \in {"save", "delete"} /\ (u = w \/ d.at \notin {"done", "refused"})
                      THEN [d EXCEPT !.freed = @ \/ ~HasKey(table, d.key),
                                     !.taken = @ \/ HasKey(table, d.key)]
                      ELSE d]

Others(w) == {call[u] : u \in Workers \ {w}}

-----------------------------------------------------------------------------
(* ConfigStoreProvisioner.provision, in one transaction *)

Bootstrap(w) ==
  /\ call[w].op = "none" /\ w \notin ready
  /\ Goes(w, [NoCall EXCEPT !.op = "provision", !.at = "look"], rows)
  /\ UNCHANGED <<catalogue, inserted, ready, calls, faults>>

AfterItem(c) ==
  IF c.item = 3 THEN [c EXCEPT !.at = "commit"]
  ELSE [c EXCEPT !.at = "look", !.item = @ + 1]

\* IF NOT EXISTS, checkfirst, and the select of _mark_version.
Look(w) ==
  /\ call[w].op = "provision" /\ call[w].at = "look"
  /\ Goes(w, IF Items[call[w].item] \in catalogue
               THEN AfterItem(call[w])
               ELSE [call[w] EXCEPT !.at = "create"], rows)
  /\ UNCHANGED <<catalogue, inserted, ready, calls, faults>>

\* Mutant: the duplicate is looked for again in the transaction that it aborted.
Create_Retries(w) ==
  /\ call[w].op = "provision" /\ call[w].at = "create"
  /\ LET item == Items[call[w].item]
     IN  /\ \A c \in Others(w) : item \notin c.made
         /\ Goes(w, IF item \in catalogue THEN call[w]
                    ELSE AfterItem([call[w] EXCEPT !.made = @ \union {item}]), rows)
  /\ UNCHANGED <<catalogue, inserted, ready, calls, faults>>

\* Another process may have committed the item since it was looked for: the
\* insertion is refused, the exception leaves the bootstrap and the start fails.
Create(w) ==
  /\ call[w].op = "provision" /\ call[w].at = "create"
  /\ LET item == Items[call[w].item]
     IN  /\ \A c \in Others(w) : item \notin c.made
         /\ Goes(w, IF item \in catalogue THEN NoCall
                    ELSE AfterItem([call[w] EXCEPT !.made = @ \union {item}]), rows)
  /\ UNCHANGED <<catalogue, inserted, ready, calls, faults>>

\* Mutant: the version row of a provisioning is taken for the whole of it.
Provisioned_Early(w) ==
  /\ call[w].op = "provision" /\ call[w].at \in {"look", "commit"}
  /\ catalogue' = catalogue \union call[w].made
  /\ ready' = ready \union {w}
  /\ Goes(w, NoCall, rows)
  /\ UNCHANGED <<inserted, calls, faults>>

Provisioned(w) ==
  /\ call[w].op = "provision" /\ call[w].at = "commit"
  /\ catalogue' = catalogue \union call[w].made
  /\ ready' = ready \union {w}
  /\ Goes(w, NoCall, rows)
  /\ UNCHANGED <<inserted, calls, faults>>

-----------------------------------------------------------------------------
(* AgentConfigRepository *)

get_by_name(key) == {r \in rows : r.key = key /\ r.active}
list_by_tenant(tenant) == {r \in rows : r.key[1] = tenant}

CallRepository(w, op, key) ==
  /\ call[w].op = "none" /\ w \in ready
  /\ calls < MaxCalls /\ calls' = calls + 1
  /\ Goes(w, [NoCall EXCEPT !.op = op, !.key = key,
                            !.at = IF op = "save" THEN "insert" ELSE "find"], rows)
  /\ UNCHANGED <<catalogue, inserted, ready, faults>>

Answers(w, at) == [call[w] EXCEPT !.at = at, !.row = 0]

\* The transaction c has locked a row of the key, by inserting or deleting it.
Locks(c, key) == c.at = "commit" /\ c.key = key /\ c.row # 0

\* save: a row of the key, an inactive one too, refuses the insertion.
SaveInserts(w) ==
  /\ call[w].op = "save" /\ call[w].at = "insert"
  /\ \A c \in Others(w) : ~Locks(c, call[w].key)
  /\ IF HasKey(rows, call[w].key)
       THEN Goes(w, Answers(w, "refused"), rows) /\ UNCHANGED inserted
       ELSE /\ inserted' = inserted + 1
            /\ Goes(w, [call[w] EXCEPT !.at = "commit", !.row = inserted'], rows)
  /\ UNCHANGED <<catalogue, ready, calls, faults>>

\* Mutant: delete looks for what get_by_name serves.
DeleteFinds_ActiveOnly(w) ==
  /\ call[w].op = "delete" /\ call[w].at = "find"
  /\ IF get_by_name(call[w].key) # {}
       THEN \E r \in get_by_name(call[w].key) :
              Goes(w, [call[w] EXCEPT !.at = "remove", !.row = r.id], rows)
       ELSE Goes(w, [call[w] EXCEPT !.at = "commit"], rows)
  /\ UNCHANGED <<catalogue, inserted, ready, calls, faults>>

\* Mutant: the tenant is forgotten in the filter.
DeleteFinds_AnyTenant(w) ==
  /\ call[w].op = "delete" /\ call[w].at = "find"
  /\ IF \E r \in rows : r.key[2] = call[w].key[2]
       THEN \E r \in rows :
              /\ r.key[2] = call[w].key[2]
              /\ Goes(w, [call[w] EXCEPT !.at = "remove", !.row = r.id], rows)
       ELSE Goes(w, [call[w] EXCEPT !.at = "commit"], rows)
  /\ UNCHANGED <<catalogue, inserted, ready, calls, faults>>

\* delete: find_all(tenant_id, name), the active and the inactive.
DeleteFinds(w) ==
  /\ call[w].op = "delete" /\ call[w].at = "find"
  /\ IF HasKey(rows, call[w].key)
       THEN \E r \in rows :
              /\ r.key = call[w].key
              /\ Goes(w, [call[w] EXCEPT !.at = "remove", !.row = r.id], rows)
       ELSE Goes(w, [call[w] EXCEPT !.at = "commit"], rows)
  /\ UNCHANGED <<catalogue, inserted, ready, calls, faults>>

\* delete: the row that was found, by its id, which may be gone by now.
DeleteRemoves(w) ==
  /\ call[w].op = "delete" /\ call[w].at = "remove"
  /\ \A c \in Others(w) : ~(c.at = "commit" /\ c.row = call[w].row)
  /\ Goes(w, [call[w] EXCEPT !.at = "commit",
                             !.row = IF \E r \in rows : r.id = @ THEN @ ELSE 0], rows)
  /\ UNCHANGED <<catalogue, inserted, ready, calls, faults>>

Commit(w) ==
  /\ call[w].op \in {"save", "delete"} /\ call[w].at = "commit"
  /\ Goes(w, Answers(w, "done"),
          IF call[w].op = "save"
            THEN rows \union {[id |-> call[w].row, key |-> call[w].key, active |-> TRUE]}
            ELSE {r \in rows : r.id # call[w].row})
  /\ UNCHANGED <<catalogue, inserted, ready, calls, faults>>

Return(w) ==
  /\ call[w].at \in {"done", "refused"}
  /\ Goes(w, NoCall, rows)
  /\ UNCHANGED <<catalogue, inserted, ready, calls, faults>>

-----------------------------------------------------------------------------
(* The environment *)

\* Somebody deactivates a configuration; no code here does.
Deactivate(r) ==
  /\ \A w \in Workers : ~Locks(call[w], r.key)
  /\ r.active
  /\ rows' = (rows \ {r}) \union {[r EXCEPT !.active = FALSE]}
  /\ UNCHANGED <<catalogue, inserted, ready, call, calls, faults>>

Fault == faults < MaxFaults /\ faults' = faults + 1

\* The connection breaks: the transaction is rolled back and the call raises.
Breaks(w) ==
  /\ Fault
  /\ call[w].at \in {"look", "create", "insert", "find", "remove", "commit"}
  /\ Goes(w, NoCall, rows)
  /\ UNCHANGED <<catalogue, inserted, ready, calls>>

\* The process dies; it is started again.
Crash(w) ==
  /\ Fault
  /\ Goes(w, NoCall, rows)
  /\ ready' = ready \ {w}
  /\ UNCHANGED <<catalogue, inserted, calls>>

\* What a process does by itself once it has begun.
StoreStep(w) ==
  \/ Bootstrap(w) \/ Look(w) \/ Create(w) \/ Provisioned(w)
  \/ SaveInserts(w) \/ DeleteFinds(w) \/ DeleteRemoves(w) \/ Commit(w) \/ Return(w)

-----------------------------------------------------------------------------
(* Properties *)

\* A call knows a row by an id that was given to it, what transactions have
\* created of the schema is not committed and made by one of them only, and a
\* process that is ready finds the whole schema, whoever made it.
StoreTypeOK ==
  /\ catalogue \subseteq AllItems
  /\ rows \subseteq Rows /\ inserted \in 0..MaxCalls + 1
  /\ ready \subseteq Workers
  /\ calls \in 0..MaxCalls /\ faults \in 0..MaxFaults
  /\ \A w \in Workers :
       /\ call[w].row \in 0..inserted
       /\ call[w].made \subseteq AllItems \ catalogue
       /\ \A c \in Others(w) : c.made \intersect call[w].made = {}
  /\ ready # {} => catalogue = AllItems

\* Calls that run at the same time answer as if one ran after the other.  The
\* unique (tenant_id, name) lets one of two saves of a name through, and refuses
\* a save only if a row was there while it ran, be it one that get_by_name hides.
\* delete finds a row and removes it by its id: although others save and delete
\* the name between the two, the name was free at some instant of the call.
CallsLinearize ==
  /\ \A r, s \in rows : r.key = s.key => r = s
  /\ \A w \in Workers :
       /\ call[w].at = "refused" => call[w].taken
       /\ call[w].op = "delete" /\ call[w].at = "done" => call[w].freed

\* What a tenant has changes by that tenant's own calls and the operator only,
\* and a row disappears only if a delete of its own name has found that very row.
TenantsApart ==
  [][\A t \in Tenants :
       /\ \A r \in list_by_tenant(t) :
            (\A s \in rows' : s.id # r.id) =>
               \E w \in Workers : call[w].op = "delete" /\ call[w].key = r.key
                                    /\ call[w].row = r.id
       /\ \A r \in rows' \ rows :
            r.key[1] = t /\ r.active =>
               \E w \in Workers : call[w].op = "save" /\ call[w].key = r.key
                                    /\ call[w].row = r.id]_rows

\* Every process gets past its bootstrap, although the first ones race for
\* every item of the schema and each may lose or die on the way.
EventuallyReady == <>[](ready = Workers)
=============================================================================
