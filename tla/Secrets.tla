------------------------------- MODULE Secrets -------------------------------
(***************************************************************************)
(* Secrets and their audit trail (config/secrets.py, config/rotator.py,    *)
(* config/audit.py): SecretAccessAuditor around the core's SecretManager,  *)
(* SecretRotator over either of them, and a recorder that inserts into     *)
(* yamlagno.secret_audit.  The server processes of ConfigStore use them    *)
(* between their calls of the repository.                                  *)
(*                                                                         *)
(* The core's manager is external: it answers, raises a ValidationError,   *)
(* or raises something else.  Every await may be cancelled.                *)
(***************************************************************************)
EXTENDS ConfigStore, SequencesExt

VARIABLES
  recorder,  \* which recorder the wiring has injected
  version,   \* how often the secret was rotated
  trail,     \* how many rows of secret_audit there are of each hit
  use,       \* what each process is doing with the secret
  due,       \* history: the records of each hit that the core's answers called for
  lost       \* history: those of them that were not written

secretVars == <<recorder, version, trail, use, due, lost>>
vars == <<storeVars, secretVars>>

HitKind == {"remote", "miss"}

\* A use: the awaits still to come, and how it ends.  "audit" records and
\* swallows a failure, "record" lets it out.
NoUse == [op |-> "none", todo |-> <<>>, hit |-> "remote"]

Awaits == {"get", "rotate", "audit", "record"}

\* get_secret and rotate_secret of the auditor, and rotate of a rotator over the
\* core or over the auditor, with a recorder of its own.
Chains ==
  {<<"get", "audit">>, <<"rotate", "audit">>, <<"rotate", "record">>,
   <<"rotate", "audit", "record">>}

\* The records that a list of awaits still owes.
Owed(todo) == Cardinality({i \in DOMAIN todo : todo[i] \in {"audit", "record"}})

Init ==
  /\ StoreInit
  /\ recorder \in {"RepositorySecretAuditRecorder", "NoopSecretAuditRecorder"}
  /\ version = 0
  /\ trail = [h \in HitKind |-> 0]
  /\ use = [w \in Workers |-> NoUse]
  /\ due = [h \in HitKind |-> 0] /\ lost = [h \in HitKind |-> 0]

UseSecret(w, chain) ==
  /\ call[w].op = "none" /\ w \in ready /\ use[w].op = "none"
  /\ calls < MaxCalls /\ calls' = calls + 1
  /\ use' = [use EXCEPT ![w] = [NoUse EXCEPT !.op = Head(chain), !.todo = chain]]
  /\ UNCHANGED <<catalogue, rows, inserted, ready, call, faults,
                 recorder, version, trail, due, lost>>

\* The awaits that follow, or the return.
After(u) == IF Tail(u.todo) = <<>> THEN NoUse ELSE [u EXCEPT !.todo = Tail(@)]

\* The core has answered: the records are to come.
Answered(w, u) ==
  /\ use' = [use EXCEPT ![w] = After(u)]
  /\ due' = [due EXCEPT ![u.hit] = @ + Owed(u.todo)]
  /\ UNCHANGED lost

\* The use ends, and these records will not be written.
Ends(w, records) ==
  /\ use' = [use EXCEPT ![w] = NoUse]
  /\ lost' = [lost EXCEPT ![use[w].hit] = @ + records]

\* The core answers, or raises: a ValidationError of get_secret is audited as a
\* miss before it leaves, and every other exception leaves at once.
CoreAnswers(w) ==
  /\ use[w].todo # <<>> /\ Head(use[w].todo) \in {"get", "rotate"}
  /\ \/ /\ version' = version + (IF use[w].op = "rotate" THEN 1 ELSE 0)
        /\ Answered(w, use[w])
     \/ /\ use[w].op = "get"
        /\ Answered(w, [use[w] EXCEPT !.hit = "miss"])
        /\ UNCHANGED version
     \/ Ends(w, 0) /\ UNCHANGED <<due, version>>
  /\ UNCHANGED <<storeVars, recorder, trail>>

\* Mutant: the rotator's recorder is skipped once the auditor's has failed.
Records_FailureEnds(w) ==
  /\ use[w].todo # <<>> /\ Head(use[w].todo) \in {"audit", "record"}
  /\ \/ /\ trail' = IF recorder = "NoopSecretAuditRecorder" THEN trail
                    ELSE [trail EXCEPT ![use[w].hit] = @ + 1]
        /\ use' = [use EXCEPT ![w] = After(@)]
        /\ UNCHANGED <<lost, faults>>
     \/ /\ Fault /\ recorder # "NoopSecretAuditRecorder"
        /\ Ends(w, 1)
        /\ UNCHANGED trail
  /\ UNCHANGED <<catalogue, rows, inserted, ready, call, calls, recorder, version, due>>

\* record() inserts a row or raises: _audit swallows that, rotate lets it out.
Records(w) ==
  /\ use[w].todo # <<>> /\ Head(use[w].todo) \in {"audit", "record"}
  /\ \/ /\ trail' = IF recorder = "NoopSecretAuditRecorder" THEN trail
                    ELSE [trail EXCEPT ![use[w].hit] = @ + 1]
        /\ use' = [use EXCEPT ![w] = After(@)]
        /\ UNCHANGED <<lost, faults>>
     \/ /\ Fault /\ recorder # "NoopSecretAuditRecorder"
        /\ IF Head(use[w].todo) = "audit"
             THEN use' = [use EXCEPT ![w] = After(@)] /\ lost' = [lost EXCEPT ![use[w].hit] = @ + 1]
             ELSE Ends(w, Owed(use[w].todo))
        /\ UNCHANGED trail
  /\ UNCHANGED <<catalogue, rows, inserted, ready, call, calls, recorder, version, due>>

\* The use is cancelled in an await, or its process dies: what the core has
\* done, or is doing, stays done and is not recorded.
UseCancelled(w) ==
  /\ Fault
  /\ use[w].todo # <<>>
  /\ \/ Head(use[w].todo) = "rotate" /\ version' = version + 1 /\ Ends(w, 0)
     \/ Head(use[w].todo) \in {"get", "rotate"} /\ UNCHANGED version /\ Ends(w, 0)
     \/ /\ Head(use[w].todo) \in {"audit", "record"}
        /\ UNCHANGED version /\ Ends(w, Owed(use[w].todo))
  /\ UNCHANGED <<catalogue, rows, inserted, ready, call, calls, recorder, trail, due>>

-----------------------------------------------------------------------------

\* The processes use the store and the secret; one that dies has ended its use.
Next ==
  \/ /\ \/ \E w \in Workers : StoreStep(w)
        \/ \E w \in Workers, op \in {"save", "delete"}, key \in Keys :
             CallRepository(w, op, key)
        \/ \E r \in rows : Deactivate(r)
        \/ \E w \in Workers : Breaks(w)
        \/ \E w \in Workers : use[w].op = "none" /\ Crash(w)
     /\ UNCHANGED secretVars
  \/ \E w \in Workers, chain \in Chains : UseSecret(w, chain)
  \/ \E w \in Workers : CoreAnswers(w) \/ Records(w)
  \/ \E w \in Workers : UseCancelled(w)

\* A process that may go on does, and one that died is started again.
Spec ==
  /\ Init
  /\ [][Next]_vars
  /\ \A w \in Workers : WF_vars(StoreStep(w) /\ UNCHANGED secretVars)

-----------------------------------------------------------------------------
(* Properties *)

TypeOK ==
  /\ StoreTypeOK
  /\ recorder \in {"RepositorySecretAuditRecorder", "NoopSecretAuditRecorder"}
  /\ version \in 0..calls
  /\ \A h \in HitKind : trail[h] \in Nat
  /\ \A w \in Workers : use[w].hit \in HitKind /\ use[w].todo \in Seq(Awaits)
  /\ \A h \in HitKind : due[h] \in Nat /\ lost[h] \in 0..due[h]

\* The records of hit h that w is about to write.
Pending(w, h) ==
  IF use[w].todo # <<>> /\ Head(use[w].todo) \in {"audit", "record"} /\ use[w].hit = h
    THEN Owed(use[w].todo) ELSE 0

\* What the auditor and the rotator have had an answer for is on the trail as
\* the hit or the miss that it was, once for each recorder of the chain, or is
\* about to be, or was lost to a recorder that failed or to a cancellation; and
\* a recorder that failed inside the auditor costs no later record its row.
TrailBalances ==
  \A h \in HitKind :
    LET pending == SumFunction([w \in Workers |-> Pending(w, h)])
    IN  IF recorder = "NoopSecretAuditRecorder" THEN trail[h] = 0
        ELSE trail[h] + pending + lost[h] = due[h]
=============================================================================
