--------------------------- MODULE ConfigAdapter ---------------------------
(***************************************************************************)
(* YamlAgnoConfigAdapter (config/bootstrap.py): a validated facade over    *)
(* core-cenf's ConfigManager.  A configuration is a record of the edit it  *)
(* came from and whether it satisfies the strict settings model; nothing   *)
(* else of its sections is told apart.                                     *)
(***************************************************************************)
EXTENDS Naturals

Config == [edit: Nat, valid: BOOLEAN]

\* _core's materialized configuration, _snapshot (what get_* reads) and
\* _settings (what settings and get_env read).
Adapter == [core: Config, snapshot: Config, settings: Config]

\* The constructor materializes, and is aborted by an invalid configuration.
NewAdapter(config) == [core |-> config, snapshot |-> config, settings |-> config]

\* await self._core.reload(), external: the core re-reads files and environment.
CoreReload(a, file) == [a EXCEPT !.core = file]

\* Mutant: the snapshot swapped before it is validated.
Materialize_SwapFirst(a) ==
  IF a.core.valid THEN [a EXCEPT !.snapshot = a.core, !.settings = a.core]
                  ELSE [a EXCEPT !.snapshot = a.core]

\* reload() once the core has: _materialize, then _settings.  It raises when
\* ~a.core.valid, and then neither is replaced.
Materialize(a) ==
  IF a.core.valid THEN [a EXCEPT !.snapshot = a.core, !.settings = a.core]
                  ELSE a

ServesValidated(a) == a.snapshot.valid /\ a.snapshot = a.settings
=============================================================================
