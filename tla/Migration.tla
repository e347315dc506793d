------------------------------ MODULE Migration ------------------------------
(***************************************************************************)
(* Live target migration between warabi providers, composed with the       *)
(* provider handlers of module Provider.                                   *)
(*                                                                         *)
(* Source side, migrateTargetRPC: look up the destination and create the   *)
(* REMI provider handle; FIND_TARGET; Backend::startMigration (the target  *)
(* is frozen from here on); build the REMI fileset (files, metadata uuid,  *)
(* config, type, migration_config, transfer size); remi_fileset_migrate;   *)
(* on a non-zero remi_status cancel the handle; leaving the scope destroys *)
(* the handle, which commits unless it was cancelled.                      *)
(*                                                                         *)
(* Inside remi_fileset_migrate the destination q runs                      *)
(* beforeMigrationCallback, REMI copies the files, then                    *)
(* afterMigrationCallback; their return code travels back as remi_status.  *)
(* The slot of the migrate request carries these remote steps too (its pc  *)
(* says which callback is running, on provider q), since the source ULT    *)
(* waits for them.  The reply of remi_fileset_migrate can be lost, in      *)
(* which case it returns an error code whatever the destination did.       *)
(*                                                                         *)
(* Configuration is abstracted to the one field the provider reads: the    *)
(* transfer_manager name.  A migration_config (options.extraConfig) is     *)
(* NoTm (an object without that field), a name (it overrides the field),   *)
(* or BadJson (it does not parse).                                         *)
(***************************************************************************)
EXTENDS Provider

CONSTANTS
    BadJson,    \* an extraConfig that is not valid JSON
    Extras      \* the extraConfig values clients pass

ASSUME Extras \subseteq TMNames \cup {NoTm, BadJson}

-----------------------------------------------------------------------------
(* The migrate_target RPC                                                  *)

IssueMigrate(r) ==
    \E p, q \in Provs, u \in usedIds, rs \in BOOLEAN, x \in Extras :
        /\ Issue(r, [Call("migrate_target", p, "mg_lookup")
                        EXCEPT !.u = u, !.q = q, !.rs = rs, !.x = x])
        /\ UNCHANGED <<targets, tms, tmtx, mmtx, be, usedIds, owned>>

\* m_engine.lookup(dest_address) and remi_provider_handle_create can fail
\* before anything is touched.
MigrateLookup(r) ==
    /\ req[r].pc = "mg_lookup"
    /\ \/ Respond(r)
       \/ Goto(r, "find_lock")
    /\ UNCHANGED <<targets, tms, tmtx, mmtx, be, usedIds, owned, issued>>

\* tg->startMigration(options.removeSource): waits for another live handle,
\* fails on a migrated or destroyed target.
MigrateStart(r) ==
    LET b == BeOf(r) IN
    /\ req[r].pc = "mg_start"
    /\ ~Frozen(b)
    /\ IF Serving(b)
         THEN /\ SetBackend(Ent(r).be, StartMigration(b, req[r].rs))
              /\ Goto(r, "mg_fileset")
         ELSE /\ Respond(r)
              /\ UNCHANGED be
    /\ UNCHANGED <<targets, tms, tmtx, mmtx, usedIds, owned, issued>>

\* Mutant: a HANDLE_REMI_ERROR return that keeps the MigrationHandle alive.
MigrateFilesetNoRelease(r) ==
    LET b == BeOf(r) IN
    /\ req[r].pc = "mg_fileset"
    /\ \/ Respond(r) /\ UNCHANGED be
       \/ /\ req' = [req EXCEPT ![r].fs = b.regions, ![r].pc = "cb_before_tm"]
          /\ UNCHANGED be
    /\ UNCHANGED <<targets, tms, tmtx, mmtx, usedIds, owned, issued>>

\* remi_fileset_create, register_file/_directory, register_metadata and
\* set_xfer_size.  HANDLE_REMI_ERROR returns on a failure without cancel():
\* the MigrationHandle is destroyed and commits.  On success the fileset
\* holds the target's files, i.e. its regions as they are now.
MigrateFileset(r) ==
    LET b == BeOf(r) IN
    /\ req[r].pc = "mg_fileset"
    /\ \/ /\ SetBackend(Ent(r).be, CommitMigration(b))
          /\ Respond(r)
       \/ /\ req' = [req EXCEPT ![r].fs = b.regions, ![r].pc = "cb_before_tm"]
          /\ UNCHANGED be
    /\ UNCHANGED <<targets, tms, tmtx, mmtx, usedIds, owned, issued>>

-----------------------------------------------------------------------------
(* Destination side: the REMI migration-class callbacks on provider q      *)

Q(r) == req[r].q

\* The "config" metadata (the source backend's getConfig()) updated with
\* "migration_config": the transfer_manager it names, or NoTm.
MergedTm(r) ==
    IF req[r].x \in TMNames THEN req[r].x ELSE BeOf(r).tm

\* Mutant: the destination does not check that the transfer manager exists.
BeforeMigrationTmNoCheck(r) ==
    /\ req[r].pc = "cb_before_tm"
    /\ IF req[r].x = BadJson
         THEN req' = [req EXCEPT ![r].rc = 1, ![r].pc = "mg_finish"]
         ELSE Goto(r, "cb_before_find")
    /\ UNCHANGED <<targets, tms, tmtx, mmtx, be, usedIds, owned, issued>>

\* beforeMigrationCallback, up to the transfer-manager check: 1 if a config
\* does not parse (before any lock); 2 if the named transfer manager is
\* unknown, looked up under m_transfer_managers_mtx.
BeforeMigrationTm(r) ==
    LET q == Q(r) IN
    /\ req[r].pc = "cb_before_tm"
    /\ req[r].x = BadJson \/ MergedTm(r) = NoTm \/ mmtx[q] = None
    /\ CASE req[r].x = BadJson ->
              req' = [req EXCEPT ![r].rc = 1, ![r].pc = "mg_finish"]
         [] MergedTm(r) # NoTm /\ MergedTm(r) \notin tms[q] ->
              req' = [req EXCEPT ![r].rc = 2, ![r].pc = "mg_finish"]
         [] OTHER -> Goto(r, "cb_before_find")
    /\ UNCHANGED <<targets, tms, tmtx, mmtx, be, usedIds, owned, issued>>

\* Mutant: beforeMigrationCallback takes m_targets_mtx around its lookup.
BeforeMigrationFindLocked(r) ==
    /\ req[r].pc = "cb_before_find"
    /\ tmtx[Q(r)] = None
    /\ IF targets[Q(r)][req[r].u] # None
         THEN req' = [req EXCEPT ![r].rc = 3, ![r].pc = "mg_finish"]
         ELSE \/ req' = [req EXCEPT ![r].rc = 4, ![r].pc = "mg_finish"]
              \/ Goto(r, "remi_xfer")
    /\ UNCHANGED <<targets, tms, tmtx, mmtx, be, usedIds, owned, issued>>

\* Mutant: beforeMigrationCallback does not look the UUID up.
BeforeMigrationFindNoCheck(r) ==
    /\ req[r].pc = "cb_before_find"
    /\ \/ req' = [req EXCEPT ![r].rc = 4, ![r].pc = "mg_finish"]
       \/ Goto(r, "remi_xfer")
    /\ UNCHANGED <<targets, tms, tmtx, mmtx, be, usedIds, owned, issued>>

\* The rest of beforeMigrationCallback: m_targets.find(target_id) without
\* m_targets_mtx (3 if the UUID is there), then TargetFactory::validateConfig
\* (4 if it refuses).
BeforeMigrationFind(r) ==
    /\ req[r].pc = "cb_before_find"
    /\ IF targets[Q(r)][req[r].u] # None
         THEN req' = [req EXCEPT ![r].rc = 3, ![r].pc = "mg_finish"]
         ELSE \/ req' = [req EXCEPT ![r].rc = 4, ![r].pc = "mg_finish"]
              \/ Goto(r, "remi_xfer")
    /\ UNCHANGED <<targets, tms, tmtx, mmtx, be, usedIds, owned, issued>>

\* REMI copies the files to the destination; the transfer may fail, and
\* remi_fileset_migrate then returns an error code.
RemiTransfer(r) ==
    /\ req[r].pc = "remi_xfer"
    /\ \/ req' = [req EXCEPT ![r].rret = TRUE, ![r].pc = "mg_finish"]
       \/ Goto(r, "cb_after_tm")
    /\ UNCHANGED <<targets, tms, tmtx, mmtx, be, usedIds, owned, issued>>

\* Mutant: no "__default__" fallback when the config names no manager.
AfterMigrationTmNoDefault(r) ==
    /\ req[r].pc = "cb_after_tm"
    /\ MergedTm(r) = NoTm \/ mmtx[Q(r)] = None
    /\ req' = [req EXCEPT ![r].tm = MergedTm(r), ![r].pc = "cb_after_recover"]
    /\ UNCHANGED <<targets, tms, tmtx, mmtx, be, usedIds, owned, issued>>

\* afterMigrationCallback resolves the transfer manager: the named one under
\* m_transfer_managers_mtx, or m_transfer_managers["__default__"] without it.
AfterMigrationTm(r) ==
    /\ req[r].pc = "cb_after_tm"
    /\ MergedTm(r) = NoTm \/ mmtx[Q(r)] = None
    /\ req' = [req EXCEPT ![r].tm = IF MergedTm(r) = NoTm THEN Default ELSE MergedTm(r),
                          ![r].pc = "cb_after_recover"]
    /\ UNCHANGED <<targets, tms, tmtx, mmtx, be, usedIds, owned, issued>>

\* remi_fileset_walkthrough (2), remi_fileset_get_root (3) and
\* TargetFactory::recoverTarget (4) may fail; otherwise the backend is
\* rebuilt from the transferred files.
AfterMigrationRecover(r) ==
    /\ req[r].pc = "cb_after_recover"
    /\ \/ /\ \E rc \in {2, 3, 4} :
                req' = [req EXCEPT ![r].rc = rc, ![r].pc = "mg_finish"]
          /\ UNCHANGED be
       \/ /\ be' = Append(be, RecoverBackend(MergedTm(r), req[r].fs))
          /\ req' = [req EXCEPT ![r].nb = Len(be) + 1, ![r].pc = "cb_after_insert"]
    /\ UNCHANGED <<targets, tms, tmtx, mmtx, usedIds, owned, issued>>

\* provider->m_targets[target_id] = ... without m_targets_mtx; returns 0.
AfterMigrationInsert(r) ==
    /\ req[r].pc = "cb_after_insert"
    /\ targets' = [targets EXCEPT ![Q(r)][req[r].u] =
                      [be |-> req[r].nb, tm |-> req[r].tm]]
    /\ req' = [req EXCEPT ![r].rc = 0, ![r].pc = "mg_finish"]
    /\ UNCHANGED <<tms, tmtx, mmtx, be, usedIds, owned, issued>>

-----------------------------------------------------------------------------
(* Back on the source                                                      *)

\* Mutant: every failure reported to the source cancels the handle.
MigrateFinishCancelOnError(r) ==
    LET b == BeOf(r) IN
    /\ req[r].pc = "mg_finish"
    /\ \E lost \in BOOLEAN :
         IF req[r].rret \/ lost \/ req[r].rc # 0
           THEN SetBackend(Ent(r).be, CancelMigration(b))
           ELSE SetBackend(Ent(r).be, CommitMigration(b))
    /\ Respond(r)
    /\ UNCHANGED <<targets, tms, tmtx, mmtx, usedIds, owned, issued>>

\* remi_fileset_migrate returns.  An error code (transfer failure or lost
\* reply) leaves through HANDLE_REMI_ERROR without cancel(); a non-zero
\* remi_status cancels; the handle is then destroyed and commits unless
\* cancelled.
MigrateFinish(r) ==
    LET b == BeOf(r) IN
    /\ req[r].pc = "mg_finish"
    /\ \E lost \in BOOLEAN :
         IF ~(req[r].rret \/ lost) /\ req[r].rc # 0
           THEN SetBackend(Ent(r).be, CancelMigration(b))
           ELSE SetBackend(Ent(r).be, CommitMigration(b))
    /\ Respond(r)
    /\ UNCHANGED <<targets, tms, tmtx, mmtx, usedIds, owned, issued>>

MigrationStep(r) ==
    \/ MigrateLookup(r) \/ MigrateStart(r) \/ MigrateFileset(r)
    \/ BeforeMigrationTm(r) \/ BeforeMigrationFind(r) \/ RemiTransfer(r)
    \/ AfterMigrationTm(r) \/ AfterMigrationRecover(r) \/ AfterMigrationInsert(r)
    \/ MigrateFinish(r)

-----------------------------------------------------------------------------
(* The specification                                                       *)

Step(r) == ProviderStep(r) \/ MigrationStep(r)

\* Clients stop once MaxReqs requests were issued; the providers then only
\* finish what is in flight.
Quiescent == issued = MaxReqs /\ UNCHANGED vars

Next ==
    \/ \E r \in Reqs : IssueProvider(r) \/ IssueMigrate(r) \/ Step(r)
    \/ Quiescent

\* Each handler ULT keeps being scheduled, and a mutex or a target lock that
\* keeps becoming free is eventually granted to a ULT waiting for it.
Fairness == \A r \in Reqs : SF_vars(Step(r))

Spec     == Init /\ [][Next]_vars
FairSpec == Spec /\ Fairness


-----------------------------------------------------------------------------
(* Properties                                                              *)

Pcs == {"idle", "at_validate", "at_lock_targets", "at_insert", "rt_lock",
        "rt_erase", "dt_lock", "dt_check", "dt_destroy", "am_validate",
        "am_lock", "am_insert", "gc_lock_targets", "gc_lock_tms", "find_lock",
        "find", "create", "cw_create", "cw_pull", "cwe", "w_region", "w_pull",
        "we", "persist", "r_region", "r_push", "re", "erase",
        "mg_lookup", "mg_start", "mg_fileset", "cb_before_tm",
        "cb_before_find", "remi_xfer", "cb_after_tm", "cb_after_recover",
        "cb_after_insert", "mg_finish"}

TypeOK ==
    /\ targets \in [Provs -> [UUIDs -> Entry \cup {None}]]
    /\ tms \in [Provs -> SUBSET TMNames]
    /\ tmtx \in [Provs -> Reqs \cup {None}]
    /\ mmtx \in [Provs -> Reqs \cup {None}]
    /\ be \in Seq(BackendRec)
    /\ \A r \in Reqs : req[r].pc \in Pcs
    /\ usedIds \subseteq UUIDs /\ owned \subseteq usedIds
    /\ issued \in 0..MaxReqs

\* Registered(p, u): the backend m_targets[u] of provider p points to.
Registered(p, u) == targets[p][u] # None
RegBackend(p, u) == be[targets[p][u].be]

\* At most one provider serves a target: a migration never leaves two
\* providers both accepting region operations on the same UUID, whatever
\* remi_fileset_migrate reports to the source (migrateTargetRPC's commit or
\* cancel of the MigrationHandle against afterMigrationCallback's insert).
AtMostOneServingCopy ==
    \A u \in UUIDs :
        Cardinality({p \in Provs : Registered(p, u) /\ Serving(RegBackend(p, u))}) <= 1

\* Every registered target is bound to a transfer manager its provider has:
\* addTarget checks the name under both mutexes, and a migrated-in target
\* relies on beforeMigrationCallback having checked the merged config before
\* afterMigrationCallback dereferences m_transfer_managers.find(tm_name).
TMBindingValid ==
    \A p \in Provs, u \in UUIDs :
        Registered(p, u) => targets[p][u].tm \in tms[p]

\* No entry of m_targets is ever replaced by another: an entry only appears
\* where there was none, and only disappears.  afterMigrationCallback
\* assigns provider->m_targets[target_id] unconditionally (line 957); only
\* beforeMigrationCallback's lookup, made without the mutex and before the
\* whole file transfer, keeps it from replacing a target the destination
\* already serves under that UUID.
EntryNeverReplaced ==
    [][\A p \in Provs, u \in UUIDs :
          targets[p][u] # None /\ targets'[p][u] # None => targets'[p][u] = targets[p][u]]_vars

\* Every RPC is answered: no handler waits forever on a mutex or on a
\* frozen target (AutoResponse responds on every path once the handler ends).
EveryRequestAnswered ==
    \A r \in Reqs : req[r].pc # "idle" ~> req[r].pc = "idle"

\* Every target frozen by startMigration is released again: whichever way
\* migrateTargetRPC leaves after startMigration (a HANDLE_REMI_ERROR return,
\* a cancelled or a committed migration), the MigrationHandle it holds is
\* destroyed, so no backend stays locked for the handlers waiting on it.
FrozenAt(i) == i \in DOMAIN be /\ Frozen(be[i])
MigrationReleasesTarget == \A i \in 1..MaxReqs : FrozenAt(i) ~> ~FrozenAt(i)

\* A target a client added and neither removed nor destroyed stays usable
\* somewhere: some provider registers it with a backend that is live or
\* frozen by an in-flight migration.  The spec (4.4) says a source-side
\* failure after startMigration cancels the handle and leaves it live.
TargetNotLost ==
    \A u \in owned :
        \E p \in Provs : Registered(p, u) /\ RegBackend(p, u).st \in {"live", "migrating"}

\* After a migration with removeSource that the destination completed (its
\* afterMigrationCallback returned 0 and inserted the target, so REMI
\* reports success and the handle commits), the source no longer resolves
\* the UUID: the spec (4.4, scenario 5) says check_target fails on the
\* source, while migrateTargetRPC never erases m_targets[target_id] (640).
MigratedOutNotVisible ==
    \A p, q \in Provs, u \in UUIDs :
        /\ p # q /\ Registered(p, u) /\ Registered(q, u)
        /\ RegBackend(p, u).st = "migrated" /\ RegBackend(p, u).rmsrc
        => ~Serving(RegBackend(q, u))

\* No two handlers touch the same registry at once with one of them writing:
\* m_targets is guarded by m_targets_mtx and m_transfer_managers by
\* m_transfer_managers_mtx (spec 4.3, 5), but beforeMigrationCallback reads
\* and afterMigrationCallback writes m_targets, and afterMigrationCallback
\* reads m_transfer_managers["__default__"], without them.
TargetsReader(r, p) ==
    \/ req[r].pc \in {"dt_check", "gc_lock_tms", "find"} /\ P(r) = p
    \/ req[r].pc = "cb_before_find" /\ Q(r) = p
TargetsWriter(r, p) ==
    \/ req[r].pc \in {"at_insert", "rt_erase", "dt_destroy"} /\ P(r) = p
    \/ req[r].pc = "cb_after_insert" /\ Q(r) = p
TmsReader(r, p) == req[r].pc = "cb_after_tm" /\ Q(r) = p /\ MergedTm(r) = NoTm
TmsWriter(r, p) == req[r].pc = "am_insert" /\ P(r) = p

RegistryRaceFree ==
    \A r1, r2 \in Reqs, p \in Provs :
        r1 # r2 =>
          /\ ~(TargetsWriter(r1, p) /\ (TargetsWriter(r2, p) \/ TargetsReader(r2, p)))
          /\ ~(TmsWriter(r1, p) /\ TmsReader(r2, p))

\* m_targets_mtx is never held across a backend call that waits (spec 5):
\* no handler holds it while waiting for a target frozen by a migration.
\* destroyTargetRPC calls target_entry->destroy() under the mutex.
NoStallUnderTargetsLock ==
    ~\E r \in Reqs : req[r].pc = "dt_destroy" /\ Frozen(BeOf(r))


-----------------------------------------------------------------------------
(* Refinement: the providers implement TargetDirectory                     *)

\* The backends of u: those registered, and the one a migration installed
\* until its source finishes (it may have been removed at the destination
\* already).  The newest of them is u's current copy: a migration appends
\* the destination's backend after the source's.
Installed(u) == {req[r].nb : r \in {r \in Reqs : req[r].u = u /\ req[r].pc = "mg_finish"
                                                 /\ req[r].nb # 0 /\ req[r].rc = 0}}
RegIdx(u) == {targets[p][u].be : p \in {p \in Provs : Registered(p, u)}} \cup Installed(u)
Newest(u) == CHOOSE i \in RegIdx(u) : \A j \in RegIdx(u) : j <= i

\* u is at home on the provider that registers its newest backend, while
\* that backend is live or frozen by a migration.
HomeOf(u) ==
    IF RegIdx(u) = {} \/ be[Newest(u)].st \notin {"live", "migrating"} THEN None
    ELSE IF \E p \in Provs : Registered(p, u) /\ targets[p][u].be = Newest(u)
    THEN CHOOSE p \in Provs : Registered(p, u) /\ targets[p][u].be = Newest(u)
    ELSE None

Dir == INSTANCE TargetDirectory WITH
    home    <- [u \in UUIDs |-> HomeOf(u)],
    content <- [u \in UUIDs |-> IF HomeOf(u) = None THEN NoRegions
                                ELSE be[Newest(u)].regions],
    frozen  <- {u \in UUIDs : HomeOf(u) # None /\ be[Newest(u)].st = "migrating"}

\* The interleaved handlers of all providers implement the directory: a
\* target moves between providers in one step (afterMigrationCallback's
\* insert) with its regions as the source held them when it was frozen,
\* region operations that found the target before startMigration never
\* land while it is frozen, and no erased region comes back.
DirectoryRefined == Dir!Spec

=============================================================================
