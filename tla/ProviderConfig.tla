---------------------------- MODULE ProviderConfig ----------------------------
(***************************************************************************)
(* The ProviderImpl constructor (src/src/ProviderImpl.hpp): the body that  *)
(* turns the JSON configuration into transfer managers and targets, racing *)
(* what can already reach the provider while it runs.                      *)
(*                                                                         *)
(* The RPCs are defined with the pool in the member initialisers, before   *)
(* the body, and the REMI migration class is registered at the top of the  *)
(* body: an add_target RPC and an incoming migration's before/after        *)
(* callbacks can therefore run between any two steps of the body.  Each    *)
(* mutex-protected section is a single step here; the unprotected accesses *)
(* (the count of "__default__" in the body, the operator[] of              *)
(* afterMigrationCallback) are steps of their own.                         *)
(*                                                                         *)
(* A configuration is a record: whether it parses and passes the schema,   *)
(* the REMI provider given (none, registration ok, registration fails),    *)
(* each declared transfer manager's status (absent, valid, invalid: its    *)
(* factory's validateConfig refuses it, broken: it validates but          *)
(* createTransferManager fails), and the targets array, each entry naming  *)
(* a transfer manager (or NoTm) with a status of the same kind.            *)
(***************************************************************************)
EXTENDS Naturals, Sequences, FiniteSets

CONSTANTS
    TMNames,    \* transfer-manager names
    Default,    \* "__default__"
    NoTm,       \* a target config without a transfer_manager field
    Configs     \* the configurations the provider may be given

ASSUME Default \in TMNames /\ NoTm \notin TMNames

Status  == {"valid", "invalid", "broken"}
TmSlot  == {"absent", "null", "ok"}     \* m_transfer_managers[name]
Sources == {"config", "rpc", "migration"}   \* where a registration comes from

VARIABLES
    cfg,    \* the configuration string, parsed or not
    cpc,    \* where the constructor body is
    pend,   \* transfer managers still to add (the second loop)
    ti,     \* index of the next target of the second targets loop
    tmap,   \* m_transfer_managers
    reg,    \* m_targets: [src, idx, tm] for each registered target
    rpc,    \* the add_target RPC: "idle" or "done"
    mig     \* the incoming migration: "idle", "after" or "done", and its tm

vars == <<cfg, cpc, pend, ti, tmap, reg, rpc, mig>>

Init ==
    /\ cfg \in Configs
    /\ cpc = "parse"
    /\ pend = {}
    /\ ti = 1
    /\ tmap = [n \in TMNames |-> "absent"]
    /\ reg = {}
    /\ rpc = "idle"
    /\ mig = [pc |-> "idle", tm |-> NoTm]

Declared(n) == cfg.tms[n] # "absent"
TmName(t)   == IF t.tm = NoTm THEN Default ELSE t.tm

-----------------------------------------------------------------------------
(* The constructor body                                                    *)

Ctor(from, to, ok) ==
    /\ cpc = from
    /\ cpc' = IF ok THEN to ELSE "threw"

\* json::parse of a non-empty config; a parse_error is rethrown.
CtorParse ==
    /\ Ctor("parse", "remi", cfg.parse)
    /\ UNCHANGED <<cfg, pend, ti, tmap, reg, rpc, mig>>

\* remi_provider_register_migration_class, when a REMI provider is given;
\* from here on a migration can reach the callbacks.
CtorRegisterRemi ==
    /\ Ctor("remi", "schema", cfg.remi # "fail")
    /\ UNCHANGED <<cfg, pend, ti, tmap, reg, rpc, mig>>

\* The valijson schema check.
CtorValidateSchema ==
    /\ Ctor("schema", "tm_validate", cfg.schema)
    /\ UNCHANGED <<cfg, pend, ti, tmap, reg, rpc, mig>>

\* First loop over transfer_managers: validateTransferManagerConfig.
CtorValidateTms ==
    /\ Ctor("tm_validate", "tm_add", \A n \in TMNames : cfg.tms[n] # "invalid")
    /\ pend' = {n \in TMNames : Declared(n)}
    /\ UNCHANGED <<cfg, ti, tmap, reg, rpc, mig>>

\* Mutant: the second loop throws when addTransferManager fails.
CtorAddTmChecked ==
    /\ cpc = "tm_add"
    /\ \E n \in pend :
         IF tmap[n] = "absent" /\ cfg.tms[n] = "valid"
           THEN /\ tmap' = [tmap EXCEPT ![n] = "ok"]
                /\ pend' = pend \ {n}
                /\ UNCHANGED cpc
           ELSE /\ cpc' = "threw"
                /\ UNCHANGED <<tmap, pend>>
    /\ UNCHANGED <<cfg, ti, reg, rpc, mig>>

\* Second loop: addTransferManager(key, type, config.dump()), its result
\* ignored.  Under m_transfer_managers_mtx a name already in the map is
\* refused, and createTransferManager of a broken manager fails.  The map
\* iterates in key order, which the model leaves open.
CtorAddTm ==
    /\ cpc = "tm_add"
    /\ \E n \in pend :
         /\ tmap' = IF tmap[n] = "absent" /\ cfg.tms[n] = "valid"
                      THEN [tmap EXCEPT ![n] = "ok"] ELSE tmap
         /\ pend' = pend \ {n}
    /\ UNCHANGED <<cfg, cpc, ti, reg, rpc, mig>>

\* m_transfer_managers.count("__default__") (line 302, without the mutex),
\* then addTransferManager("__default__", ...) under it (line 303) when the
\* name is absent.  One step: during construction the add_target RPC and the
\* migration callbacks only read m_transfer_managers, so no write can fall
\* between the unlocked count and the locked insert.
CtorAddDefault ==
    /\ cpc = "tm_add" /\ pend = {}
    /\ tmap' = IF tmap[Default] = "absent" THEN [tmap EXCEPT ![Default] = "ok"] ELSE tmap
    /\ cpc' = "tg_validate"
    /\ UNCHANGED <<cfg, pend, ti, reg, rpc, mig>>

\* First loop over targets: validateTargetConfig; no "targets" key is an
\* empty array.
CtorValidateTargets ==
    /\ Ctor("tg_validate", "tg_add", \A i \in DOMAIN cfg.tgs : cfg.tgs[i].st # "invalid")
    /\ UNCHANGED <<cfg, pend, ti, tmap, reg, rpc, mig>>

\* addTarget(type, json): TargetFactory::createTarget succeeded; under both
\* mutexes the named manager must be in the map (count), and its entry,
\* whatever it holds, is bound.
AddTargetBind(name, src, i) ==
    /\ IF tmap[name] # "absent"
         THEN reg' = reg \cup {[src |-> src, idx |-> i, tm |-> name]}
         ELSE UNCHANGED reg
    /\ UNCHANGED tmap

\* Second loop: addTarget(type, config.dump()), its result ignored: a
\* target whose backend cannot be created or whose manager is not in the
\* map is dropped and construction carries on.
CtorAddTarget ==
    /\ cpc = "tg_add" /\ ti <= Len(cfg.tgs)
    /\ LET t == cfg.tgs[ti] IN
         IF t.st = "valid" THEN AddTargetBind(TmName(t), "config", ti) ELSE UNCHANGED <<tmap, reg>>
    /\ ti' = ti + 1
    /\ UNCHANGED <<cfg, cpc, pend, rpc, mig>>

CtorReturn ==
    /\ cpc = "tg_add" /\ ti > Len(cfg.tgs)
    /\ cpc' = "done"
    /\ UNCHANGED <<cfg, pend, ti, tmap, reg, rpc, mig>>

-----------------------------------------------------------------------------
(* What runs concurrently with the body                                    *)

\* The provider object exists (RPCs defined, not unwound by a throw).
Alive == cpc # "threw"
MigrationOpen == Alive /\ cfg.remi = "ok" /\ cpc \notin {"parse", "remi"}

\* addTargetRPC with a valid config naming tm (or none).
RpcAddTarget ==
    /\ Alive /\ rpc = "idle"
    /\ \E tm \in TMNames \cup {NoTm} :
         AddTargetBind(IF tm = NoTm THEN Default ELSE tm, "rpc", 0)
    /\ rpc' = "done"
    /\ UNCHANGED <<cfg, cpc, pend, ti, mig>>

\* beforeMigrationCallback for a merged config naming tm (or none): a named
\* manager is looked up under the mutex and must exist (2); the UUID is new
\* and the backend accepts the config.
MigrateInBefore ==
    /\ MigrationOpen /\ mig.pc = "idle"
    /\ \E tm \in TMNames \cup {NoTm} :
         mig' = IF tm # NoTm /\ tmap[tm] = "absent"
                  THEN [pc |-> "done", tm |-> tm] ELSE [pc |-> "after", tm |-> tm]
    /\ UNCHANGED <<cfg, cpc, pend, ti, tmap, reg, rpc>>

\* afterMigrationCallback: the named manager via find(), or
\* m_transfer_managers["__default__"] without the mutex, which inserts a
\* null entry when the key is missing; then recoverTarget and the insert.
MigrateInAfter ==
    /\ mig.pc = "after"
    /\ LET name == IF mig.tm = NoTm THEN Default ELSE mig.tm IN
       /\ tmap' = IF tmap[name] = "absent" THEN [tmap EXCEPT ![name] = "null"] ELSE tmap
       /\ reg' = reg \cup {[src |-> "migration", idx |-> 0, tm |-> name]}
    /\ mig' = [mig EXCEPT !.pc = "done"]
    /\ UNCHANGED <<cfg, cpc, pend, ti, rpc>>

Finished == cpc \in {"done", "threw"} /\ UNCHANGED vars

Next ==
    \/ CtorParse \/ CtorRegisterRemi \/ CtorValidateSchema \/ CtorValidateTms
    \/ CtorAddTm \/ CtorAddDefault \/ CtorValidateTargets \/ CtorAddTarget
    \/ CtorReturn \/ RpcAddTarget \/ MigrateInBefore \/ MigrateInAfter
    \/ Finished

Spec == Init /\ [][Next]_vars

-----------------------------------------------------------------------------
(* Properties                                                              *)

TypeOK ==
    /\ cpc \in {"parse", "remi", "schema", "tm_validate", "tm_add",
                "tg_validate", "tg_add", "done", "threw"}
    /\ pend \subseteq TMNames
    /\ ti \in 1..(Len(cfg.tgs) + 1)
    /\ tmap \in [TMNames -> TmSlot]
    /\ reg \subseteq [src: Sources, idx: 0..Len(cfg.tgs), tm: TMNames]
    /\ rpc \in {"idle", "done"}
    /\ mig.pc \in {"idle", "after", "done"}

\* Every registered target -- from the configuration, from an add_target
\* RPC that arrived during construction, or migrated in -- is bound to a
\* transfer manager that was instantiated: addTarget's count check under
\* the mutexes against the body's unlocked count of "__default__" and
\* afterMigrationCallback's m_transfer_managers["__default__"].
BindingsResolve ==
    \A t \in reg : tmap[t.tm] = "ok"

\* A configuration in which everything declared validates and instantiates,
\* and every target names a declared manager or none.
Good(c) ==
    /\ c.parse /\ c.schema /\ c.remi # "fail"
    /\ \A n \in TMNames : c.tms[n] \in {"absent", "valid"}
    /\ \A i \in DOMAIN c.tgs :
         /\ c.tgs[i].st = "valid"
         /\ c.tgs[i].tm = NoTm \/ c.tms[c.tgs[i].tm] = "valid"

\* The constructor never refuses a good configuration, whatever add_target
\* RPCs and incoming migrations do meanwhile: once the body has validated
\* the configuration nothing that reaches the half-built provider can make
\* it throw (the second loops ignore the results of addTransferManager and
\* addTarget, which a concurrent callback can make fail).
GoodConfigAccepted ==
    cpc = "threw" => ~Good(cfg)

\* When the constructor returns normally every target of the configuration
\* is registered: spec 4.3 (step 7) and 7 make an unknown transfer_manager
\* reference a configuration error fatal to construction, while the second
\* targets loop ignores addTarget's result.
ConfiguredTargetsRegistered ==
    cpc = "done" => \A i \in DOMAIN cfg.tgs : \E t \in reg : t.src = "config" /\ t.idx = i

=============================================================================
