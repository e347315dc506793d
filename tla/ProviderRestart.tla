--------------------------- MODULE ProviderRestart ---------------------------
(***************************************************************************)
(* A provider hosted by Bedrock (src/src/BedrockModule.cpp) across one     *)
(* restart: the host reads the provider's configuration through            *)
(* getProviderConfig (ProviderImpl::getConfig), deletes it                 *)
(* (deregisterProvider) and registers a new provider with that             *)
(* configuration (registerProvider), whose constructor, ProviderConfig,   *)
(* again races an add_target RPC and an incoming migration.  The restart  *)
(* ends the old provider's actors; the new one gets its own.               *)
(*                                                                         *)
(* getConfig lists every registered target with its bound manager's name   *)
(* in config.transfer_manager, in the unordered_map's iteration order, and *)
(* every manager of m_transfer_managers, __default__ included.  A target's *)
(* and a manager's own configuration round-trip through their getConfig,   *)
(* so they come back valid.  The REMI provider is an argument of the       *)
(* factory, not part of the configuration: it is the same after restart.   *)
(***************************************************************************)
EXTENDS ProviderConfig
LOCAL INSTANCE SequencesExt

CONSTANT MaxRestarts

VARIABLES
    saved,      \* the configuration getProviderConfig returned: {} or {c}
    prev,       \* the provider state it was read from: {} or {[tmap, reg]}
    restarts    \* how many times the host has re-registered the provider

allVars == <<vars, saved, prev, restarts>>

RInit == Init /\ saved = {} /\ prev = {} /\ restarts = 0

\* Mutant: getConfig leaves the implicit __default__ manager out.
SnapshotNoDefault(order) ==
    [parse |-> TRUE, schema |-> TRUE, remi |-> cfg.remi,
     tms |-> [n \in TMNames |-> IF tmap[n] = "ok" /\ n # Default THEN "valid" ELSE "absent"],
     tgs |-> [i \in DOMAIN order |-> [tm |-> order[i].tm, st |-> "valid"]]]

\* Mutant: getConfig leaves out config.transfer_manager of each target.
SnapshotNoTmName(order) ==
    [parse |-> TRUE, schema |-> TRUE, remi |-> cfg.remi,
     tms |-> [n \in TMNames |-> IF tmap[n] = "ok" THEN "valid" ELSE "absent"],
     tgs |-> [i \in DOMAIN order |-> [tm |-> NoTm, st |-> "valid"]]]

\* The JSON getConfig builds from the maps, the targets in the given order.
Snapshot(order) ==
    [parse |-> TRUE, schema |-> TRUE, remi |-> cfg.remi,
     tms |-> [n \in TMNames |-> IF tmap[n] = "ok" THEN "valid" ELSE "absent"],
     tgs |-> [i \in DOMAIN order |-> [tm |-> order[i].tm, st |-> "valid"]]]

\* getProviderConfig -> getConfig, under both mutexes, once the provider
\* is registered.  pair.second->name() on a null manager would crash the
\* process; no state follows that, so the step requires none.
GetProviderConfig ==
    /\ cpc = "done" /\ restarts < MaxRestarts
    /\ \A n \in TMNames : tmap[n] # "null"
    /\ \E order \in SetToSeqs(reg) : saved' = {Snapshot(order)}
    /\ prev' = {[tmap |-> tmap, reg |-> reg]}
    /\ UNCHANGED <<vars, restarts>>

\* deregisterProvider deletes the provider; registerProvider constructs a
\* new one from the saved configuration.  The host does this when no
\* handler of the old provider is running.
Restart ==
    /\ cpc = "done" /\ saved # {} /\ restarts < MaxRestarts
    /\ mig.pc # "after"
    /\ \E c \in saved : cfg' = c
    /\ cpc' = "parse" /\ pend' = {} /\ ti' = 1
    /\ tmap' = [n \in TMNames |-> "absent"] /\ reg' = {}
    /\ rpc' = "idle" /\ mig' = [pc |-> "idle", tm |-> NoTm]
    /\ restarts' = restarts + 1
    /\ UNCHANGED <<saved, prev>>

RNext ==
    \/ Next /\ UNCHANGED <<saved, prev, restarts>>
    \/ GetProviderConfig
    \/ Restart

RSpec == RInit /\ [][RNext]_allVars

-----------------------------------------------------------------------------
(* Properties                                                              *)

\* The types of both lifetimes, and getProviderConfig's output is a configuration the
\* constructor accepts as fully valid (every target names a declared manager).
RTypeOK ==
    /\ TypeOK
    /\ restarts \in 0..MaxRestarts
    /\ \A c \in saved : Good(c)

\* How many targets of R are bound to each manager name.
Bound(R) == [n \in TMNames |-> Cardinality({t \in R : t.tm = n})]

\* Spec 8, config round-trip: once the constructor of the provider rebuilt
\* from getConfig's output returns, it has the same transfer managers, and
\* its configured targets the same bindings, as the provider getConfig
\* read -- whether those targets were configured, added by an RPC or
\* migrated in during its construction, whatever order getConfig listed
\* them in, and whatever add_target RPCs and migrations reach the rebuilt
\* provider meanwhile, unless one of them inserted the null __default__ of
\* afterMigrationCallback (ctor_migration_null_default).
ConfigRoundTrip ==
    restarts > 0 /\ cpc = "done" /\ (\A n \in TMNames : tmap[n] # "null") =>
      \A p \in prev :
        /\ tmap = p.tmap
        /\ Bound({t \in reg : t.src = "config"}) = Bound(p.reg)

=============================================================================
