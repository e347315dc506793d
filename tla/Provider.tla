------------------------------ MODULE Provider ------------------------------
(***************************************************************************)
(* warabi::ProviderImpl (src/src/ProviderImpl.hpp): the target registry    *)
(* m_targets, the transfer-manager registry m_transfer_managers, their two *)
(* tl::mutex, and the RPC handlers, for a set Provs of providers.          *)
(*                                                                         *)
(* Each RPC is served by a request slot of Reqs (a ULT of the provider's   *)
(* pool).  A handler is split into one action per step that another ULT    *)
(* can observe: a mutex acquisition (it may block), the work done under    *)
(* the mutex, and each backend or transfer-manager call (it may block on   *)
(* a MigrationHandle).  Responding returns the slot to "idle".  Target and *)
(* region ids are model values; backends live in the sequence be and      *)
(* m_targets maps a UUID to a TargetEntry [be, tm] that points into it, so *)
(* a handler that copied an entry keeps using the backend after the entry  *)
(* is erased, as the shared_ptr does.                                      *)
(***************************************************************************)
EXTENDS Backend, Naturals, Sequences, FiniteSets

CONSTANTS
    Provs,      \* providers
    UUIDs,      \* target ids UUID::generate can return (fresh each time)
    Reqs,       \* request slots (concurrent handler ULTs)
    Default,    \* the "__default__" transfer manager
    None,       \* "no value": an empty map slot, a free mutex
    Ops,        \* the RPCs clients issue in a run
    MaxReqs     \* bound on the number of requests clients issue

ASSUME Default \in TMNames /\ MaxReqs \in Nat

VARIABLES
    targets,    \* targets[p][u]: the TargetEntry of m_targets, or None
    tms,        \* tms[p]: the names in m_transfer_managers
    tmtx,       \* tmtx[p]: the slot holding m_targets_mtx, or None
    mmtx,       \* mmtx[p]: the slot holding m_transfer_managers_mtx, or None
    be,         \* the backends ever created
    req,        \* req[r]: what slot r is doing
    usedIds,    \* UUIDs already generated
    owned,      \* history: targets added and not removed or destroyed
    issued      \* number of requests issued so far

vars == <<targets, tms, tmtx, mmtx, be, req, usedIds, owned, issued>>

Entry == [be: Nat \ {0}, tm: TMNames]

(* A request slot.  Fields an RPC does not use stay at their idle value.   *)
IdleReq == [op |-> "none", pc |-> "idle", p |-> None, u |-> None, rid |-> None,
            d |-> None, tm |-> None, ent |-> None, q |-> None, rs |-> FALSE,
            x |-> None, fs |-> None, nb |-> 0, rc |-> 0, rret |-> FALSE]

Call(op, p, pc) == [IdleReq EXCEPT !.op = op, !.p = p, !.pc = pc]

Init ==
    \* ProviderImpl constructor with an empty configuration: only the
    \* auto-added "__default__" transfer manager.
    /\ targets = [p \in Provs |-> [u \in UUIDs |-> None]]
    /\ tms = [p \in Provs |-> {Default}]
    /\ tmtx = [p \in Provs |-> None]
    /\ mmtx = [p \in Provs |-> None]
    /\ be = <<>>
    /\ req = [r \in Reqs |-> IdleReq]
    /\ usedIds = {}
    /\ owned = {}
    /\ issued = 0

-----------------------------------------------------------------------------
(* Helpers                                                                 *)

P(r)   == req[r].p
Ent(r) == req[r].ent
BeOf(r) == be[req[r].ent.be]

Goto(r, pc) == req' = [req EXCEPT ![r].pc = pc]
Respond(r)  == req' = [req EXCEPT ![r] = IdleReq]   \* AutoResponse fires
Lock(m, r)   == m' = [m EXCEPT ![P(r)] = r]
Unlock(m, r) == m' = [m EXCEPT ![P(r)] = None]
SetBackend(i, b) == be' = [be EXCEPT ![i] = b]

-----------------------------------------------------------------------------
(* Requests from clients                                                   *)

Issue(r, rq) ==
    /\ req[r].pc = "idle"
    /\ issued < MaxReqs
    /\ rq.op \in Ops
    /\ req' = [req EXCEPT ![r] = rq]
    /\ issued' = issued + 1

IssueProvider(r) ==
    \E p \in Provs :
      \/ \E u \in UUIDs \ usedIds, tm \in TMNames \cup {NoTm} :
            /\ Issue(r, [Call("add_target", p, "at_validate") EXCEPT !.u = u, !.tm = tm])
            /\ usedIds' = usedIds \cup {u}
      \/ \E n \in TMNames :
            /\ Issue(r, [Call("add_transfer_manager", p, "am_validate") EXCEPT !.tm = n])
            /\ UNCHANGED usedIds
      \/ /\ Issue(r, Call("get_config", p, "gc_lock_targets"))
         /\ UNCHANGED usedIds
      \/ \E u \in usedIds :
            /\ \/ Issue(r, [Call("remove_target", p, "rt_lock") EXCEPT !.u = u])
               \/ Issue(r, [Call("destroy_target", p, "dt_lock") EXCEPT !.u = u])
               \/ \E op \in {"check_target", "create", "create_write_eager"},
                     d \in Data :
                    Issue(r, [Call(op, p, "find_lock") EXCEPT !.u = u, !.d = d])
               \/ \E op \in {"write", "write_eager", "persist", "read",
                             "read_eager", "erase"},
                     rid \in RegionIDs, d \in Data :
                    Issue(r, [Call(op, p, "find_lock") EXCEPT !.u = u, !.rid = rid, !.d = d])
               \/ \E d \in Data :
                    Issue(r, [Call("create_write", p, "find_lock") EXCEPT !.u = u, !.d = d])
            /\ UNCHANGED usedIds
    /\ UNCHANGED <<targets, tms, tmtx, mmtx, be, owned>>

-----------------------------------------------------------------------------
(* Admin RPCs                                                              *)

\* addTarget(type, string config): the JSON parse, validateTargetConfig and
\* TargetFactory::createTarget may each reject the request.
AddTargetValidate(r) ==
    /\ req[r].pc = "at_validate"
    /\ \/ Respond(r)
       \/ Goto(r, "at_lock_targets")
    /\ UNCHANGED <<targets, tms, tmtx, mmtx, be, usedIds, owned, issued>>

AddTargetLockTargets(r) ==
    /\ req[r].pc = "at_lock_targets"
    /\ tmtx[P(r)] = None
    /\ Lock(tmtx, r)
    /\ Goto(r, "at_insert")
    /\ UNCHANGED <<targets, tms, mmtx, be, usedIds, owned, issued>>

\* With m_targets_mtx held, take m_transfer_managers_mtx, resolve the
\* transfer_manager named by the config (default "__default__") and insert.
AddTargetInsert(r) ==
    LET p  == P(r)
        tm == IF req[r].tm = NoTm THEN Default ELSE req[r].tm
    IN
    /\ req[r].pc = "at_insert"
    /\ mmtx[p] = None
    /\ IF tm \notin tms[p]
         THEN UNCHANGED <<targets, be, owned>>
         ELSE /\ be' = Append(be, NewBackend(req[r].tm))
              /\ targets' = [targets EXCEPT ![p][req[r].u] =
                                [be |-> Len(be) + 1, tm |-> tm]]
              /\ owned' = owned \cup {req[r].u}
    /\ Unlock(tmtx, r)
    /\ Respond(r)
    /\ UNCHANGED <<tms, mmtx, usedIds, issued>>

RemoveTargetLock(r) ==
    /\ req[r].pc = "rt_lock"
    /\ tmtx[P(r)] = None
    /\ Lock(tmtx, r)
    /\ Goto(r, "rt_erase")
    /\ UNCHANGED <<targets, tms, mmtx, be, usedIds, owned, issued>>

RemoveTargetErase(r) ==
    /\ req[r].pc = "rt_erase"
    /\ IF targets[P(r)][req[r].u] = None
         THEN UNCHANGED <<targets, owned>>
         ELSE /\ targets' = [targets EXCEPT ![P(r)][req[r].u] = None]
              /\ owned' = owned \ {req[r].u}
    /\ Unlock(tmtx, r)
    /\ Respond(r)
    /\ UNCHANGED <<tms, mmtx, be, usedIds, issued>>

DestroyTargetLock(r) ==
    /\ req[r].pc = "dt_lock"
    /\ tmtx[P(r)] = None
    /\ Lock(tmtx, r)
    /\ Goto(r, "dt_check")
    /\ UNCHANGED <<targets, tms, mmtx, be, usedIds, owned, issued>>

DestroyTargetCheck(r) ==
    LET e == targets[P(r)][req[r].u] IN
    /\ req[r].pc = "dt_check"
    /\ IF e = None
         THEN /\ Unlock(tmtx, r)
              /\ Respond(r)
         ELSE /\ req' = [req EXCEPT ![r].ent = e, ![r].pc = "dt_destroy"]
              /\ UNCHANGED tmtx
    /\ UNCHANGED <<targets, tms, mmtx, be, usedIds, owned, issued>>

\* target_entry->destroy() is called with m_targets_mtx still held; it waits
\* for a live MigrationHandle.  It may fail (the storage cannot be freed),
\* and fails on a migrated or destroyed target.  The entry is erased
\* whatever destroy returns.
DestroyTargetDestroy(r) ==
    /\ req[r].pc = "dt_destroy"
    /\ ~Frozen(BeOf(r))
    /\ \/ Serving(BeOf(r)) /\ SetBackend(Ent(r).be, DestroyBackend(BeOf(r)))
       \/ UNCHANGED be
    /\ targets' = [targets EXCEPT ![P(r)][req[r].u] = None]
    /\ owned' = owned \ {req[r].u}
    /\ Unlock(tmtx, r)
    /\ Respond(r)
    /\ UNCHANGED <<tms, mmtx, usedIds, issued>>

\* addTransferManager(name, type, string config): parse and validate.
AddTransferManagerValidate(r) ==
    /\ req[r].pc = "am_validate"
    /\ \/ Respond(r)
       \/ Goto(r, "am_lock")
    /\ UNCHANGED <<targets, tms, tmtx, mmtx, be, usedIds, owned, issued>>

AddTransferManagerLock(r) ==
    /\ req[r].pc = "am_lock"
    /\ mmtx[P(r)] = None
    /\ Lock(mmtx, r)
    /\ Goto(r, "am_insert")
    /\ UNCHANGED <<targets, tms, tmtx, be, usedIds, owned, issued>>

\* A duplicate name is refused; TransferManagerFactory::createTransferManager
\* may still fail.
AddTransferManagerInsert(r) ==
    /\ req[r].pc = "am_insert"
    /\ \/ UNCHANGED tms
       \/ /\ req[r].tm \notin tms[P(r)]
          /\ tms' = [tms EXCEPT ![P(r)] = @ \cup {req[r].tm}]
    /\ Unlock(mmtx, r)
    /\ Respond(r)
    /\ UNCHANGED <<targets, tmtx, be, usedIds, owned, issued>>

\* getConfig, called by the host container: both mutexes in the order
\* targets then transfer managers.
GetConfigLockTargets(r) ==
    /\ req[r].pc = "gc_lock_targets"
    /\ tmtx[P(r)] = None
    /\ Lock(tmtx, r)
    /\ Goto(r, "gc_lock_tms")
    /\ UNCHANGED <<targets, tms, mmtx, be, usedIds, owned, issued>>

GetConfigRead(r) ==
    /\ req[r].pc = "gc_lock_tms"
    /\ mmtx[P(r)] = None
    /\ Unlock(tmtx, r)
    /\ Respond(r)
    /\ UNCHANGED <<targets, tms, mmtx, be, usedIds, owned, issued>>

-----------------------------------------------------------------------------
(* Client RPCs: FIND_TARGET, then the backend and transfer-manager calls   *)

\* The step each RPC takes once FIND_TARGET copied the entry out.
AfterFind(op) ==
    CASE op = "check_target"         -> "idle"
      [] op = "create"               -> "create"
      [] op = "create_write"         -> "cw_create"
      [] op = "create_write_eager"   -> "cwe"
      [] op = "write"                -> "w_region"
      [] op = "write_eager"          -> "we"
      [] op = "persist"              -> "persist"
      [] op = "read"                 -> "r_region"
      [] op = "read_eager"           -> "re"
      [] op = "erase"                -> "erase"
      [] op = "migrate_target"       -> "mg_start"

FindTargetLock(r) ==
    /\ req[r].pc = "find_lock"
    /\ tmtx[P(r)] = None
    /\ Lock(tmtx, r)
    /\ Goto(r, "find")
    /\ UNCHANGED <<targets, tms, mmtx, be, usedIds, owned, issued>>

\* Look the target up, copy its entry, release m_targets_mtx.  An unknown
\* UUID answers "not found".
FindTarget(r) ==
    LET e == targets[P(r)][req[r].u] IN
    /\ req[r].pc = "find"
    /\ Unlock(tmtx, r)
    /\ IF e = None \/ AfterFind(req[r].op) = "idle"
         THEN Respond(r)
         ELSE req' = [req EXCEPT ![r].ent = e, ![r].pc = AfterFind(req[r].op)]
    /\ UNCHANGED <<targets, tms, mmtx, be, usedIds, owned, issued>>

\* A backend call on the copied entry's target: it waits while a
\* MigrationHandle of the target is live; it fails (the handler responds
\* with the error) once the target is migrated or destroyed, or when the
\* region is missing.
BackendCall(r) == ~Frozen(BeOf(r))
RegionOk(r)    == Serving(BeOf(r)) /\ HasRegion(BeOf(r), req[r].rid)

\* Set a region of the copied entry's target.
PutRegion(r, rid, v) == SetBackend(Ent(r).be, [BeOf(r) EXCEPT !.regions[rid] = v])

\* Backend::create mints a fresh region (fails on a stopped target, or when
\* the model's RegionIDs are used up).
CreateOk(r) == Serving(BeOf(r)) /\ FreeRegionIDs(BeOf(r)) # {}

CreateRegion(r, v, next) ==
    /\ BackendCall(r)
    /\ IF CreateOk(r)
         THEN \E rid \in FreeRegionIDs(BeOf(r)) :
                /\ PutRegion(r, rid, v)
                /\ IF next = "idle" THEN Respond(r)
                   ELSE req' = [req EXCEPT ![r].rid = rid, ![r].pc = next]
         ELSE Respond(r) /\ UNCHANGED be

Unch == UNCHANGED <<targets, tms, tmtx, mmtx, usedIds, owned, issued>>

\* createRPC: (*target)->create(size), answer its region id.
Create(r) ==
    /\ req[r].pc = "create" /\ CreateRegion(r, "zero", "idle") /\ Unch

\* createWriteRPC: create the region, then pull the bulk into it.
CreateWriteCreate(r) ==
    /\ req[r].pc = "cw_create" /\ CreateRegion(r, "zero", "cw_pull") /\ Unch

\* createWriteEagerRPC: create, then region->write of the inline buffer.  A
\* failed write answers the error but leaves the new region, still zeroed.
CreateWriteEager(r) ==
    /\ req[r].pc = "cwe"
    /\ \/ CreateRegion(r, req[r].d, "idle")
       \/ CreateRegion(r, "zero", "idle")
    /\ Unch

\* writeRPC: (*target)->write(region_id, persist) returns a region handle.
WriteGetRegion(r) ==
    /\ req[r].pc = "w_region"
    /\ BackendCall(r)
    /\ IF RegionOk(r) THEN Goto(r, "w_pull") ELSE Respond(r)
    /\ UNCHANGED be /\ Unch

\* writeRPC, then m_transfer_manager->pull into the handle; the bulk
\* transfer may fail.
WritePull(r) ==
    /\ req[r].pc = "w_pull"
    /\ BackendCall(r)
    /\ \/ UNCHANGED be
       \/ RegionOk(r) /\ PutRegion(r, req[r].rid, req[r].d)
    /\ Respond(r) /\ Unch

\* Mutant: the pull into the freshly created region does not wait for a
\* MigrationHandle taken since the create.
CreateWritePullNoWait(r) ==
    /\ req[r].pc = "cw_pull"
    /\ \/ UNCHANGED be
       \/ HasRegion(BeOf(r), req[r].rid) /\ BeOf(r).st \in {"live", "migrating"}
          /\ PutRegion(r, req[r].rid, req[r].d)
    /\ Respond(r) /\ Unch

\* createWriteRPC, second half: pull {{0, size}}.  When it fails the
\* region stays allocated and the client gets an error, not its id.
CreateWritePull(r) ==
    /\ req[r].pc = "cw_pull"
    /\ BackendCall(r)
    /\ \/ UNCHANGED be
       \/ RegionOk(r) /\ PutRegion(r, req[r].rid, req[r].d)
    /\ Respond(r) /\ Unch

\* writeEagerRPC: write(region_id, persist), then region->write(buffer).
WriteEager(r) ==
    /\ req[r].pc = "we"
    /\ BackendCall(r)
    /\ IF RegionOk(r) THEN PutRegion(r, req[r].rid, req[r].d) ELSE UNCHANGED be
    /\ Respond(r) /\ Unch

\* persistRPC: write(region_id, true), then region->persist(spans); the
\* model does not tell durable from volatile bytes.
Persist(r) ==
    /\ req[r].pc = "persist"
    /\ BackendCall(r)
    /\ Respond(r) /\ UNCHANGED be /\ Unch

\* readRPC: (*target)->read(region_id), then m_transfer_manager->push.
ReadGetRegion(r) ==
    /\ req[r].pc = "r_region"
    /\ BackendCall(r)
    /\ IF RegionOk(r) THEN Goto(r, "r_push") ELSE Respond(r)
    /\ UNCHANGED be /\ Unch

ReadPush(r) ==
    /\ req[r].pc = "r_push"
    /\ BackendCall(r)
    /\ Respond(r) /\ UNCHANGED be /\ Unch

\* readEagerRPC: read(region_id), then region->read into the response.
ReadEager(r) ==
    /\ req[r].pc = "re"
    /\ BackendCall(r)
    /\ Respond(r) /\ UNCHANGED be /\ Unch

\* eraseRPC: (*target)->erase(region_id).
Erase(r) ==
    /\ req[r].pc = "erase"
    /\ BackendCall(r)
    /\ IF RegionOk(r) THEN PutRegion(r, req[r].rid, "erased") ELSE UNCHANGED be
    /\ Respond(r) /\ Unch

-----------------------------------------------------------------------------
(* One step of a request slot, other than being issued                     *)

ProviderStep(r) ==
    \/ AddTargetValidate(r) \/ AddTargetLockTargets(r) \/ AddTargetInsert(r)
    \/ RemoveTargetLock(r) \/ RemoveTargetErase(r)
    \/ DestroyTargetLock(r) \/ DestroyTargetCheck(r) \/ DestroyTargetDestroy(r)
    \/ AddTransferManagerValidate(r) \/ AddTransferManagerLock(r)
    \/ AddTransferManagerInsert(r)
    \/ GetConfigLockTargets(r) \/ GetConfigRead(r)
    \/ FindTargetLock(r) \/ FindTarget(r)
    \/ Create(r) \/ CreateWriteCreate(r) \/ CreateWritePull(r) \/ CreateWriteEager(r)
    \/ WriteGetRegion(r) \/ WritePull(r) \/ WriteEager(r) \/ Persist(r)
    \/ ReadGetRegion(r) \/ ReadPush(r) \/ ReadEager(r) \/ Erase(r)

=============================================================================
