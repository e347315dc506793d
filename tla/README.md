# TLA+ models of the warabi provider

This directory holds TLA+ models of the warabi storage provider,
`src/src/ProviderImpl.hpp`, and of the MigrationHandle contract it relies on
(`src/unnamed/part_000`). TLC checks the models. The modules are translated from
the C++ handlers. `PROJECT.json` maps every definition to the lines it models.

## 1. Inventory

### Components

| Component | Source | State it keeps | Operations |
|---|---|---|---|
| Provider registry (admin) | `ProviderImpl.hpp` 131–547 | `m_targets` (UUID → TargetEntry, which is a shared_ptr to the backend plus its TransferManager), `m_transfer_managers` (name → manager), `m_targets_mtx`, `m_transfer_managers_mtx` | `add_target`, `remove_target`, `destroy_target`, `add_transfer_manager`, `getConfig`, and `FIND_TARGET` used by every data RPC |
| Data plane | `ProviderImpl.hpp` 643–840 | none of its own; it works through the backend | `check_target`, `create`, `write`, `write_eager`, `persist`, `create_write`, `create_write_eager`, `read`, `read_eager`, `erase` |
| Migration driver | `ProviderImpl.hpp` 548–641 (source), 842–961 (destination REMI callbacks) | the REMI fileset; the MigrationHandle | `migrate_target`, `beforeMigrationCallback`, `afterMigrationCallback` |
| Backend + MigrationHandle | `part_000`; the backends themselves are not in `src/` | regions, status, its own config | create/write/read/erase/persist/destroy, `startMigration`, `~MigrationHandle`, `cancel` |
| Constructor | `ProviderImpl.hpp` 202–320 | the initial configuration | parses and validates the configuration; adds the managers, `__default__`, then the targets. The RPCs and the REMI migration class are live before it finishes. |
| TransferManager | used at 687, 748, 800 | none visible to the provider | `pull`, `push` |
| Bedrock module | `BedrockModule.cpp` | none of its own; it owns the provider object | `registerProvider` (construct), `getProviderConfig` (→ `getConfig`), `deregisterProvider` (delete); client-side factory functions |
| Client, Defer, tests | `part_001`, `part_002`, `tests/` | none that is shared | RPC stubs, scope guard, tests |

### How the components interact

- Every RPC runs in its own Argobots ULT (user-level thread). Handlers of one
  provider share `m_targets` and `m_transfer_managers`.
- A handler looks up its target under `m_targets_mtx` and copies the
  `TargetEntry` (a shared_ptr). It then calls the backend **without** the lock.
- `migrate_target` on provider *p* calls `startMigration`. The returned
  MigrationHandle freezes the target: every backend call waits until the
  handle is gone.
  - The driver then builds a REMI fileset and calls `remi_fileset_migrate`.
  - REMI runs the destination's `beforeMigrationCallback` and
    `afterMigrationCallback` on provider *q*, inside a handler of *q*.
  - These callbacks read and write *q*'s maps.
- Destroying the handle without `cancel()` commits the migration. With
  `cancel()`, the target is live again.

### What makes it hard

- Handlers interleave at every mutex and every backend or transfer call.
- The migration is split across two providers and an unreliable transfer. A
  failure at any step must leave exactly one serving copy.
- The callbacks run at the destination, and they touch the maps without the
  mutexes.
- `destroy_target` calls the backend while holding `m_targets_mtx`.

### Properties that make it correct

- **Registry:** at most one provider serves a UUID. Every registered target
  is bound to a transfer manager that exists. No entry is ever replaced by
  another. The maps are never accessed
  concurrently with a writer.
- **Data plane:** nothing changes the source between the fileset snapshot
  and the handle's destruction.
- **Migration:**
  - A failed migration leaves the target live at the source.
  - A committed migration is no longer visible at the source.
- **Liveness:** every request is eventually answered, and every target a
  migration froze is eventually released.
- **Spec §5:** no backend call is made under `m_targets_mtx`.

## 2. Modules

| Module | Models | State (VARIABLES) |
|---|---|---|
| `Backend` | Backend records and the MigrationHandle contract, as operators over a record. `Frozen`, `StartMigration`, `CommitMigration` and `CancelMigration` come from `part_000`. Region semantics come from the spec (the backends are not in `src/`). | none |
| `Provider` (EXTENDS Backend) | the registry, admin RPCs and data-plane RPCs | `targets[p][u]` (an entry `[be, tm]` or `None`), `tms[p]`, `tmtx[p]` and `mmtx[p]` (owner slot or `None`), `be` (a sequence of backend records), `req[r]` (a request slot: its handler's pc and locals), `usedIds`, `owned`, `issued` |
| `Migration` (EXTENDS Provider) | `migrateTargetRPC`, both REMI callbacks, the REMI transfer as an environment step; the properties | same |
| `TargetDirectory` | abstract: what a client may rely on about a target (at home on at most one provider, moved in one step with its regions, region lifecycle while usable) | `home`, `content`, `frozen` |
| `ProviderConfig` | the constructor body, step by step, racing one `add_target` RPC and one incoming migration's callbacks | `cfg` (the configuration), `cpc` (constructor step), `pend`/`ti` (loop positions), `tmap` (`m_transfer_managers`: absent, null or instantiated), `reg` (registered targets and their binding), `rpc`, `mig` |
| `RegionSpans` | the byte level of the eager handlers on one region: `createRPC`, `createWriteEagerRPC`, `writeEagerRPC`, `readEagerRPC`, `eraseRPC`; the `size_t` span total of `read_eager` (`Accumulate`, a fold modulo 2^W); the backend's span-by-span copy in and out (`CopyIn`, `CopyOut`, from the spec) | `region` (its bytes, or none), `last` (the last handler's name, spans, success and reply bytes) |
| `ProviderRestart` (EXTENDS ProviderConfig) | the Bedrock host across one restart: `getProviderConfig` (`Snapshot` is `getConfig`'s JSON, targets in any iteration order), then `deregisterProvider` and `registerProvider` with the saved configuration, whose constructor again races an `add_target` RPC | ProviderConfig's, plus `saved` (the configuration read), `prev` (the maps it was read from), `restarts` |
| `MCMigration`, `MCProviderConfig`, `MCProviderRestart` | the operation sets, the configurations and the symmetry for TLC | — |

### Actions and the code they model

- **Request slots.** `Reqs` are handler ULTs. `Issue` starts an RPC in an idle
  slot, up to `MaxReqs` RPCs in total. Each handler is split into one action
  per atomic stretch of code, separated by its waits:
  - a lock acquisition (`...Lock` actions wait for `tmtx[p] = None`);
  - a backend call (`BackendCall`, which waits on `~Frozen`);
  - a transfer-manager pull or push.
  `Respond` models `AutoResponse`: it sends the reply and frees the slot.
- **Backends are never copied.** The shared_ptr semantics is kept by a
  `TargetEntry` that names a backend index in `be`, so:
  - a handler that copied an entry keeps using the backend after
    `remove_target` erased it;
  - the same object is seen by every copy.
- **Migration steps.**
  1. `MigrateLookup`, `MigrateStart` and `MigrateFileset` run on the source.
  2. `BeforeMigrationTm` and `BeforeMigrationFind` are the before-callback.
  3. `RemiTransfer` is the environment: the file transfer fails or succeeds.
  4. `AfterMigrationTm`, `AfterMigrationRecover` and `AfterMigrationInsert`
     are the after-callback.
  5. `MigrateFinish` destroys the handle and sends the reply.
  - Steps 2–4 run in the same request slot, on provider `q`. This is how
    REMI runs them: synchronously, while `remi_fileset_migrate` waits.
  - Every way out of `migrateTargetRPC` after `startMigration` releases
    the target: `MigrateFileset`'s `HANDLE_REMI_ERROR` return commits, and
    `MigrateFinish` cancels or commits.
  - `MigrateFinish` chooses nondeterministically whether REMI's reply is
    lost. If it is lost, the source sees an error even though the
    destination installed the target.
- **Abstractions.**
  - JSON configs are reduced to the one field the provider reads, the
    `transfer_manager` name (`BadJson` stands for an unparsable one).
  - Region contents are a single data value. Byte spans and offsets are not
    modelled.
  - Pull/push are a single step that succeeds or fails.
  - `Backend::destroy` may fail, leaving the storage as it was.
    `DestroyTargetDestroy` erases the entry either way, as line 470 does. A
    failed destroy therefore leaves exactly the state `remove_target` leaves,
    and `migration_admin` reaches no state it did not reach before.
- **Refinement.** `Migration` maps its state onto `TargetDirectory` (`Dir == INSTANCE TargetDirectory WITH ...`):
  - u's copy is the newest backend registered for it, or the one a migration installed while its source has not finished;
  - u is at home where that copy is registered, if it is live or frozen;
  - its content is that copy's regions, and it is frozen while the copy is `migrating`.
  The abstract `Adopt` admits the one consequence of spec §9's tolerance: a migration that captured a target later removed installs it elsewhere.
- **Constructor.** `ProviderConfig` enumerates every configuration (`MCProviderConfig`): parse/schema ok or not; REMI provider absent, registering or failing; each of two manager names absent, valid, invalid or broken (validates, then creation fails); up to two targets, each naming a manager or none, valid, invalid or broken. The order in which the manager loop visits names (key order in the code) is left open.
- **Byte spans.** `RegionSpans` keeps region bytes as a sequence over two
  data values, `Zero` (what `create` fills a region with) and `Garbage` (a
  byte the backend read from past the end of a request buffer, which is
  undefined behaviour: whatever lies there). Spans are `<<offset, size>>`
  pairs and may overlap. `Accumulate` is line 820's `std::accumulate` over the
  sizes, reduced modulo `2^W`. `BackendRead` allocates that many bytes and
  keeps the ones of `CopyOut` that fit.
- **Restart.** `ProviderRestart` takes the configuration getConfig returns as
  a record of the same shape as ProviderConfig's configurations: every
  manager in `m_transfer_managers` declared valid, every registered target
  valid and naming its bound manager. The backends' and managers' own
  `getConfig` are assumed to round-trip.
- **Termination.** `Quiescent` stutters once the request budget is spent.
  That is why TLC's deadlock check cannot see a request stuck on a mutex.
  `EveryRequestAnswered` (the liveness run) catches it instead.

## 3. Runs

All runs use two providers `{P1,P2}`, one UUID, two request slots, one region
id and one data value.

- **Two providers** are enough for migration in both directions, and for
  migration to self (`q = p`), which is the case that makes the callbacks
  touch the same maps as the RPC.
- **Two slots** give every pair interleaving of two handlers. This includes a
  migration racing any admin or data RPC on the same target.
- **One UUID** makes every pair of operations collide.

The `RegionSpans` runs use a region of at most two bytes, offsets and sizes
in 0..2, span lists of at most two spans, inline buffers of at most two bytes
over two data values. Two spans are enough for the cases that matter: an
overlap, a span past the end, and a zero-length span. The wrap needs a span
total of at least 2^W. That cannot happen at W = 3, the width of both runs, so the wrap
is recorded as a hazard (see Findings) and not checked. A third span multiplies the inputs per state
by about nine, and the run took 15 minutes without adding a new case.
The `ProviderRestart` run takes, as the first configuration, every
configuration that parses: up to two targets and two manager names, each
absent, valid, invalid or broken. The host restarts once, which is enough
for a round trip.

| Run | cfg | Expect | Checks | What it shows |
|---|---|---|---|---|
| migration_admin | `MCMigration_admin.cfg` | pass (≈259k states, 20 s) | `TypeOK`, `AtMostOneServingCopy`, `TMBindingValid`, `EntryNeverReplaced` | Admin RPCs, transfer-manager registration and migrations (including lost replies, bad JSON, unknown managers, migration to self, and failing `destroy()`) never produce two serving copies. Every registered target names an existing manager. No `m_targets` entry is ever replaced by another. `afterMigrationCallback` inserts unconditionally (line 957), and the before-callback's unlocked lookup (line 880), made before the whole transfer, is never stale by then. |
| every_request_answered | `MCMigration_live.cfg` | pass (≈134k states, 2½ min) | `EveryRequestAnswered`, `MigrationReleasesTarget` | Under strong fairness, every blocking RPC terminates, and every backend `startMigration` froze is unfrozen again, whichever return path `migrateTargetRPC` takes. The budget is 3 and uses only the blocking operations, to keep the run under five minutes. |
| failed_fileset_loses_target | `MCMigration_TargetNotLost.cfg` | violation | `TargetNotLost` | finding 1 |
| migrated_source_still_registered | `MCMigration_MigratedOutNotVisible.cfg` | violation | `MigratedOutNotVisible` | finding 2 |
| callbacks_race_registry | `MCMigration_RegistryRaceFree.cfg` | violation | `RegistryRaceFree` | finding 3 |
| destroy_stalls_under_lock | `MCMigration_NoStallUnderTargetsLock.cfg` | violation | `NoStallUnderTargetsLock` | finding 4 |
| directory_refinement | `MCMigration_directory.cfg` | pass (≈103k states with symmetry, under 4 min) | `DirectoryRefined` | Every region handler (create, write, write_eager, persist, create_write, create_write_eager, read, read_eager, erase), racing adds, removals and migrations (every failure, lost replies), implements `TargetDirectory`: a target moves in one step with its regions unchanged, so no handler suspended in lookup or pull modifies a target after its fileset snapshot was taken. |
| read_eager_spans | `RegionSpans.cfg` | pass (≈2k states, 8 s) | `TypeOK` | Fires every eager handler (create, create_write_eager, write_eager including short buffers, read_eager, erase) for the coverage of `RegionSpans`; the region never changes size. Its properties are the violation runs and the wrap hazard. |
| write_eager_short_buffer | `RegionSpans_NoForeignBytes.cfg` | violation | `NoForeignBytes` | finding 7 |
| restart_config_round_trip | `MCProviderRestart.cfg` | pass (≈391k states, 15 s) | `RTypeOK`, `GoodConfigAccepted`, `ConfigRoundTrip` | For every first configuration that parses (REMI provider absent, failing or present), an `add_target` RPC and a migration race both constructors. Nothing arriving during construction makes a fully valid configuration throw, and `getConfig`'s output (targets in every iteration order) is always valid. The rebuilt provider has the same managers and bindings (spec §8, config round-trip). |
| ctor_drops_configured_target | `MCProviderConfig_ConfiguredTargetsRegistered.cfg` | violation | `ConfiguredTargetsRegistered` | finding 5 |
| ctor_migration_null_default | `MCProviderConfig_BindingsResolve.cfg` | violation | `BindingsResolve` | finding 6 |

Symmetry over slots and providers is used in the safety runs. It is sound
there: no property or action names a particular slot or provider. It is not
used in the liveness run.

### Fairness

`Fairness == \A r \in Reqs : SF_vars(Step(r))`.

- An Argobots ULT that is ready is eventually scheduled.
- A ULT that waits on an ABT mutex, or on the backend's migration lock,
  acquires it once it is released infinitely often.

No fairness is assumed for issuing requests or for the environment beyond
the handlers' own steps. Failures (a REMI error, a lost reply, a failing
`destroy()`) are disjuncts of those steps. Fairness makes a handler take
some step, but it never forces the step to succeed, so the liveness
properties hold whatever fails.

### Findings

1. **A REMI error after `startMigration` loses the target.** Every
   `HANDLE_REMI_ERROR` between line 600 and line 632 returns without
   `mh->cancel()`. The handle then commits, so the source marks the target
   migrated (and removes it with `removeSource`), although no destination
   has it.
2. **A committed migration is never erased from the source's
   `m_targets`.** TLC's trace is a migration with `removeSource` that
   succeeds end to end: the destination's after-callback returns 0 and
   inserts the target, REMI reports success, and the handle commits. The
   destination now serves the UUID, yet the source's entry (line 640 never
   erases it) still resolves it, so the source still answers `check_target`. Migrating the
   target back to this provider later is refused by the before-callback.
   Spec scenario 5 says otherwise.
3. **The callbacks race the RPC handlers.** The callbacks use
   `m_targets` (lines 880, 957) and `m_transfer_managers` (line 926) without
   their mutexes, while RPC handlers modify them. This is a data race on
   `std::unordered_map`.
4. **`destroy_target` blocks under `m_targets_mtx`.** It calls `destroy()`
   while holding the mutex (line 469). If the target is being migrated, the
   whole provider stalls. This contradicts spec §5.

5. **The constructor silently drops configured targets.** The second
   targets loop ignores `addTarget`'s result (line 317). The transfer-manager
   loop ignores `addTransferManager`'s (line 300). A target naming an unknown
   or failed manager comes up missing, although spec §4.3 step 7 and §7 make
   that a fatal configuration error.
6. **A migration during construction installs a null default manager.** The
   REMI class is registered (line 253) before the managers are added. An
   `afterMigrationCallback` in between evaluates
   `m_transfer_managers["__default__"]` (line 926). This inserts a null
   pointer and binds the target to it. The unlocked `count` at line 302
   then skips creating the real default.

7. **`write_eager` trusts the span list over the buffer.** `writeEagerRPC`
   passes `buffer.data()` to `region->write` (line 709) and never compares
   `buffer.size()` with the spans' total. A request that sends fewer bytes
   than its spans cover makes the backend read past the request buffer.
   Server memory is stored in the region, and a later read returns it to
   clients.

**Hazard shown at reduced width: `read_eager`'s size can wrap.** `readEagerRPC` sums the span sizes in
`size_t` with no overflow check (line 820) and allocates that many bytes.
`region->read` then copies every span into the buffer. Spans may
overlap, so each span can pass the backend's bound check while the total
passes `SIZE_MAX`. Scaled down to a 2-bit `size_t` (`W = 2`), two spans
`(0,2),(0,2)` of a 2-byte region allocate 0 bytes and `BackendRead` copies 4 into them.
At 64 bits the same needs a span list of about 2^64 / (region size)
entries, for example 2^24 spans of a 1 TiB region. That is a large but
well-formed request, and the result is a heap overflow on the server.
No run checks this case: both `RegionSpans` runs use W = 3, where two
bounded spans cannot wrap. The hazard list records the wrap at line 820.

The mutants show that the obvious fixes are not enough:

- **Cancelling on every error** (`MigrateFinishCancelOnError`) creates two
  serving copies when REMI's reply is lost.
- **Throwing when `addTransferManager` fails in the constructor**
  (`CtorAddTmChecked`, the obvious fix for finding 5) makes a fully valid
  configuration that declares `__default__` fail. This happens whenever a
  migration has inserted the null entry first.
- **Taking `m_targets_mtx` in the before-callback**
  (`BeforeMigrationFindLocked`) deadlocks a migration to self with a
  concurrent `destroy_target`.

## 4. Not modelled

- **The client-side half of `BedrockModule.cpp`** (`initClient`,
  `finalizeClient`, `getClientConfig`, `createProviderHandle`,
  `destroyProviderHandle`, the dependency lists), **the client stubs
  (`part_001`), `Defer` (`part_002`) and the tests.** They create and delete
  objects that share no state with a provider, so there is nothing for TLC
  to check. The provider half (`registerProvider`, `getProviderConfig`,
  `deregisterProvider`) is modelled in `ProviderRestart`.
- **A restart while a handler or a REMI callback is still running.**
  `deregisterProvider` deletes the provider regardless, which is a
  use-after-free. `ProviderRestart` restarts only when no callback is in
  flight.
- **The config round trip after finding 6.** A migration that reaches the
  rebuilt provider's callbacks before its managers exist installs the null
  default, after which the round trip fails in the same way as finding 6.
  `ConfigRoundTrip` is therefore stated for states without a null manager.
  `getProviderConfig` on such a provider dereferences the null pointer, so
  `GetProviderConfig` is not enabled there.
- **A failed `create_write` leaks its region** (lines 750–756). The region
  is created, the pull fails, and the reply carries only the error, so no
  client learns the region id. The spec says nothing about cleanup, so no
  property states it. `CreateWritePull` leaves the region in place, as the
  code does.
- **The concrete backends and TransferManager internals.** They are not in
  `src/`, so the backend is taken from the spec at region granularity.
- **Exceptions escaping a handler** (e.g. `m_engine.lookup` throwing). Their
  effect depends on thallium.
- **Handlers still running when the constructor throws.** `ProviderConfig`
  stops the concurrent actors once the constructor throws (`Alive`). A
  handler that is still running on the object being destroyed is a
  use-after-free, which the model cannot represent.

## 5. Plan for later work

Done so far:
- first sitting: `Backend`, `Provider`, `Migration`;
- second sitting: `ProviderConfig` and the `TargetDirectory` refinement;
- third sitting: `RegionSpans` and the `ProviderRestart` composition;
- fourth sitting: `MigrationReleasesTarget` (liveness of the migration lock),
  `EntryNeverReplaced` (an action property on `afterMigrationCallback`'s
  unconditional insert), and `destroy()` failure in `DestroyTargetDestroy`.

Open, in order of importance:

1. **Restart after a migration.** Compose `ProviderRestart` with the source
   side of `Migration`. Finding 2's stale entry is listed by `getConfig`, so
   a restarted source recreates the migrated target from its config under a
   new UUID. This is a consequence of finding 2, and it needs a violation
   run of its own.
2. **`remove_target` racing a migration (line 447).** TLC shows that a
   migration which found the target before `remove_target` erased it still
   installs the target at the destination, after `remove_target` answered
   ok. To reproduce, check
   `\A u \in usedIds \ owned, p \in Provs : ~Registered(p, u)` under
   `MCMigration_admin.cfg`. Spec §9 tolerates operations that already
   captured the entry, and the refinement admits the result as
   `TargetDirectory`'s `Adopt`. No property forbids it.
3. **Larger bounds.** Three request slots in the admin run pass 846k
   distinct states within the first minute and still grow, which is beyond
   the five-minute budget of a run. Two slots already give every pairwise
   race, and the runs use two.
