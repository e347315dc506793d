------------------------------- MODULE Backend -------------------------------
(***************************************************************************)
(* The storage backend of a warabi target, and the MigrationHandle it      *)
(* hands out, as the provider sees them.                                   *)
(*                                                                         *)
(* The concrete backends (memory, pmdk, abt-io) live outside this          *)
(* repository's sources; what the provider relies on is the Backend        *)
(* interface and the MigrationHandle contract of                           *)
(* src/unnamed/part_000: a live handle locks every access to the target,   *)
(* destroying it without cancel() marks the target as migrated (and, with  *)
(* removeSource, removes its storage), cancel() restores normal operation. *)
(*                                                                         *)
(* A backend is a record: its status, the content of each region (a data  *)
(* value, "zero" for a freshly created region, "absent" for a region id    *)
(* never minted, "erased"), the transfer_manager named in its own config,  *)
(* and the removeSource flag of the live MigrationHandle.                  *)
(***************************************************************************)
CONSTANTS
    RegionIDs,   \* region ids a backend can mint
    Data,        \* payloads a client can write
    TMNames,     \* transfer-manager names
    NoTm         \* "the config has no transfer_manager field"

ASSUME NoTm \notin TMNames

BeStates  == {"live", "migrating", "migrated", "destroyed"}
RegionVal == {"absent", "erased", "zero"} \cup Data

BackendRec ==
    [st: BeStates, regions: [RegionIDs -> RegionVal],
     tm: TMNames \cup {NoTm}, rmsrc: BOOLEAN]

NoRegions == [r \in RegionIDs |-> "absent"]

\* TargetFactory::createTarget: a fresh backend whose config carries the
\* transfer_manager field the client passed (or none).
NewBackend(tm) == [st |-> "live", regions |-> NoRegions, tm |-> tm, rmsrc |-> FALSE]

\* TargetFactory::recoverTarget: a backend rebuilt from the migrated files.
RecoverBackend(tm, regions) ==
    [st |-> "live", regions |-> regions, tm |-> tm, rmsrc |-> FALSE]

\* While a MigrationHandle is live every access to the target waits.
Frozen(b) == b.st = "migrating"

\* Operations succeed only on a target that is neither migrated nor destroyed.
Serving(b) == b.st = "live"

HasRegion(b, r) == b.regions[r] \notin {"absent", "erased"}

\* Region ids Backend::create may still mint (ids are never reused).
FreeRegionIDs(b) == {r \in RegionIDs : b.regions[r] = "absent"}

\* Backend::startMigration(removeSource): constructs the handle, taking the
\* target's exclusive lock.
StartMigration(b, removeSource) == [b EXCEPT !.st = "migrating", !.rmsrc = removeSource]

\* ~MigrationHandle without cancel(): the target is marked as migrated, and
\* its storage is removed when removeSource was requested.
CommitMigration(b) ==
    [b EXCEPT !.st = "migrated",
              !.regions = IF b.rmsrc THEN NoRegions ELSE b.regions]

\* MigrationHandle::cancel() followed by ~MigrationHandle: back to normal.
CancelMigration(b) == [b EXCEPT !.st = "live", !.rmsrc = FALSE]

\* Backend::destroy: frees all persistent state of the target.
DestroyBackend(b) == [b EXCEPT !.st = "destroyed", !.regions = NoRegions]

=============================================================================
