---------------------------- MODULE MCMigration ----------------------------
(* Model-checking instance of Migration: the model values and the sets of   *)
(* RPCs each run lets clients issue.                                       *)
EXTENDS Migration, TLC

\* Admin plane and migration: targets come and go while migrating.
AdminOps == {"add_target", "add_transfer_manager", "migrate_target",
             "remove_target", "destroy_target", "get_config", "check_target"}

\* Data plane against migration and removal: targets come, go and move
\* while region handlers suspended in lookup or pull use them.
DirDataOps == {"add_target", "migrate_target", "remove_target", "create",
               "write", "write_eager", "persist", "create_write",
               "create_write_eager", "read", "read_eager", "erase"}

\* The RPCs that wait: on a mutex, or on a target frozen by a migration.
BlockingOps == {"add_target", "migrate_target", "destroy_target", "get_config",
                "add_transfer_manager", "write_eager"}

Symmetry == Permutations(Reqs) \cup Permutations(Provs)
=============================================================================
