--------------------------- MODULE ExecutorStartup --------------------------
(***************************************************************************)
(* A deployment from the release that left the database behind to a        *)
(* running executor: the key is encrypted by a command of the same binary, *)
(* a start unlocks it and migrates the database, and any of it may die and *)
(* be started again.  One executor at a time uses the database.            *)
(***************************************************************************)
EXTENDS KeyVaultFile, SchemaMigration

CONSTANT NeedsKey      \* is HL_EXECUTOR_KEY_FILE set?

ASSUME NeedsKeyAssumption == NeedsKey \in BOOLEAN

VARIABLE calm          \* from now on nothing is killed and no call fails

vars == << fileVars, schemaVars, calm >>

StartupTypeOK == FileTypeOK /\ SchemaTypeOK /\ calm \in BOOLEAN

Init == FileInit /\ SchemaInit /\ calm \in BOOLEAN

\* encrypt-key, in the process p.
Command(p) ==
  /\ CommandStep(p)
  /\ UNCHANGED << schemaVars, calm >>

CommandFails(p) ==
  /\ ~calm
  /\ CallFails(p) \/ Killed(p)
  /\ UNCHANGED << schemaVars, calm >>

\* main: without a whole key where one is needed the start ends at once.
Start ==
  /\ NeedsKey => target # NoFile /\ target.content = "synced"
  /\ BeginMigration
  /\ UNCHANGED << fileVars, calm >>

Migrate ==
  /\ MigrationStep
  /\ UNCHANGED << fileVars, calm >>

\* The process is killed or a statement fails; a start that failed ends.
Ends ==
  /\ step # "none"
  /\ ~calm \/ step = "failed"
  /\ MigrationEnds
  /\ UNCHANGED << fileVars, calm >>

\* The operator stops a running executor.
Stops ==
  /\ step = "done"
  /\ MigrationEnds
  /\ UNCHANGED << fileVars, calm >>

DirectoryWritten == WriteBack /\ UNCHANGED << schemaVars, calm >>

PowerLoss ==
  /\ ~calm
  /\ FilePowerLoss /\ MigrationEnds
  /\ UNCHANGED calm

TroubleEnds ==
  /\ ~calm /\ calm' = TRUE
  /\ UNCHANGED << fileVars, schemaVars >>

Next ==
  \/ \E p \in Pids : Command(p) \/ CommandFails(p)
  \/ Start \/ Migrate \/ Ends \/ Stops \/ DirectoryWritten
  \/ PowerLoss \/ TroubleEnds

Spec == Init /\ [][Next]_vars

\* The operator runs the command until there is a key, and the supervisor
\* starts the executor again.
Fairness ==
  /\ \A p \in Pids : WF_vars(Command(p))
  /\ WF_vars(Start) /\ WF_vars(Migrate) /\ WF_vars(Ends)

FairSpec == Spec /\ Fairness

-----------------------------------------------------------------------------
\* However often the commands and the starts died before, debris and half
\* migrated databases included, the executor comes up in the end, and again
\* after it is stopped.  The one exception is a database of version 7 that has
\* its new column already.
ComesUp ==
  <>calm => []<>(step = "done" \/ (version = 7 /\ streak = "with"))

-----------------------------------------------------------------------------
(* What the documentation says and the code does not do.                   *)

\* ROADMAP: "Restart preserves intents, event cursors, and kill-switch
\* state."  After a crash between ADD COLUMN clean_streak and user_version no
\* restart gets through the migration.
RestartComesUp == <>calm => []<>(step = "done")

=============================================================================
