------------------------ MODULE ExecutorStartupProofs -----------------------
(***************************************************************************)
(* Theorems about ExecutorStartup: the key file, for any number of         *)
(* commands at once, and the migration, for any rows a database may have.  *)
(*                                                                         *)
(* FileInv follows the temporary file of each command from one system call *)
(* to the next, so that what is linked is what was synced.  SchemaInv says *)
(* what each statement of migrate may rely on, whichever earlier start     *)
(* wrote it: the version of the database is no help, since it is written   *)
(* last.                                                                   *)
(***************************************************************************)
EXTENDS ExecutorStartup, FiniteSetTheorems, TLAPS

-----------------------------------------------------------------------------
(* The key file.                                                           *)

\* What the temporary file of a command is at each of its steps.
TemporaryOf(p) ==
  CASE command[p] = "writing" -> temps[p] = File(p, "partial")
    [] command[p] = "syncing" -> temps[p] = File(p, "written")
    [] command[p] = "linking" -> temps[p] = File(p, "synced")
    [] command[p] = "removing" -> target = File(p, "synced")
    [] OTHER -> TRUE

FileInv ==
  /\ FileTypeOK
  /\ KeyIsWhole
  /\ WinnerIsTold
  /\ \A p \in Pids : TemporaryOf(p)

\* A file is not the absence of one.
LEMMA FileIsThere ==
  ASSUME NEW p \in Pids, NEW content \in Contents
  PROVE  /\ File(p, content) \in Files /\ File(p, content) # NoFile
         /\ File(p, content).key = p /\ File(p, content).content = content
  BY NoFileAssumption DEF File, Files

\* Each system call keeps the invariant, of its own command and of the others.
LEMMA CommandKeepsFile ==
  ASSUME FileInv, NEW p \in Pids, CommandStep(p) \/ CallFails(p) \/ Killed(p)
  PROVE  FileInv'
  <1> USE DEF FileInv, FileTypeOK, Goes, TemporaryOf, KeyIsWhole, WinnerIsTold,
              Steps, Contents
  <1>1. CASE Begin(p)
    BY <1>1 DEF Begin
  <1>2. CASE Prompted(p)
    BY <1>2 DEF Prompted
  <1>3. CASE OpenTemporary(p)
    BY <1>3, FileIsThere DEF OpenTemporary, Abandon, Files
  <1>4. CASE WriteData(p)
    BY <1>4, FileIsThere DEF WriteData
  <1>5. CASE Sync(p)
    BY <1>5, FileIsThere DEF Sync
  <1>6. CASE Link(p)
    BY <1>6, FileIsThere DEF Link, Abandon, Files
  <1>7. CASE RemoveTemporary(p)
    BY <1>7, FileIsThere DEF RemoveTemporary, Files
  <1>8. CASE CallFails(p)
    BY <1>8 DEF CallFails, Abandon, Files
  <1>9. CASE Killed(p)
    BY <1>9 DEF Killed
  <1> QED
    BY <1>1, <1>2, <1>3, <1>4, <1>5, <1>6, <1>7, <1>8, <1>9 DEF CommandStep

\* A power loss cuts short only what was not synced, and with the commands it
\* ends every claim about their temporary files.
LEMMA PowerLossKeepsFile ==
  ASSUME FileInv, FilePowerLoss
  PROVE  FileInv'
  <1>1. target' \in Files /\ (target' # NoFile => target' = target)
    BY DEF FileInv, FilePowerLoss, AfterPowerLoss, KeyIsWhole, FileTypeOK, Files
  <1>2. FileTypeOK'
    BY <1>1 DEF FileInv, FilePowerLoss, FileTypeOK, Steps
  <1>3. KeyIsWhole' /\ WinnerIsTold'
    BY <1>1 DEF FileInv, FilePowerLoss, KeyIsWhole, WinnerIsTold
  <1>4. \A p \in Pids : TemporaryOf(p)'
    BY DEF FilePowerLoss, TemporaryOf
  <1> QED BY <1>2, <1>3, <1>4 DEF FileInv

LEMMA FileStep ==
  ASSUME FileInv, [Next]_vars
  PROVE  FileInv'
  <1>1. CASE UNCHANGED fileVars
    BY <1>1 DEF fileVars, FileInv, FileTypeOK, KeyIsWhole, WinnerIsTold,
       TemporaryOf
  <1>2. CASE \E p \in Pids : Command(p) \/ CommandFails(p)
    BY <1>2, CommandKeepsFile DEF Command, CommandFails
  <1>3. CASE DirectoryWritten
    BY <1>3 DEF DirectoryWritten, WriteBack, FileInv, FileTypeOK, KeyIsWhole,
       WinnerIsTold, TemporaryOf
  <1>4. CASE PowerLoss
    BY <1>4, PowerLossKeepsFile DEF PowerLoss
  <1> QED
    BY <1>1, <1>2, <1>3, <1>4
       DEF Next, vars, Start, Migrate, Ends, Stops, TroubleEnds

\* The key file, the temporary files and the reports stay in step, whatever
\* happens to the commands of encrypt-key.
THEOREM FileInvariant == Spec => []FileInv
  <1>1. Init => FileInv
    BY DEF Init, FileInit, FileInv, FileTypeOK, Files, Steps, KeyIsWhole,
       WinnerIsTold, TemporaryOf
  <1> QED BY <1>1, FileStep, PTL DEF Spec

\* encrypt-key never leaves a key file that is not a whole key on the disk,
\* however many commands run, die or lose their power.
THEOREM WholeKey == Spec => []KeyIsWhole
  BY FileInvariant, PTL DEF FileInv

\* Whoever was told that a key was written finds this key in place.
THEOREM TrueReport == Spec => []WinnerIsTold
  BY FileInvariant, PTL DEF FileInv

-----------------------------------------------------------------------------
(* The schema.                                                             *)

Recorded(f) == { s \in Sources : << f, s >> \in fundingRows }

\* Each payment is recorded at most once.
Once == \A f \in Facts : Cardinality(Recorded(f)) <= 1

\* The statements after the ones that settle the intents, their columns, the
\* funding, the streak, and after the last table is there.
IntentsSettled ==
  { "columns", "funding", "streak", "create", "stamp", "done" }
ColumnsSettled == { "funding", "streak", "create", "stamp", "done" }
FundingSettled == { "streak", "create", "stamp", "done" }
StreakSettled == { "create", "stamp", "done" }
TablesSettled == { "stamp", "done" }

SchemaInv ==
  /\ SchemaTypeOK
  /\ version = CurrentVersion => Current
  /\ funding = "by hash" => version < 6
  /\ funding # "by hash" => Once
  /\ streak = "without" => version = 7
  /\ step \in IntentsSettled => intents # "legacy"
  /\ step \in ColumnsSettled => intents = "absent" \/ columns = Added
  /\ step \in FundingSettled => funding # "by hash"
  /\ step \in StreakSettled => streak # "without"
  /\ step \in TablesSettled => Current
  /\ step = "done" => version = CurrentVersion

\* Every statement keeps what the earlier ones have settled.
LEMMA StatementKeepsSchema ==
  ASSUME SchemaInv, MigrationStep \/ BeginMigration \/ MigrationEnds
  PROVE  SchemaInv'
  <1> USE DEF SchemaInv, SchemaTypeOK, Then, Statements, Current, Once,
              Recorded, CurrentVersion, IntentsSettled, ColumnsSettled,
              FundingSettled, StreakSettled, TablesSettled
  <1>1. CASE BeginMigration
    BY <1>1 DEF BeginMigration
  <1>2. CASE RebuildIntents
    BY <1>2 DEF RebuildIntents
  <1>3. CASE AddColumn
    BY <1>3 DEF AddColumn
  <1>4. CASE RebuildFunding
    <2>1. SchemaTypeOK'
      BY <1>4 DEF RebuildFunding, Deduped
    <2>2. CASE version < 6 /\ funding # "absent"
      <3>1. Once'
        <4> SUFFICES ASSUME NEW f \in Facts
                     PROVE  Cardinality(Recorded(f)') <= 1
          OBVIOUS
        <4>1. fundingRows' \in Deduped
          BY <1>4, <2>2 DEF RebuildFunding
        <4>2. CASE \E s \in Sources : << f, s >> \in fundingRows
          <5>1. Cardinality({ s \in Sources : << f, s >> \in fundingRows' }) = 1
            BY <4>1, <4>2 DEF Deduped
          <5>2. Recorded(f)' = { s \in Sources : << f, s >> \in fundingRows' }
            OBVIOUS
          <5> QED BY ONLY <5>1, <5>2
        <4>3. CASE ~ \E s \in Sources : << f, s >> \in fundingRows
          <5>1. Recorded(f)' = {}
            BY <4>1, <4>3 DEF Deduped
          <5>2. Cardinality(Recorded(f)') = 0
            BY ONLY <5>1, FS_EmptySet
          <5> QED BY ONLY <5>2
        <4> QED BY <4>2, <4>3
      <3> QED BY <1>4, <2>1, <2>2, <3>1 DEF RebuildFunding
    <2>3. CASE ~(version < 6 /\ funding # "absent")
      BY <1>4, <2>1, <2>3 DEF RebuildFunding
    <2> QED BY <2>2, <2>3
  <1>5. CASE AddStreak
    BY <1>5 DEF AddStreak
  <1>6. CASE CreateTables
    BY <1>6 DEF CreateTables, ControlRow
  <1>7. CASE StampVersion
    <2>1. SchemaTypeOK'
      <3>1. SchemaTypeOK OBVIOUS
      <3>2. version' \in 0 .. CurrentVersion
        BY ONLY <1>7 DEF StampVersion, CurrentVersion
      <3>3. step' \in Statements BY <1>7 DEF StampVersion
      <3> QED BY ONLY <1>7, <3>1, <3>2, <3>3 DEF StampVersion, SchemaTypeOK
    <2>2. Current'
      BY <1>7 DEF StampVersion
    <2>3. Once'
      BY <1>7 DEF StampVersion
    <2> QED BY <1>7, <2>1, <2>2, <2>3 DEF StampVersion
  <1>8. CASE MigrationEnds
    BY <1>8 DEF MigrationEnds
  <1> QED
    BY <1>1, <1>2, <1>3, <1>4, <1>5, <1>6, <1>7, <1>8 DEF MigrationStep

LEMMA SchemaStep ==
  ASSUME SchemaInv, [Next]_vars
  PROVE  SchemaInv'
  <1>1. CASE UNCHANGED schemaVars
    BY <1>1 DEF schemaVars, SchemaInv, SchemaTypeOK, Current, Once, Recorded
  <1> QED
    BY <1>1, StatementKeepsSchema
       DEF Next, vars, Command, CommandFails, Start, Migrate, Ends, Stops,
           DirectoryWritten, PowerLoss, TroubleEnds

\* The databases of earlier releases satisfy the invariant.
LEMMA ReleasesAreSound ==
  ASSUME SchemaInit
  PROVE  SchemaInv
  <1>1. /\ step = "none" /\ intentRows \subseteq Intents
        /\ version \in {0, 1, 4, 5, 6, 7, 8, 9}
    <2>1. /\ step = "none" /\ intentRows \subseteq Intents
          /\ version \in {0, 1, 4} \/ version \in 5 .. CurrentVersion
      BY DEF SchemaInit
    <2>2. ASSUME version \in 5 .. CurrentVersion
          PROVE  version \in {5, 6, 7, 8, 9}
      BY ONLY <2>2 DEF CurrentVersion
    <2> QED BY <2>1, <2>2
  <1>2. fundingRows \subseteq Facts \X Sources
    <2>1. \/ fundingRows = {} \/ fundingRows = Facts \X Sources
          \/ \E s \in Sources : fundingRows = Facts \X {s}
      BY DEF SchemaInit
    <2> QED BY <2>1
  <1>3. funding # "by hash" => Once
    <2> SUFFICES ASSUME funding # "by hash", NEW f \in Facts
                 PROVE  Cardinality(Recorded(f)) <= 1
      BY DEF Once
    <2>1. fundingRows = {} \/ \E s \in Sources : fundingRows = Facts \X {s}
      <3>1. CASE version \in 5 .. CurrentVersion
        <4>1. version \notin { 0, 1, 4 }
          BY ONLY <3>1 DEF CurrentVersion
        <4>2. funding = IF version = 5 THEN "by hash" ELSE "by payment"
          BY <4>1 DEF SchemaInit
        <4>3. version # 5
          BY <4>2
        <4> QED BY <4>1, <4>3 DEF SchemaInit
      <3>2. CASE version \notin 5 .. CurrentVersion
        BY <3>2 DEF SchemaInit
      <3> QED BY <3>1, <3>2
    <2>2. CASE fundingRows = {}
      <3>1. Recorded(f) = {}
        BY <2>2 DEF Recorded
      <3>2. Cardinality(Recorded(f)) = 0
        BY ONLY <3>1, FS_EmptySet
      <3> QED BY ONLY <3>2
    <2>3. CASE \E s \in Sources : fundingRows = Facts \X {s}
      <3>1. PICK s \in Sources : fundingRows = Facts \X {s}
        BY <2>3
      <3>2. ASSUME NEW r PROVE r \in Recorded(f) <=> r = s
        BY <3>1 DEF Recorded
      <3>3. Recorded(f) = {s}
        BY <3>2
      <3>4. Cardinality(Recorded(f)) = 1
        BY ONLY <3>3, FS_Singleton
      <3> QED BY ONLY <3>4
    <2> QED BY <2>1, <2>2, <2>3
  <1>4. SchemaTypeOK
    <2>1. version \in 0 .. CurrentVersion
      BY ONLY <1>1 DEF CurrentVersion
    <2>2. step \in Statements
      BY <1>1 DEF Statements
    <2>3. /\ intents \in { "absent", "legacy", "registered" }
          /\ columns \subseteq Added
      BY DEF SchemaInit, Added
    <2>4. /\ funding \in { "absent", "by hash", "by payment" }
          /\ streak \in { "absent", "without", "with" }
          /\ control \in { "absent", "on", "off" }
      BY DEF SchemaInit, CurrentVersion
    <2> QED BY <1>1, <1>2, <2>1, <2>2, <2>3, <2>4 DEF SchemaTypeOK
  <1>5. CASE version = 0 \/ version = 1
    <2>1. /\ version < 6 /\ version # CurrentVersion
          /\ funding = "absent" /\ streak = "absent"
      <3>1. version < 6 /\ version # CurrentVersion
        BY ONLY <1>5 DEF CurrentVersion
      <3>2. version # 4 /\ ~(version \in 5 .. CurrentVersion)
        BY ONLY <1>5 DEF CurrentVersion
      <3>3. funding = "absent" /\ streak = "absent"
        BY <3>2 DEF SchemaInit
      <3> QED BY <3>1, <3>3
    <2> QED BY <1>1, <1>3, <1>4, <2>1 DEF SchemaInv, IntentsSettled,
               ColumnsSettled, FundingSettled, StreakSettled, TablesSettled
  <1>6. CASE version = 4
    <2>1. /\ version < 6 /\ version # CurrentVersion
          /\ ~(version \in 5 .. CurrentVersion)
      BY ONLY <1>6 DEF CurrentVersion
    <2>2. streak = "absent"
      BY <1>6, <2>1 DEF SchemaInit
    <2> QED BY <1>1, <1>3, <1>4, <2>1, <2>2 DEF SchemaInv, IntentsSettled,
               ColumnsSettled, FundingSettled, StreakSettled, TablesSettled
  <1>7. CASE ~(version = 0 \/ version = 1 \/ version = 4)
    <2>1. /\ intents = "registered" /\ columns = Added
          /\ control \in { "on", "off" }
      BY <1>7 DEF SchemaInit
    <2>2. funding = IF version = 5 THEN "by hash" ELSE "by payment"
      BY <1>7 DEF SchemaInit
    <2>3. streak = CASE version \in { 5, 6 } -> "absent"
                     [] version = 7 -> "without"
                     [] OTHER -> "with"
      BY <1>7 DEF SchemaInit
    <2>4. version = CurrentVersion => Current
      <3> SUFFICES ASSUME version = CurrentVersion PROVE Current
        OBVIOUS
      <3>1. version \notin { 5, 6 } /\ version # 7
        BY ONLY version = CurrentVersion DEF CurrentVersion
      <3> QED BY ONLY <2>1, <2>2, <2>3, <3>1 DEF Current
    <2>5. funding = "by hash" => version < 6
      <3> SUFFICES ASSUME funding = "by hash" PROVE version < 6
        OBVIOUS
      <3>1. version = 5
        BY ONLY <2>2, funding = "by hash"
      <3> QED BY ONLY <3>1
    <2>6. streak = "without" => version = 7
      BY ONLY <2>3
    <2> QED BY <1>1, <1>3, <1>4, <2>4, <2>5, <2>6 DEF SchemaInv,
               IntentsSettled, ColumnsSettled, FundingSettled, StreakSettled,
               TablesSettled
  <1> QED BY <1>5, <1>6, <1>7

\* Wherever earlier starts died in migrate, its next statement finds what the
\* statements before it are there to settle.
THEOREM SchemaInvariant == Spec => []SchemaInv
  BY ReleasesAreSound, SchemaStep, PTL DEF Spec, Init

\* A database whose version says it is current is current: every table and
\* column is there, and each payment is recorded once.
THEOREM TrueStamp == Spec => []StampMeansCurrent
  <1>1. SchemaInv => StampMeansCurrent
    BY DEF SchemaInv, StampMeansCurrent, Current, Once, Recorded
  <1> QED BY <1>1, SchemaInvariant, PTL

\* No start loses an intent, the only record of a payment or the kill switch.
THEOREM NoLoss == Spec => NothingIsLost
  <1>1. ASSUME SchemaInv, [Next]_vars
        PROVE  [/\ intentRows \subseteq intentRows'
                /\ \A f \in Facts :
                     (\E s \in Sources : << f, s >> \in fundingRows) =>
                       \E s \in Sources : << f, s >> \in fundingRows'
                /\ control # "absent" => control' = control]_schemaVars
    <2>1. CASE RebuildFunding /\ version < 6 /\ funding # "absent"
      <3>1. ASSUME NEW f \in Facts,
                   \E s \in Sources : << f, s >> \in fundingRows
            PROVE  \E s \in Sources : << f, s >> \in fundingRows'
        <4>1. Cardinality(Recorded(f)') = 1
          BY <2>1, <3>1 DEF RebuildFunding, Deduped, Recorded
        <4>2. Recorded(f)' # {}
          BY <4>1, FS_EmptySet
        <4> QED BY <4>2 DEF Recorded
      <3> QED BY <2>1, <3>1 DEF RebuildFunding
    <2>2. CASE ~(RebuildFunding /\ version < 6 /\ funding # "absent")
      BY <1>1, <2>2
         DEF Next, vars, Command, CommandFails, Start, Migrate, Ends, Stops,
             DirectoryWritten, PowerLoss, TroubleEnds, MigrationStep,
             BeginMigration, RebuildIntents, AddColumn, RebuildFunding,
             AddStreak, CreateTables, ControlRow, StampVersion, MigrationEnds,
             schemaVars
    <2> QED BY <2>1, <2>2
  <1> QED BY <1>1, SchemaInvariant, PTL DEF Spec, NothingIsLost

\* Every variable of a deployment keeps its type.
THEOREM StartupTypes == Spec => []StartupTypeOK
  <1>1. Init => calm \in BOOLEAN
    BY DEF Init
  <1>2. calm \in BOOLEAN /\ [Next]_vars => (calm \in BOOLEAN)'
    BY DEF Next, vars, Command, CommandFails, Start, Migrate, Ends, Stops,
       DirectoryWritten, PowerLoss, TroubleEnds
  <1>3. Spec => [](calm \in BOOLEAN)
    BY <1>1, <1>2, PTL DEF Spec
  <1>4. FileInv /\ SchemaInv /\ calm \in BOOLEAN => StartupTypeOK
    BY DEF FileInv, SchemaInv, StartupTypeOK
  <1> QED BY <1>3, <1>4, FileInvariant, SchemaInvariant, PTL

=============================================================================
