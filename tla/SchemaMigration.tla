--------------------------- MODULE SchemaMigration --------------------------
(***************************************************************************)
(* ExecutionStore::migrate: every start brings a database of any earlier   *)
(* release to the current schema.  Two rebuilds are transactions, every    *)
(* other statement commits by itself, and user_version is written last:    *)
(* the process may die between any two statements, and the next start      *)
(* meets a database no release ever made.                                  *)
(***************************************************************************)
EXTENDS Naturals, FiniteSets

CONSTANTS
  Intents,       \* rows of trade_intents a deployment has
  Facts,         \* funding payments it has recorded
  Sources        \* hashes one payment may have been recorded under

Added == { "risk_decision_json", "confirmation_digest",
           "confirmation_expires_at", "confirmed_at", "confirmed_by" }

CurrentVersion == 9     \* STORE_SCHEMA_VERSION

VARIABLES
  version,      \* PRAGMA user_version
  intents,      \* trade_intents: absent, without strategy_id, or with it
  columns,      \* those of Added that trade_intents has
  intentRows,
  funding,      \* mainnet_funding: absent, one row per hash, one per payment
  fundingRows,  \* << payment, hash >>
  control,      \* the kill switch of executor_control, or absent
  streak,       \* mainnet_reconciliation_state: absent, without clean_streak,
                \* or with it
  step          \* the next statement of migrate, or "none"

schemaVars == << version, intents, columns, intentRows, funding, fundingRows,
                 control, streak, step >>

Statements == { "none", "intents", "columns", "funding", "streak", "create",
                "stamp", "done", "failed" }

SchemaTypeOK ==
  /\ version \in 0 .. CurrentVersion
  /\ intents \in { "absent", "legacy", "registered" }
  /\ columns \subseteq Added
  /\ intentRows \subseteq Intents
  /\ funding \in { "absent", "by hash", "by payment" }
  /\ fundingRows \subseteq Facts \X Sources
  /\ control \in { "absent", "on", "off" }
  /\ streak \in { "absent", "without", "with" }
  /\ step \in Statements

\* The databases releases left behind: none, the first schema, one without
\* the later columns of an intent, those up to the one before funding was
\* deduplicated, the one before the reconciliation state, the one before
\* clean_streak, and the last two.  Of versions 2 to 4 the code says only that
\* columns may be missing and that funding may be there, by hash; migrate never
\* tells one of them from another, and 4 stands for all three.
SchemaInit ==
  /\ step = "none"
  /\ \/ /\ version = 0 /\ intents = "absent" /\ columns = {}
        /\ intentRows = {}
        /\ funding = "absent" /\ fundingRows = {}
        /\ control = "absent" /\ streak = "absent"
     \/ /\ version = 0 /\ intents = "legacy" /\ columns = {}
        /\ intentRows = Intents
        /\ funding = "absent" /\ fundingRows = {}
        /\ control \in { "on", "off" } /\ streak = "absent"
     \/ /\ version = 1 /\ intents = "registered"
        /\ columns \in { {}, {"risk_decision_json"} }
        /\ intentRows = Intents
        /\ funding = "absent" /\ fundingRows = {}
        /\ control \in { "on", "off" } /\ streak = "absent"
     \/ /\ version = 4 /\ intents = "registered"
        /\ columns \in { {"risk_decision_json"}, Added }
        /\ intentRows = Intents
        /\ funding \in { "absent", "by hash" }
        /\ fundingRows = IF funding = "absent" THEN {} ELSE Facts \X Sources
        /\ control \in { "on", "off" } /\ streak = "absent"
     \/ /\ version \in 5 .. CurrentVersion
        /\ intents = "registered" /\ columns = Added
        /\ intentRows = Intents
        /\ funding = IF version = 5 THEN "by hash" ELSE "by payment"
        /\ IF version = 5 THEN fundingRows = Facts \X Sources
           ELSE \E s \in Sources : fundingRows = Facts \X {s}
        /\ control \in { "on", "off" }
        /\ streak = CASE version \in { 5, 6 } -> "absent"
                      [] version = 7 -> "without"
                      [] OTHER -> "with"

-----------------------------------------------------------------------------
Then(next) == step' = next

BeginMigration ==
  /\ step = "none"
  /\ Then(IF version > CurrentVersion THEN "failed" ELSE "intents")
  /\ UNCHANGED << version, intents, columns, intentRows, funding, fundingRows,
                  control, streak >>

\* Seeded fault: the rows are copied by a statement of their own, after the
\* old table is gone from its place.
RebuildIntentsFirst ==
  /\ step = "intents"
  /\ Then("columns")
  /\ IF intents = "legacy"
     THEN intents' = "registered" /\ columns' = Added /\ intentRows' = {}
     ELSE UNCHANGED << intents, columns, intentRows >>
  /\ UNCHANGED << version, funding, fundingRows, control, streak >>

\* A table without strategy_id is renamed, copied and dropped in one
\* transaction.
RebuildIntents ==
  /\ step = "intents"
  /\ Then("columns")
  /\ IF intents = "legacy"
     THEN intents' = "registered" /\ columns' = Added
     ELSE UNCHANGED << intents, columns >>
  /\ UNCHANGED << version, intentRows, funding, fundingRows, control, streak >>

\* One ALTER TABLE for each column that is missing.
AddColumn ==
  /\ step = "columns"
  /\ IF intents = "absent" \/ columns = Added
     THEN Then("funding") /\ UNCHANGED columns
     ELSE \E c \in Added \ columns :
            columns' = columns \cup {c} /\ UNCHANGED step
  /\ UNCHANGED << version, intents, intentRows, funding, fundingRows, control,
                  streak >>

\* Seeded fault: the rows are carried over as they are.
DedupedAsTheyAre == { fundingRows }

\* INSERT OR IGNORE keeps one row of each payment.
Deduped ==
  { rows \in SUBSET fundingRows :
      \A f \in Facts : (\E s \in Sources : << f, s >> \in fundingRows) =>
        Cardinality({ s \in Sources : << f, s >> \in rows }) = 1 }

\* Up to version 5, in one transaction; again, and to no effect, if the
\* process dies before the version is written.
RebuildFunding ==
  /\ step = "funding"
  /\ Then("streak")
  /\ IF version < 6 /\ funding # "absent"
     THEN funding' = "by payment" /\ fundingRows' \in Deduped
     ELSE UNCHANGED << funding, fundingRows >>
  /\ UNCHANGED << version, intents, columns, intentRows, control, streak >>

\* ADD COLUMN clean_streak, which fails if the column is there.
AddStreak ==
  /\ step = "streak"
  /\ IF version = 7 /\ streak = "with" THEN Then("failed") /\ UNCHANGED streak
     ELSE /\ Then("create")
          /\ streak' = IF version = 7 THEN "with" ELSE streak
  /\ UNCHANGED << version, intents, columns, intentRows, funding, fundingRows,
                  control >>

\* Seeded fault: INSERT OR REPLACE.
ControlReset == "off"

\* INSERT OR IGNORE.
ControlRow == IF control = "absent" THEN "off" ELSE control

\* CREATE TABLE IF NOT EXISTS, one statement after the other.
CreateTables ==
  /\ step = "create"
  /\ \/ /\ intents = "absent"
        /\ intents' = "registered" /\ columns' = Added
        /\ UNCHANGED << funding, control, streak, step >>
     \/ /\ intents # "absent" /\ control # ControlRow
        /\ control' = ControlRow
        /\ UNCHANGED << intents, columns, funding, streak, step >>
     \/ /\ intents # "absent" /\ control = ControlRow /\ funding = "absent"
        /\ funding' = "by payment"
        /\ UNCHANGED << intents, columns, control, streak, step >>
     \/ /\ intents # "absent" /\ control = ControlRow /\ funding # "absent"
        /\ streak' = IF streak = "absent" THEN "with" ELSE streak
        /\ Then("stamp")
        /\ UNCHANGED << intents, columns, funding, control >>
  /\ UNCHANGED << version, intentRows, fundingRows >>

\* Seeded fault: one more than the version it found.
StampNextVersion ==
  /\ step = "stamp"
  /\ Then("done")
  /\ version' = version + 1
  /\ UNCHANGED << intents, columns, intentRows, funding, fundingRows, control,
                  streak >>

StampVersion ==
  /\ step = "stamp"
  /\ Then("done")
  /\ version' = CurrentVersion
  /\ UNCHANGED << intents, columns, intentRows, funding, fundingRows, control,
                  streak >>

MigrationStep ==
  \/ RebuildIntents \/ AddColumn \/ RebuildFunding \/ AddStreak
  \/ CreateTables \/ StampVersion

\* The process ends, wherever it is: killed, or because a statement failed.
MigrationEnds ==
  /\ step' = "none"
  /\ UNCHANGED << version, intents, columns, intentRows, funding, fundingRows,
                  control, streak >>

-----------------------------------------------------------------------------
Current ==
  /\ intents = "registered" /\ columns = Added
  /\ funding = "by payment" /\ control # "absent" /\ streak = "with"

\* The version is a promise: a database that says it is current has every
\* table and column, and each payment once, whichever schema it came from and
\* wherever earlier starts died.
StampMeansCurrent ==
  version = CurrentVersion =>
    /\ Current
    /\ \A f \in Facts :
         Cardinality({ s \in Sources : << f, s >> \in fundingRows }) <= 1

\* No start, whether it ends or dies, loses an intent, loses the only record of
\* a payment, or changes the kill switch.
NothingIsLost ==
  [][/\ intentRows \subseteq intentRows'
     /\ \A f \in Facts : (\E s \in Sources : << f, s >> \in fundingRows) =>
                            \E s \in Sources : << f, s >> \in fundingRows'
     /\ control # "absent" => control' = control]_schemaVars

=============================================================================
