------------------------------- MODULE Upgrade ------------------------------
(***************************************************************************)
(* Db::open and migrate_schema of src/src/db/mod.rs around the follower: a *)
(* process that opens a store written by a release without the datum       *)
(* tables, or an empty one, resets its checkpoint once and follows the     *)
(* chain from genesis over the rows that are there.  The process may stop  *)
(* and open the store again at any time.                                   *)
(***************************************************************************)
EXTENDS Follower

CONSTANT
  OldChains           \* chains the old release may have indexed

ASSUME OldChainsAssumption ==
  \A c \in OldChains :
    /\ c \in Seq(BlockBodies \cup {Genesis})
    /\ Len(c) \in 1 .. MaxHeight + 1
    /\ c[1] = Genesis
    /\ ValidChain(c)

VARIABLES
  version,            \* the checkpoint's schema_version; None: no checkpoint row
  process             \* "closed", "opened" (tables there) or "running"

upgradeVars == <<vars, version, process>>

SchemaVersion == 1

\* The tables of a store that followed chain c without interruption.
TablesAfter(c) ==
  LET after[n \in 0 .. Len(c)] ==
        IF n = 0 THEN EmptyDb
        ELSE ApplyBlockEvents(after[n - 1],
                              BlockEvents(after[n - 1], SubSeq(c, 1, n), n - 1, {}))
  IN  after[Len(c)]

WithoutDatums(d) == [d EXCEPT !.datum = EmptyDb.datum]

OldStore ==
  /\ chain \in OldChains
  /\ db = WithoutDatums(TablesAfter(chain))
  /\ meta = [last |-> HeightOfChain(chain), id |-> chain, full |-> TRUE]
  /\ version = 0

NewStore ==
  /\ InitNode
  /\ db = EmptyDb
  /\ meta = MetaDefault
  /\ version = None

InitUpgrade ==
  /\ OldStore \/ NewStore
  /\ process = "closed"
  /\ pc = "sleep" /\ tip = 0 /\ m = MetaDefault /\ h = 0 /\ got = ZeroId

\* Database::create and open_all_tables, one transaction.
CreateTables ==
  /\ process = "closed"
  /\ process' = "opened"
  /\ UNCHANGED <<vars, version>>

\* Mutant: the version is stamped and the cursor left where it is.
MigrateInPlace ==
  /\ process = "opened"
  /\ process' = "running"
  /\ version' = SchemaVersion
  /\ UNCHANGED vars

\* Mutant: every open resets the cursor.
MigrateAlways ==
  /\ process = "opened"
  /\ process' = "running"
  /\ version' = SchemaVersion
  /\ meta' = MetaDefault
  /\ UNCHANGED <<chain, pc, local, db>>

\* migrate_schema, one transaction: the cursor is reset together with the stamp.
\* An old checkpoint that no longer decodes counts as version 0.
Migrate ==
  /\ process = "opened"
  /\ process' = "running"
  /\ version' = SchemaVersion
  /\ meta' = IF version = SchemaVersion THEN meta ELSE MetaDefault
  /\ UNCHANGED <<chain, pc, local, db>>

\* The follower at work; every checkpoint it stores carries the current version.
Work ==
  /\ process = "running"
  /\ WipeTables \/ ApplyToTables \/ (QuietStep /\ UNCHANGED db)
  /\ UNCHANGED <<version, process>>

Fail ==
  /\ process = "running"
  /\ AbortTick
  /\ UNCHANGED <<db, version, process>>

\* The process ends, in a tick or between two.
Stop ==
  /\ process # "closed"
  /\ AbortTick \/ (pc = "sleep" /\ UNCHANGED tickVars)
  /\ process' = "closed"
  /\ UNCHANGED <<db, version>>

NodeGoesOn == NodeStep /\ UNCHANGED <<db, version, process>>

UpgradeNext == CreateTables \/ Migrate \/ Work \/ Fail \/ Stop \/ NodeGoesOn

\* The process is started again whenever it stopped; the follower keeps on.  (The
\* tables never stand in a step's way, so the steps are named without them.)
UpgradeFairness ==
  /\ WF_process(process = "closed" /\ process' = "opened")
  /\ WF_process(process = "opened" /\ process' = "running")
  /\ WF_tickVars(process = "running" /\ TickStep)

UpgradeSpec == InitUpgrade /\ [][UpgradeNext]_upgradeVars /\ UpgradeFairness
=============================================================================
