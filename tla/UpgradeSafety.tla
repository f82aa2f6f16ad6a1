---------------------------- MODULE UpgradeSafety ---------------------------
(***************************************************************************)
(* What the upgrade of a store promises (README, "Upgrades & reindex").    *)
(***************************************************************************)
EXTENDS Upgrade, TickSafety, Reference

\* Every row of part is in whole, as it is there.
Within(part, whole) ==
  DOMAIN part \subseteq DOMAIN whole /\ \A k \in DOMAIN part : part[k] = whole[k]

Covers(d, c) ==
  LET ref == RefIndex(c)
  IN  /\ Within(ref.htlc, d.htlc.full)
      /\ Within(ref.activity, d.activity)
      /\ Within(ref.spentBy, d.spentBy)
      /\ Within(ref.datum, d.datum.forward)
      /\ Within(ref.blocks, d.blocks)

\* While the store is walked again, over rows of the first walk, and after, it
\* has every row the chain up to the checkpoint calls for, as that chain calls
\* for it: a settled HTLC goes back to locked at its lock and is settled anew
\* (upsert_htlc_within_txn replaces the record, rows of the other tables are
\* overwritten; README: the re-walk "fills the new indexes").  Between the wipe of
\* a rewind and its save, the chain is the one up to the ancestor.
WalkedIsComplete ==
  version = SchemaVersion => Covers(db, IF pc = "save" THEN m.id ELSE meta.id)

\* The walk from genesis begins once, however often the process stops and starts
\* and whatever it stopped in: with the version stamped, no step empties the
\* checkpoint (migrate_schema: "the reindex is triggered at most once").
ReindexesOnce ==
  [][version = SchemaVersion /\ meta.id # ZeroId => meta'.id # ZeroId]_upgradeVars

\* When the scan is marked complete, the tables hold the rows of the chain up to
\* the checkpoint and no others (README: re-walking "only rebuilds the store and
\* fills the new indexes").
RebuildLeavesTheIndex ==
  version = SchemaVersion /\ meta.full =>
    RefIndex(meta.id) = [htlc |-> db.htlc.full, activity |-> db.activity,
                         spentBy |-> db.spentBy, datum |-> db.datum.forward,
                         blocks |-> db.blocks]

Interrupted == TickFails \/ process' = "closed"

\* Once ticks stop failing and the process stops stopping, the datum tables hold
\* the chain's quotes, those of the blocks scanned before the upgrade as well
\* (README: datum queries "return complete results once the re-walk has passed").
BackfillsDatums ==
  \/ []<><<Interrupted>>_<<tickVars, process>>
  \/ <>[](/\ Within(RefDatums(chain), db.datum.forward)
          /\ QuoteKeys(RefDatums(chain)) \subseteq db.datum.byQuote)
=============================================================================
