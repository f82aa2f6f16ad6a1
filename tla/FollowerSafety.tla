--------------------------- MODULE FollowerSafety --------------------------
(***************************************************************************)
(* The properties of the follower and its tables.                          *)
(***************************************************************************)
EXTENDS Follower, TickSafety, Reference

\* Every variable has its type; every table has the keys its encoding allows.
TypeOK ==
  /\ TickTypeOK
  /\ TablesOK(db)
  /\ \A x \in DOMAIN db.blocks : db.blocks[x] \in Histories

\* The four secondary HTLC indexes hold exactly the keys of the records in
\* HTLC_FULL: a query by party, hashlock or state finds every HTLC once, in its
\* present state (upsert, forget and advance keep them together).
SecondaryIndexesAgree == IndexesAgree(db.htlc)

\* A settlement is listed under its address exactly when it is listed under its
\* contract, and a quote id leads to exactly the outputs whose datum row binds
\* it (the write and the wipe of each pair of tables go together).
MirrorsAgree ==
  /\ db.settlement.byAddress = DOMAIN db.settlement.byContract
  /\ db.datum.byQuote = QuoteKeys(db.datum.forward)

\* No table holds a row of a block above the checkpoint (none at all before the
\* first block, whose id's height is -1); and once a rewind has wiped, none above
\* the block the checkpoint is about to name.  Wherever a tick stopped, the next
\* one walks over heights it has written nothing for.
NothingAboveCheckpoint ==
  /\ RowsUpTo(db, HeightOf(meta.id))
  /\ pc = "save" => RowsUpTo(db, HeightOf(m.id))

\* The block BLOCK_META has for a height carries transaction t.
BlockCarries(x, t) ==
  x \in DOMAIN db.blocks /\ t \in TxsIn(BodyOf(db.blocks[x]))

BlockSpendsHtlc(x, o, state) ==
  /\ x \in DOMAIN db.blocks
  /\ \E s \in BlockSpends(BodyOf(db.blocks[x])) :
        s.out = o /\ (state = "Claimed" <=> s.arm = "claim")

\* Every row is of a block BLOCK_META still lists: the activity table is the
\* union of the listed blocks' rows, and each HTLC, settlement, spent-by and
\* datum row is of a transaction in the listed block at its height, whatever
\* the node did (wipe_above cuts all the tables at one height).
RowsHaveTheirBlock ==
  /\ db.activity = RefActivity(db.blocks)
  /\ \A o \in DOMAIN db.htlc.full : BlockCarries(db.htlc.full[o].lockHeight, o[1])
  /\ \A k \in DOMAIN db.settlement.byContract :
       LET row == db.settlement.byContract[k]
       IN  BlockSpendsHtlc(k[2], row.lock, row.outcome)
  /\ \A o \in DOMAIN db.spentBy :
       BlockCarries(db.spentBy[o].height, db.spentBy[o].tx)
  /\ \A o \in DOMAIN db.datum.forward :
       BlockCarries(db.datum.forward[o].height, o[1])

(***************************************************************************)
(* Under reorganisations one block deep, none while a tick runs and none   *)
(* that orphans the settlement of an older HTLC.                           *)
(***************************************************************************)

\* The history of the highest block BLOCK_META lists.
View == LET top == CHOOSE x \in DOMAIN db.blocks : \A y \in DOMAIN db.blocks : y <= x
        IN  IF DOMAIN db.blocks = {} THEN <<>> ELSE db.blocks[top]

Index == [htlc     |-> db.htlc.full,
          activity |-> db.activity,
          spentBy  |-> db.spentBy,
          datum    |-> db.datum.forward,
          blocks   |-> db.blocks]

Promise == INSTANCE AbstractIndexer WITH view <- View, index <- Index

\* The tables are at all times the index of one valid chain, which grows and
\* shrinks by a block at a time (tick, with its rewind, implements the promise).
KeepsPromise == Promise!ASpec

SettledAt(rec) == IF rec.state = "Claimed" THEN rec.claim.height ELSE rec.reclaim.height

\* The HTLCs that process_block finds in the tables when it meets their spend:
\* the settled ones whose lock is in an earlier block.
SettledLater == {o \in DOMAIN db.htlc.full :
                   LET rec == db.htlc.full[o]
                   IN  rec.state \in Settled /\ SettledAt(rec) > rec.lockHeight}

Parties(rec) == {Party(rec, side) : side \in {"sender", "receiver"}}

\* Settlement key k is a row of the HTLC of outpoint o, with its outcome, at the
\* height of the block that settled it.
TellsOf(k, o) ==
  /\ k[2] = SettledAt(db.htlc.full[o])
  /\ db.settlement.byContract[k].lock = o
  /\ db.settlement.byContract[k].outcome = db.htlc.full[o].state

\* Two HTLCs of one transaction are settled in one block with party a in both:
\* their rows for a meet under one key, and the last one written stays.
MeetFor(a, o, p) ==
  /\ p # o /\ p[1] = o[1]
  /\ p \in SettledLater /\ a \in Parties(db.htlc.full[p])
  /\ SettledAt(db.htlc.full[p]) = SettledAt(db.htlc.full[o])

\* An HTLC settled in a later block than its lock is listed for each of its
\* parties by a row of its own, unless it meets another there, and then by a row
\* of one of those it meets; and every settlement row is of such an HTLC and for
\* one of its parties, with the outcome HTLC_FULL has for it.
SettlementsTellTheHtlcs ==
  /\ \A o \in SettledLater : \A a \in Parties(db.htlc.full[o]) :
       \E k \in DOMAIN db.settlement.byContract :
          /\ k[1] = a
          /\ TellsOf(k, o) \/ \E p \in SettledLater : MeetFor(a, o, p) /\ TellsOf(k, p)
  /\ \A k \in DOMAIN db.settlement.byContract :
       LET o == db.settlement.byContract[k].lock
       IN  o \in SettledLater /\ k[1] \in Parties(db.htlc.full[o]) /\ TellsOf(k, o)

\* When the rewind's wipe is done, the blocks left in the tables are the history
\* of the block the checkpoint is about to name: the walk back reached a common
\* ancestor (follower.rs: "walk back to the common ancestor on mismatch, wipe
\* everything above").
RewindReachesAncestor == pc = "save" => View = m.id

\* A block is applied on top of its own parent, so that what is committed with it
\* is the index of everything up to it (apply_block_events: "the on-disk state is
\* exactly everything up through this block").
AppliesOnParent ==
  pc = "apply" => SubSeq(got, 1, Len(got) - 1) = meta.id

\* When a tick decides where to resume, the tables list every height up to the
\* checkpoint: a tick that stopped anywhere left no gap that is never filled
\* (apply_block_events: "a crash-and-resume mid-walk is safe").
ResumesWithoutGap ==
  pc = "plan" /\ meta.id # ZeroId => DOMAIN db.blocks = 0 .. meta.last

(***************************************************************************)
(* Under any environment.                                                  *)
(***************************************************************************)

\* Applying the events a block was applied with a second time, right after the
\* first, changes nothing (apply_block_events: "re-applying the same block
\* produces the same final byte state").
ReplayKeepsTables ==
  [][pc = "apply" /\ db' # db =>
       \E unread \in Unread :
         LET ev == BlockEvents(db, got, h, unread)
         IN  db' = ApplyBlockEvents(db, ev) /\ ApplyBlockEvents(db', ev) = db']_vars

\* The listed block at the height a record says it was settled at carries the
\* spend the record says settled it.
SettlementListed(o, rec) ==
  /\ SettledAt(rec) \in DOMAIN db.blocks
  /\ \E s \in BlockSpends(BodyOf(db.blocks[SettledAt(rec)])) :
        s.out = o /\ s.tx = SettledTxId(o, rec)

\* A settled record stays as it is, whatever is applied or wiped above it, for as
\* long as the block that settled it is listed and the highest listed block
\* descends from it: no rewind that keeps the block forgets the record, and no
\* block on top of it touches the record again.  (What becomes of a settlement a
\* reorganisation has orphaned is IndexesTheChain's matter.)
SettlementStaysWithItsBlock ==
  [][\A o \in DOMAIN db.htlc.full :
       LET rec == db.htlc.full[o]
       IN  /\ rec.state \in Settled
           /\ SettlementListed(o, rec)
           /\ SettledAt(rec) <= HeightOfChain(View')
           /\ BlockIdAt(View', SettledAt(rec)) = db.blocks[SettledAt(rec)]
           => o \in DOMAIN db'.htlc.full /\ db'.htlc.full[o] = rec]_vars

(***************************************************************************)
(* What a comment of the repository says, and the code does not do.        *)
(***************************************************************************)

\* A settlement row carries the id of the transaction that settled the HTLC, as
\* the index has it after the apply (follower.rs: the settlement "reflects what
\* will be in the index after apply").
SettlementNamesSettlingTx ==
  \A k \in DOMAIN db.settlement.byContract :
    LET o == db.settlement.byContract[k].lock
    IN  o \in DOMAIN db.htlc.full => k[3] = SettledTxId(o, db.htlc.full[o])

(***************************************************************************)
(* Liveness, for the fair follower.                                        *)
(***************************************************************************)

\* Once the node rests, the tables become, and stay, the index of its chain
\* (lib.rs: "if the node reorgs, the indexer reflects the new canonical chain").
IndexesTheChain == FailsForEver \/ <>[](Index = RefIndex(chain))
=============================================================================
