# exfer-indexer: TLA+ models, checks and proofs

The indexer (src/) follows the canonical chain of an exfer node over JSON-RPC,
keeps an index of HTLCs, settlements, address activity, spent outputs and
settlement datums in a redb store, and answers queries. This directory holds
models of it, what TLC checks of them, and what TLAPS proves.

Paths below are relative to the repository (src/src/... is the crate).

## 1. The system

| Part | State it keeps | Operations | Talks to |
|---|---|---|---|
| Follower (`follower.rs`) | none between ticks but the stored checkpoint; in a tick: the tip's height, a copy of the checkpoint, the height walked | `tick`: read tip, detect a reorg, rewind one block, walk to the tip; `process_block` | node (awaits), store (commits) |
| Extraction (`extract.rs`) | none | locks, candidate spends, settlements, datums of a transaction | called by `process_block` |
| Store (`db/mod.rs`, `db/schema.rs`) | 14 redb tables | `apply_block_events`, `wipe_above`, `save_meta`: one transaction each; read queries: one snapshot each | follower (the only writer), API handlers |
| Schema migration (`Db::open`) | `schema_version` in the checkpoint | create tables, reset an old checkpoint | runs before the follower |
| NodeClient (`upstream.rs`) | a shared round-robin counter | `call`: post, retry at the next URL, back off | node; cloned into the follower and every API handler |
| JSON-RPC dispatch (`api/mod.rs`) | none | 14 methods | store, NodeClient |
| HTTP server (`server.rs`), templates, config, main, error | none | auth, bind rule, envelopes | dispatch |

What is hard here:

* **Interleaving.** The node moves while a tick is under way, between any two of
  its calls; readers walk a listing page by page while blocks are applied and
  rewound; concurrent calls share one URL counter.
* **Crash and restart.** A block is one transaction, a rewind is two
  (`wipe_above`, `save_meta`); the process may stop anywhere and goes on from
  the checkpoint.
* **Reorganisations.** The rewind steps back one block a tick. Records keep a
  lock height and a settlement height and are cut by the first only.
* **Redundant tables.** An HTLC is under five keys, a settlement under two, a
  quoted output under two; each write and each wipe must touch all of them.
* **Retry for ever.** A failed tick is dropped and tried again: it must still
  get to the tip.
* **Handlers that await.** A handler reads the store, asks the node and reads
  again, while the follower commits and the node moves in between.
* **Walking again.** After an upgrade the chain is walked over existing rows.

What makes each part correct: the tables are the index of the node's chain
(follower, extraction, store); secondary tables agree with primary ones (store);
nothing above the checkpoint (store and follower); the checkpoint reaches the
tip (follower); a page walk loses and repeats nothing (queries); a call ends,
and gives up only for a reason (client); an answer was true of one chain
of its time, and every request of a batch gets one (dispatch, server); a migrated store is complete and is
walked again once (migration).

## 2. The modules

```
Extract -- Store -- ProcessBlock -- Reference -- AbstractIndexer
   \        |            |              |
   Node -- Tick ----- Follower -- FollowerSafety -- MCFollower (MCWorld)
             |           |  \_________________________________
         TickSafety      |                                    \
                         |-- Readers (+ Queries) -- ReadersSafety -- MCReaders
                         |-- Api (+ Lookups) -- ApiSafety -- MCApi
                         `-- Upgrade -- UpgradeSafety -- MCUpgrade (MCWorld)
Upstream -- MCUpstream
Proofs:  StoreProofs -- FollowerProofs -- GentleProofs --.
                                     \-- RowsProofs ------- IndexProofs -- UpgradeProofs
                                                               \-- ClientProofs (Readers, Api)
         UpstreamProofs
```

| Module | Models | Correspondence |
|---|---|---|
| `Extract` | `extract.rs` | A script, datum or witness is a record with the few facts extract.rs looks at (kind, sizes, leading tag). A transaction id indexes the constant `Body`. |
| `Store` | the tables, `apply_block_events`, `wipe_above` and the `*_within_txn` helpers | A table is a function from keys to rows, a `()`-valued table is a set of keys; a write transaction is one operator from tables to tables. |
| `ProcessBlock` | `Follower::process_block`, `peek_htlc`, `fetch_tx` | `BlockEvents(db, id, height, unread)` is the payload of `apply_block_events`; settlements are computed from the tables before the block, without the records whose peek failed (`unread`). |
| `Node` | the node (external) | `chain`, a sequence of bodies from genesis; `Mine` and `Reorg`. A block id is the history it commits to, so ids are equal exactly when the chains below are. |
| `Tick` | `Follower::run`, `tick`, `find_common_ancestor`, the checkpoint | One action per stretch between two awaits or commits: `ReadTip`, `CheckReorg`, `FindAncestor`, `Wipe`, `SaveReorg`, `CaughtUp`, `EnterLoop`, `FetchBlock`, `ApplyBlock`; `BlockMissing` is an RPC error for an unknown height; `AbortTick` any other failure and any stop of the process. |
| `Follower` | `Tick` with its tables | `WipeTables`, `ApplyToTables`: the control step together with its transaction's effect. With `PeekFails`, any of a block's peeks may end in a storage error, which `process_block` passes over. |
| `Reference` | - | The index a chain calls for, stated from the whole chain. |
| `AbstractIndexer` | lib.rs's promise | The tables are the index of one valid chain that changes by a block at its tip. |
| `Queries` | the paged listings, cursors, aggregates, the hashlock-group scan | Each is one read transaction, an operator of the tables. The group scan's result is read from HTLC_FULL as the code does (`ReadGroup`). Order in `sort_by`, `retain`, `truncate` and the next cursor are kept, cursor encodings are not. |
| `Readers` | a client's walk over a listing | `Ask`, `ReadPage`, `RefusePage` (limit 0), `LeaveOff`, interleaved with every step of `Follower`. |
| `Lookups` | the single-key reads, the hashlock range, the HTLC count | An `Option` is a set of at most one row; each read is one snapshot. |
| `Api` | `handle_rpc`, `handle_single`, `dispatch` and the handlers that are no listing; `rpc_code` | A POST is its items, the answers given so far and where the handler of the next one awaits: `node` (spent-by, after a cache miss), `tip`, `meta`, `count` (status); once `sent`, it is the reply. Any read may end in a storage error (`ReadFails`), any call in an error or an answer that does not decode (`CallFails`). `SpendersIn` is the node's own lookup (external). |
| `Upgrade` | `Db::open`, `migrate_schema` around the follower | `CreateTables`, `Migrate`, `Work`, `Fail`, `Stop`; an old store has every table but the datum tables. |
| `Upstream` | `NodeClient` | A call is cut at the post and the backoff sleep. `tried`, `steady`, `alone` record what happened since it began. |

Where the code's comments number a step, the actions are in that order. Fields no
decision depends on (timestamps, `tx_count`, `started_at`, `last_indexed_height`
of a record, `contract_hash`, which is one constant for every HTLC) are left out.
Heights are naturals bounded by `MaxHeight`: nothing in src/ comes near 2^64.

## 3. What is checked

`CHECK_DEADLOCK` is on in every run. Distinct states and times are for two workers.

| Run | World | Result |
|---|---|---|
| `hostile` (`Hostile.cfg`) | reorgs two deep at any moment, to shorter branches too, orphaning anything; failures, stops and failed peeks anywhere | passes, 74,048 states, 40 s |
| `gentle` (`Gentle.cfg`) | reorgs one deep, between ticks, orphaning no settlement of an HTLC that stays; failures and stops except between the two transactions of a rewind; no failed peek | passes, 6,920 states |
| `readers` (`Readers.cfg`) | reorgs one deep at any moment; clients walk six listings | passes, 288,098 states, 2 min |
| `api` (`Api.cfg`) | gentle world; clients post eleven requests and batches | passes, 501,280 states, 2 min |
| `upstream` (`Upstream.cfg`) | 2 callers, 3 URLs, 3 attempts | passes, 450,299 states, 40 s |
| `upgrade` (`Upgrade.cfg`) | an old or an empty store, opened and stopped at any time, gentle world, with failed peeks | passes, 6,972 states |
| `deep_reorg`, `stop_in_rewind`, `orphaned_claim`, `settlement_tx`, `history_cursor`, `rebuild` | the smallest world that shows it | violated; section 5 |

**hostile** shows what holds whatever happens: the secondary indexes
(`SecondaryIndexesAgree`) and mirrors (`MirrorsAgree`) agree; no row is above the
checkpoint (`NothingAboveCheckpoint`); every row is of a transaction in a block
BLOCK_META lists at that height (`RowsHaveTheirBlock`); a tick's locals fit the
checkpoint (`TickFitsCheckpoint`); the events of a block applied twice leave the
same tables (`ReplayKeepsTables`), whatever its peeks failed to read; and a settled
record stays as it is for as long as the block that settled it is listed and the
highest listed block descends from it (`SettlementStaysWithItsBlock`): wipes cut
records by the height of their lock alone, upserts replace them and advances skip
settled ones, and none of that touches a settlement whose block stays. It says nothing
of a settlement whose block was orphaned: the code leaves that in place, which
`orphaned_claim` reports. Once the node rests, the checkpoint reaches its tip
(`CatchesUp`).

**gentle** shows the promise kept where the design can keep it: `Follower`
implements `AbstractIndexer` (`KeepsPromise`, a refinement with
`view <- View, index <- Index`), the rewind reaches an ancestor, blocks go on
their parents, nothing is skipped, a scan is marked complete only at the tip
(`CompleteAtTip`), and the tables end up as the index of the node's chain
(`IndexesTheChain`). `SettlementsTellTheHtlcs` relates settlement rows and HTLC states
both ways: an HTLC settled in a later block than its lock has, for each of its
parties, a row whose `lock` is its own outpoint, with its outcome and height; only
where another HTLC of the same transaction, settled in the same block, has the same
party do the rows meet under one key, and then the row there is of one of them; and
every row is of such an HTLC. The world of this run has such twins. The property is
false where a peek fails (section 5). Each condition of this world is needed: `deep_reorg`
drops the depth, `stop_in_rewind` the exclusion of stops, `orphaned_claim` the
protection of settlements; with the node moving in the middle of a tick,
`AppliesOnParent` fails (section 5).

**readers** shows that a walk meets every transaction, settlement and HTLC that
was there throughout (`WalkMeetsEveryKey`), never shows a row twice and gives
full pages (`FullPages`), and comes to its end (`WalksEnd`), with an error where a
limit of 0 leaves no row to take a cursor from; that statistics count what is listed
(`StatsCountListed`) and an address' edges share the same rows out among its
counterparties (`EdgesCountListed`); and that swap detection returns the first groups
in order, each complete (`SwapGroupsInOrder`).

**api** shows that every answer was true of one chain that was, between the
handler's first read and its answer, the node's or the one the tables index
(`EveryAnswerWasTrue`), errors of the node or of a read excepted: `get_output_spent_by` may answer from an older chain than
the node's, never from one that was gone before the request. The count in a status
answer is that of the block it names, unless the follower committed in between or
stood between the two commits of a rewind (`StatusCountsItsBlock`). A reply has one
answer for each item, in the items' order, each a result or an error with a code of
that item's own (`EveryItemAnswered`): no item that is malformed, unknown or fails
takes an answer from another. And every POST comes to an end (`PostsEnd`).

**upstream** shows every call ends (`CallsEnd`) and that a call nothing
interleaves gives up only if no URL was up all along (`GivesUpForAReason`).

**upgrade** shows that at every moment of the second walk the rows of the chain
walked so far are in place (`WalkedIsComplete`), that it begins once
(`ReindexesOnce`), and that the datum tables get filled (`BackfillsDatums`).

### Bounds, and why they are enough

* `MaxHeight` 3 or 4: genesis, the lock, its settlement and one more block, so
  that a reorg two deep can orphan a lock, a settlement, or both, and the
  checkpoint passes through height 0, the first rewind and the resume. `hostile`
  has height 2, which is where all six bodies at every height still fit: a reorg
  two deep replaces everything above genesis, and with the empty block one HTLC can
  be locked at either height.
* `MCWorld`: one HTLC with claim and reclaim, a quoted change output, a payment
  whose witness looks like a reclaim, a datum one byte too long, a hash-only
  datum, two outputs to one address, a block that locks and claims. `gentle` runs in
  the same world with a twin (`MCTwinBody`): the lock's transaction locks a second
  HTLC from its sender to itself, and one transaction claims both, so that rows of two
  HTLCs meet under one key for one party and not for the other. Rows of two
  HTLCs meet only in settlements, swap groups and listings: `MCReaders` has four
  HTLCs under two shared hashlocks, a block that settles two, and a third party, so
  that an address has two counterparties.
* `MCApi`: two HTLCs under one hashlock, one of them claimed, two outputs quoting
  one id; a request for each kind of answer, found and not found, alone, and two
  batches with items that are refused. Several POSTs share nothing but the store
  and the node, so one at a time is enough.
* `PeekFails`: in `hostile` and `readers`, whose properties must hold with the rows a
  failed peek loses, and in `upgrade`; not in `gentle` and `api`, since
  `SettlementsTellTheHtlcs` is what such a failure breaks and no read of `Api` is of
  the settlement tables.
* Page limits 0, 1 and 2 against listings of up to four rows: an empty page, a
  page boundary between any two rows, and a listing that fits.
* Three URLs with three attempts: the case `Attempts = N` on the boundary of
  `GivesUpForAReason`; two callers are enough to shift one another's round.

### Fairness

* `Fairness == WF(TickStep)`: `run` never leaves its loop, its sleep is bounded,
  and each await of a tick ends (the client's timeout, `CallsEnd`). Nothing is
  assumed of the node.
* `FailsForEver` (infinitely often a failure that is not the tick's own end) is
  excluded by the liveness properties, since a follower whose every tick fails
  makes no progress; so are a node that never rests (`NodeNeverRests`; the
  chain's bound stops mining but not reorgs between equally long branches) and
  one that rests on a branch ending below the checkpoint
  (`RestsBelowCheckpoint`): there `get_block_by_height` fails before the rewind
  (follower.rs:94) and the follower waits for the node to grow.
* `Upstream`: WF of each caller's steps: a post ends within reqwest's timeout and
  the backoff is a bounded sleep. URLs may flip for ever.
* `Readers`: a client that walks on is answered, with a page or an error; it may
  leave off. `Api`: WF of the handler's steps: store reads are not blocked by the
  writer, a call to the node ends (`CallsEnd`). A client may hang up.
* `Upgrade`: the process is started again after a stop, and opens the store;
  stops and failures for ever are excluded.

## 4. What is proved

| Theorem | States |
|---|---|
| `FollowerProofs!TickTypeCorrect` | the control's types |
| `FollowerProofs!TypeCorrect` | `TypeOK`: the types and keys of all tables |
| `FollowerProofs!AlwaysFits` | `TickFitsCheckpoint` |
| `FollowerProofs!SecondaryIndexesAlwaysAgree` | `SecondaryIndexesAgree` |
| `FollowerProofs!MirrorsAlwaysAgree` | `MirrorsAgree` |
| `FollowerProofs!NeverAboveCheckpoint` | `NothingAboveCheckpoint` |
| `RowsProofs!RowsAlwaysHaveTheirBlock` | `RowsHaveTheirBlock` |
| `RowsProofs!ReplayAlwaysKeepsTables` | `ReplayKeepsTables` |
| `GentleProofs!AlwaysResumesWithoutGap` | `ResumesWithoutGap`, if `~StopInRewind` |
| `GentleProofs!AlwaysAppliesOnParent` | `AppliesOnParent`, if `~MidTick` |
| `GentleProofs!AlwaysCompleteAtTip` | `CompleteAtTip`, if `~MidTick` |
| `GentleProofs!RewindAlwaysReachesAncestor` | `RewindReachesAncestor`, if `~MidTick`, `~StopInRewind`, `MaxDepth <= 1` |
| `IndexProofs!FollowerKeepsPromise` | `KeepsPromise`: `Follower` implements `AbstractIndexer`, in the gentle world |
| `IndexProofs!SettlementsAlwaysTellTheHtlcs` | `SettlementsTellTheHtlcs`, in the gentle world, if `~PeekFails` |
| `IndexProofs!SettlementAlwaysStaysWithItsBlock` | `SettlementStaysWithItsBlock` |
| `UpgradeProofs!SecondWalkIsComplete` | `WalkedIsComplete`, in the gentle world |
| `UpgradeProofs!AlwaysReindexesOnce` | `ReindexesOnce` |
| `ClientProofs!WalksMeetEveryKey` | `WalkMeetsEveryKey` |
| `ClientProofs!PagesAreFull` | `FullPages` |
| `ClientProofs!StatsAlwaysCountListed` | `StatsCountListed` |
| `ClientProofs!EdgesAlwaysCountListed` | `EdgesCountListed` |
| `ClientProofs!SwapGroupsAlwaysInOrder` | `SwapGroupsInOrder`, for every limit of at least one |
| `ClientProofs!EveryAnswerTrue` | `EveryAnswerWasTrue`, in the gentle world |
| `ClientProofs!StatusAlwaysCountsItsBlock` | `StatusCountsItsBlock`, in the gentle world |
| `ClientProofs!EveryItemAlwaysAnswered` | `EveryItemAnswered` |
| `UpstreamProofs!UpstreamTypeCorrect` | `UpstreamTypeOK` |
| `UpstreamProofs!AlwaysGivesUpForAReason` | `GivesUpForAReason` |

All are for every value of the constants: any transactions, any set of block
bodies, any reorg depth, mid-tick moves, stops in a rewind and failed peeks
included, but for the conditions named; any number of URLs, callers and attempts; any queries, page
limits and POSTs, and any interleaving of clients with the follower. "In the gentle
world" is `~MidTick`, `~StopInRewind`, `MaxDepth <= 1` and `ReorgUntouched`. The
conditions are needed: `stop_in_rewind`, `deep_reorg` and `orphaned_claim` are
runs that each drop one.

**Assumptions.** `ExtractAssumption`: bodies have well-typed outputs and
witnesses, addresses are derived from keys, `None` is no string and no arm; a transaction's inputs are a sequence.
`NodeAssumption`: bodies are sequences of transactions, the bounds are naturals.
`ConsensusAssumption`: genesis alone is a valid chain, as the node serves no other.
`OldChainsAssumption`: a chain the old release indexed is a valid one from genesis,
within the bounds. `QueriesAssumption`: ids and addresses, being byte strings of one
length, are finitely many, ids and hashlocks have a strict order, and no option is a
cursor. `AskedAssumption`: a page limit is a natural. `PostsAssumption`: a POST has
at least one item, each a method and its parameters. `UpstreamAssumption`: at least one URL and one attempt (`NodeClient::new` refuses
an empty list, `with_retry` raises 0 to 1). TLC evaluates each on every run of a
module that extends theirs.

**The argument for the follower.** `TickInv` (TickTypeOK and TickFitsCheckpoint)
is inductive for the control by itself. `IInv` adds to it the types of the
tables, that the ids in BLOCK_META are histories, `IndexesAgree`, that the
mirrors agree, and `NothingAboveCheckpoint`. The last is not inductive alone:
that an applied block's rows are not above the new checkpoint needs `h` to be the
height of `got`, and that the rewind's cut fits the saved id needs `m` to be one
below the checkpoint with an id of that height, both parts of
TickFitsCheckpoint. Table operations are treated in `StoreProofs`, one lemma per
operation and property: keys are recomputed from the records forgotten, so a
forget removes exactly a record's keys because keys hold the outpoint.

**The argument for the rows.** `RowsFit`, the property itself as a predicate of the
tables, is inductive beside `IInv`. A wipe cuts every table and BLOCK_META at one
height. An apply lists its block at a height where none was listed, because
`NothingAboveCheckpoint` keeps the blocks at or below the checkpoint, so no row
written earlier changes its block; and each new row is of a transaction of the
block. For settlements that needs the last writer of a key (`LastWriterExists`, from
the well-foundedness of the naturals) to be an input of the block that spends the
HTLC with the outcome the row tells.

**The argument for replays.** `AdvanceExactly` says which records an advance
settles and with which spend. A second pass upserts the block's own locks and
settles them as the first did; any other record the first pass settled is in a
final state, which `Advanceable` skips. The secondary indexes follow from
`IndexesAgree` of both results, the other tables from `InsertTwice`.

**The argument for the gentle world.** `NoGap`: the heights listed are those from 0
to the checkpoint, or, between the two commits of a rewind, to the block about to be
named; a stop there is what breaks it. `OneChain`: while a tick runs, what it
fetched and what it is about to store are prefixes of the node's chain. `OneBack`:
the blocks listed are the history of the checkpoint's id, whose parent is on the
node's chain; a reorganisation of one block keeps that, so any number of them
between two ticks does too.

**The argument for the promise.** `IndexInv`: the tables are exactly `RefIndex` of
the block the checkpoint names, or of the one it is about to name. `RefIndex` is
stated from a whole chain, by quantifiers over its positions and inputs, so what an
applied block adds to it needs no induction: a chain's inputs are those of its stem
and those of its last block (`StemInputs`, `LastInputs`), and so for outpoints,
spends and datums; `ApplyIndex` and `WipeIndex` then say that the two write
transactions take the index of a chain to that of the chain with one block more, or
cut. `ApplyIndex` rests on consensus: an HTLC of the new block is spent at most
once, after its lock, by an arm that is open. `WipeIndex` is false of most chains: a
record cut back to its lock would have to forget its settlement. So `CleanInv` keeps,
beside the index, that the checkpoint's block is on the node's chain or spends no
HTLC of a block below (`WipesCleanly`): a reorganisation that orphans the block is
one that `ReorgUntouched` lets happen. `ViewSteps` says that each step of the
follower appends a block to the chain the tables index, takes one off it or leaves
it. `SettlementsFit` relates settlement rows to the chain's spends in the same way; the
row under a key is of its last writer, which is the HTLC itself or one it meets there.

**The argument for settlements.** `StayInv` keeps, in every environment, that the
node's chain and the block about to be applied are valid histories, that every listed
one is as long as its height says, and that a record is settled at or above its lock. A wipe that leaves the settlement's block
listed cuts above it, so above the lock. A block applied on top of a chain that has the
settlement's block neither locks the output again nor spends it, since that chain is
valid with the new block on it.

**The argument for the second walk.** The tables are not the index then: rows of the
first walk are among them. But what is done to a row depends on that row and the
block alone, so each of upsert, advance, insert and cut takes tables that hold more
to tables that hold more (`InsertKeepsWithin` to `KeepKeepsWithin`), and the index of
a chain stays within them (`CoversApply`, `CoversWipe`). `WalkInv` is that, with the
gentle world's invariants for the control, from the moment the version is stamped.

**The argument for one second walk.** `UpgradeInv` is the control's invariant and that no
tick is under way until the store is migrated; so the reset keeps the control
fitting, every other step is one of the control, and those store an id with a
height.

**The argument for walks.** Marks are in a strict total order and so are rows
(`MarkOrder`, `RowOrder`). A row's rank is the number of rows before it; ranks are a
one-to-one map onto the numbers below the listing's size (`Ranks`), so the rows of
rank below the limit are as many as the page has room for (`PageOf`), and the page's
last row is before every row left (`NextOf`). `WalkFits`, which is inductive whatever
becomes of the tables, says that no row seen is past the cursor, and that a row which
has stayed in the listing is past it or has its mark shown. Listings are finite
because ids and addresses are and no row is above the checkpoint (`FiniteTables`).

**The argument for aggregates.** A settlement row tells of a claim or of a reclaim
(`OutcomesTold`, from what a block's settlements are), and the mirror has the keys of
the table, so the two counts make up the rows listed. An edge's total is the size of
a fibre of the map from a settlement to its counterparty, and the sizes of the
fibres add up to the size of the whole (`SumsCount`). The library's induction takes
an operator, which none of the provers can be given; so where a fold is unfolded,
here and below, induction is over a set of naturals (`AllNaturals`), and the fold's
function is shown to exist first (`SumsExist`, `ScanExists`).

**The argument for swap groups.** The keys come in a strict order (`KeysOrdered`), each
once (`SortedKeys`). `ScanFits` says of the scan after i keys: the groups flushed are
those of all shared hashlocks before the current one, and the current group has every
outpoint met under it; where the hashlock changes, or the keys end, that group is
complete (`BoundaryFits`), because keys with one hashlock stand together. Once limit
groups are flushed the scan stands still, and they are the first ones. That the keys
are those of the records' hashlocks is `IndexesAgree`, and that a record has its
output's hashlock is `LocksTold`.

**The argument for answers.** With the tables the index of `View`, each single-key read
answers what `View` calls for (`LocalAnswersTrue`, `CachedSpendTrue`), and the node
answers of its own chain (`NodeSpendTrue`). A handler that has awaited is the hard
part: `PostFits` keeps that one chain observed since the cache missed does not spend the
output, which is what the fallback answers when the node does not know the method; and
that the checkpoint a status answer has read is the stored one until a commit.

**The argument for replies.** `AnswersFit`: the answers so far are no more than the
items and each fits the item at its place; a handler that awaits is of an item that
was not refused, so that the errors it may end in are among the item's codes.

**The argument for the client.** `UpstreamInv` says that a call nothing
interleaved has posted to the URLs the counter passed since it began
(`RoundFollowed`, by `Behind(u)`, how many posts ago the counter was at `u`),
that a URL up all along has failed no post of it (`SteadyAnswers`), and that it
gives up after its last attempt (`AttemptsCounted`). With `Attempts >= N` the
counter passed every URL, so every one was tried, and one that was up would have
answered.

**Model-checked only.** Liveness (`CatchesUp`, `IndexesTheChain`, `CallsEnd`,
`BackfillsDatums`, `WalksEnd`, `PostsEnd`) is out of the prover's reach, as is
`ENABLED`. Every safety invariant and action property of a passing run is proved.

## 5. Where the code and its documents disagree

Each is a run TLC ends with a counterexample, except where noted.

1. `deep_reorg`: `find_common_ancestor` goes back one block and takes the node's
   id there; blocks further down are never compared (follower.rs:335).
2. `stop_in_rewind`: a stop between `wipe_above` and `save_meta`, and a node that
   is back on the old branch by the next tick: a height is never indexed.
3. `orphaned_claim`: a rewind takes back no claim or reclaim of a record whose
   lock it keeps; the record stays settled and later spends are skipped.
4. `settlement_tx`: a settlement row carries the lock's transaction id, since the
   record it is built from has no claim yet.
5. `history_cursor`: the cursor of an address history cannot stand between the
   two rows of a transaction that both spends from and pays the address.
6. `rebuild`: rows of blocks orphaned between the first walk and the second stay
   after an upgrade.

Met while modelling, each visible in the definitions cited, with no run:

* A reorg in the middle of a tick: `FetchBlock` does not compare a block's parent
  with the block before it; with `MidTick = TRUE`, `AppliesOnParent` fails.
* An HTLC locked and settled in one block has no settlement row, since
  `peek_htlc` reads the tables before the block (`Written` of ProcessBlock); a
  second walk (Upgrade) writes one, because the record is there by then.
* Two outputs of one transaction to one address share a row of TX_BY_ADDRESS: the
  last amount stays (`ActivityAmount`).
* Two HTLCs of one transaction settled in one block share a settlement key per
  party: one row stays (`BlockSettlements`, `lastWriter`).
* `process_block` passes over a storage error of `peek_htlc` (follower.rs:267,
  `if let Ok(Some(..))`) and commits the block without that settlement's rows. No
  later tick writes them. With `PeekFails = TRUE`, `SettlementsTellTheHtlcs` fails.
* `find_shared_hashlock_groups` with a limit of 0 returns one group if a key of
  another hashlock follows it (db/mod.rs:884-887, `ScanKey`).
* A page limit of 0 with rows to list panics the blocking task (`RefusePage`).
* A response with `"error": null` is an error to `call` (`Respond`), while
  upstream.rs:82 speaks of a non-null error field.
* Between the two commits of a rewind a reader sees the old block's id with the
  wiped tables: a status answer names a block whose HTLCs are not counted
  (`StatusCountsItsBlock` excepts `pc = "save"`).
* `lag` is the node's tip of one moment less the checkpoint of a later one: it is
  0 or negative also when the index is behind (`NodeAnswersHeight`, `ReadMeta`).
* A client that asks `get_output_spent_by` twice can get a newer answer first, from
  the node on a cache miss, and an older one next, from the cache.
* `--tls` satisfies the rule for public binds (server.rs:256), while the server
  always serves plain HTTP; config.rs:70-72 speaks of TLS termination.
* Calls that interleave may all meet one dead URL: `GivesUpForAReason` needs
  `alone`.

## 6. What is not modelled

Bearer token, bind rule, /healthz, a body that is no JSON and an empty batch:
comparisons made before any state is read. Configuration, start-up, the template
registry (`get_contract_template`): no state, or constant. JSON, the wording of
errors, cursor encodings, `avg_settle_blocks`. A `get_transaction` answer with empty bytes for a
transaction of the chain, which `fetch_tx` calls not expected. The counter of
`next_url` as a 64-bit word: it is kept modulo the number of URLs.

## 7. Plan

Done in this order: Extract, Store, ProcessBlock, Node, Tick, Follower with their
checks and proofs; Reference and AbstractIndexer; Queries and Readers; Upstream
with its proof; Upgrade; Lookups and Api; the proofs of the rows, of replays, of
settlements, of the gentle world, of the refinement, of the second walk, and of what clients are
shown. Next:

1. The safety half of liveness: that a tick which does not fail leaves the checkpoint
   nearer the node's tip, by a measure that each step of `Tick` lowers.
2. That a walk's cursors only move on, and that the rows it has not met are finitely
   many while the follower rests, the step that makes `WalksEnd` true.
3. `ProcessBlock` against the reference for one block of any transactions, without
   the follower around it.
