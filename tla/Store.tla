------------------------------- MODULE Store -------------------------------
(***************************************************************************)
(* The redb tables of src/src/db/mod.rs and the write transactions the     *)
(* follower commits to them: apply_block_events and wipe_above.  Each is   *)
(* one transaction, so each is one operator from the tables before to the  *)
(* tables after.  The checkpoint row, CHAIN_TIP, is the variable meta of   *)
(* module Tick; the step that applies a block changes both at once.        *)
(*                                                                         *)
(* A table is a function whose domain is the set of keys present; a table  *)
(* whose value is () is that set of keys.  A block id is the history it    *)
(* commits to: the sequence of block bodies from genesis to the block, so  *)
(* the id of a block at height h has length h + 1 and the zero id is <<>>. *)
(***************************************************************************)
EXTENDS Extract, Functions

VARIABLE db

EmptyTable == [k \in {} |-> None]

EmptyDb ==
  [htlc       |-> [full |-> EmptyTable, bySender |-> {}, byReceiver |-> {},
                   byHashlock |-> {}, byState |-> {}],
   settlement |-> [byContract |-> EmptyTable, byAddress |-> {}],
   activity   |-> EmptyTable,
   spentBy    |-> EmptyTable,
   datum      |-> [forward |-> EmptyTable, byQuote |-> {}],
   blocks     |-> EmptyTable]

\* table.insert for every row of rows, table.remove for every key not kept.
Insert(table, rows) ==
  [k \in DOMAIN table \cup DOMAIN rows |->
     IF k \in DOMAIN rows THEN rows[k] ELSE table[k]]

Keep(table, keys) == [k \in DOMAIN table \cap keys |-> table[k]]

(***************************************************************************)
(* HTLC_FULL and its four secondary indexes.  recs is a function from      *)
(* outpoints to records.                                                   *)
(***************************************************************************)
SenderKey(o, rec)   == <<rec.params.sender, rec.lockHeight, o>>
ReceiverKey(o, rec) == <<rec.params.receiver, rec.lockHeight, o>>
HashlockKey(o, rec) == <<rec.params.hashLock, o>>
StateKey(o, rec)    == <<rec.state, rec.lockHeight, o>>

SenderKeys(recs)   == {SenderKey(o, recs[o]) : o \in DOMAIN recs}
ReceiverKeys(recs) == {ReceiverKey(o, recs[o]) : o \in DOMAIN recs}
HashlockKeys(recs) == {HashlockKey(o, recs[o]) : o \in DOMAIN recs}
StateKeys(recs)    == {StateKey(o, recs[o]) : o \in DOMAIN recs}

\* The secondary indexes hold exactly the keys of the records.
IndexesAgree(t) ==
  /\ t.bySender = SenderKeys(t.full)
  /\ t.byReceiver = ReceiverKeys(t.full)
  /\ t.byHashlock = HashlockKeys(t.full)
  /\ t.byState = StateKeys(t.full)

\* Mutant: the state index is left behind.
ForgetHtlcsButState(t, outs) ==
  LET gone == Keep(t.full, outs)
  IN  [full       |-> Keep(t.full, DOMAIN t.full \ outs),
       bySender   |-> t.bySender \ SenderKeys(gone),
       byReceiver |-> t.byReceiver \ ReceiverKeys(gone),
       byHashlock |-> t.byHashlock \ HashlockKeys(gone),
       byState    |-> t.byState]

\* forget_htlc_within_txn, for the records of the given outpoints.
ForgetHtlcs(t, outs) ==
  LET gone == Keep(t.full, outs)
  IN  [full       |-> Keep(t.full, DOMAIN t.full \ outs),
       bySender   |-> t.bySender \ SenderKeys(gone),
       byReceiver |-> t.byReceiver \ ReceiverKeys(gone),
       byHashlock |-> t.byHashlock \ HashlockKeys(gone),
       byState    |-> t.byState \ StateKeys(gone)]

\* Mutant: a record that is there is kept.
UpsertNewHtlcs(t, recs) ==
  LET new == Keep(recs, DOMAIN recs \ DOMAIN t.full)
  IN  [full       |-> Insert(t.full, new),
       bySender   |-> t.bySender \cup SenderKeys(new),
       byReceiver |-> t.byReceiver \cup ReceiverKeys(new),
       byHashlock |-> t.byHashlock \cup HashlockKeys(new),
       byState    |-> t.byState \cup StateKeys(new)]

\* Mutant: a record that is there keeps its state.
UpsertKeepingState(t, recs) ==
  LET f == ForgetHtlcs(t, DOMAIN recs)
      new == [o \in DOMAIN recs |->
                IF o \in DOMAIN t.full THEN [recs[o] EXCEPT !.state = t.full[o].state]
                ELSE recs[o]]
  IN  [full       |-> Insert(f.full, new),
       bySender   |-> f.bySender \cup SenderKeys(new),
       byReceiver |-> f.byReceiver \cup ReceiverKeys(new),
       byHashlock |-> f.byHashlock \cup HashlockKeys(new),
       byState    |-> f.byState \cup StateKeys(new)]

\* upsert_htlc_within_txn: forget the prior record, then write the new one.
UpsertHtlcs(t, recs) ==
  LET f == ForgetHtlcs(t, DOMAIN recs)
  IN  [full       |-> Insert(f.full, recs),
       bySender   |-> f.bySender \cup SenderKeys(recs),
       byReceiver |-> f.byReceiver \cup ReceiverKeys(recs),
       byHashlock |-> f.byHashlock \cup HashlockKeys(recs),
       byState    |-> f.byState \cup StateKeys(recs)]

\* What a spend makes of the record it finds.
SettledRecord(rec, spend, height) ==
  IF spend.arm = "claim"
  THEN [rec EXCEPT !.state = "Claimed",
          !.claim = [tx |-> spend.tx, input |-> spend.input, height |-> height,
                     preimage |-> Body[spend.tx].ins[spend.input].witness.preimage]]
  ELSE [rec EXCEPT !.state = "Reclaimed",
          !.reclaim = [tx |-> spend.tx, input |-> spend.input, height |-> height]]

\* advance_htlc_within_txn skips an outpoint that is no recorded lock and one
\* that is already settled.
Advanceable(full, o) == o \in DOMAIN full /\ full[o].state \notin Settled

\* advance_htlc_within_txn for the spends of one block, which spend distinct
\* outpoints.
AdvanceHtlcs(t, spends, height) ==
  LET hit == {s.out : s \in {x \in spends : Advanceable(t.full, x.out)}}
      by(o) == CHOOSE s \in spends : s.out = o
      recs == [o \in hit |-> SettledRecord(t.full[o], by(o), height)]
  IN  UpsertHtlcs(ForgetHtlcs(t, hit), recs)

(***************************************************************************)
(* The other tables.  Keys begin with the columns of the code's keys:      *)
(* <<address, height, tx>> for a settlement, <<address, height, tx, dir>>  *)
(* for an activity row, the outpoint for SPENT_BY and OUTPUT_DATUM.        *)
(***************************************************************************)
\* SETTLEMENT_BY_ADDRESS holds the keys of SETTLEMENT_BY_CONTRACT with the
\* address and the contract column swapped; the contract is a constant, so the
\* two keys are the same here.
WriteSettlements(s, rows) ==
  [byContract |-> Insert(s.byContract, rows),
   byAddress  |-> s.byAddress \cup DOMAIN rows]

QuoteKeys(rows) ==
  {<<rows[o].quote, o>> : o \in {x \in DOMAIN rows : rows[x].quote # None}}

WriteDatums(d, rows) ==
  [forward |-> Insert(d.forward, rows),
   byQuote |-> d.byQuote \cup QuoteKeys(rows)]

\* apply_block_events, less the checkpoint row.
ApplyBlockEvents(d, ev) ==
  [htlc       |-> AdvanceHtlcs(UpsertHtlcs(d.htlc, ev.locks), ev.spends, ev.height),
   settlement |-> WriteSettlements(d.settlement, ev.settlements),
   activity   |-> Insert(d.activity, ev.activity),
   spentBy    |-> Insert(d.spentBy, ev.spentBy),
   datum      |-> WriteDatums(d.datum, ev.datums),
   blocks     |-> Insert(d.blocks, [k \in {ev.height} |-> ev.id])]

(***************************************************************************)
(* wipe_above(keep_below).                                                 *)
(***************************************************************************)
\* Mutant: the rows stay and only their mirror goes.
WipeMirrorAbove(s, k) ==
  [byContract |-> s.byContract,
   byAddress  |-> {x \in s.byAddress : x[2] <= k}]

WipeSettlementsAbove(s, k) ==
  [byContract |-> Keep(s.byContract, {x \in DOMAIN s.byContract : x[2] <= k}),
   byAddress  |-> {x \in s.byAddress : x[2] <= k}]

WipeActivityAbove(a, k) == Keep(a, {x \in DOMAIN a : x[2] <= k})

\* Mutant: SPENT_BY is forgotten by the wipe.
WipeNoSpentBy(s, k) == s

WipeSpentByAbove(s, k) == Keep(s, {o \in DOMAIN s : s[o].height <= k})

\* Mutant: the reverse rows stay.
WipeForwardDatums(d, k) ==
  [forward |-> Keep(d.forward, {o \in DOMAIN d.forward : d.forward[o].height <= k}),
   byQuote |-> d.byQuote]

WipeDatumsAbove(d, k) ==
  LET victims == {o \in DOMAIN d.forward : d.forward[o].height > k}
  IN  [forward |-> Keep(d.forward, DOMAIN d.forward \ victims),
       byQuote |-> d.byQuote \ QuoteKeys(Keep(d.forward, victims))]

\* Mutant: the HTLCs the ancestor's own block locked are forgotten too.
WipeFromLock(d, k) ==
  [htlc       |-> ForgetHtlcs(d.htlc, {o \in DOMAIN d.htlc.full :
                                         d.htlc.full[o].lockHeight >= k}),
   settlement |-> WipeSettlementsAbove(d.settlement, k),
   activity   |-> WipeActivityAbove(d.activity, k),
   spentBy    |-> WipeSpentByAbove(d.spentBy, k),
   datum      |-> WipeDatumsAbove(d.datum, k),
   blocks     |-> Keep(d.blocks, {x \in DOMAIN d.blocks : x <= k})]

\* Mutant: the ancestor's own block row goes with the blocks above it.
WipeFromBlock(d, k) ==
  [htlc       |-> ForgetHtlcs(d.htlc, {o \in DOMAIN d.htlc.full :
                                         d.htlc.full[o].lockHeight > k}),
   settlement |-> WipeSettlementsAbove(d.settlement, k),
   activity   |-> WipeActivityAbove(d.activity, k),
   spentBy    |-> WipeSpentByAbove(d.spentBy, k),
   datum      |-> WipeDatumsAbove(d.datum, k),
   blocks     |-> Keep(d.blocks, {x \in DOMAIN d.blocks : x < k})]

WipeAbove(d, k) ==
  [htlc       |-> ForgetHtlcs(d.htlc, {o \in DOMAIN d.htlc.full :
                                         d.htlc.full[o].lockHeight > k}),
   settlement |-> WipeSettlementsAbove(d.settlement, k),
   activity   |-> WipeActivityAbove(d.activity, k),
   spentBy    |-> WipeSpentByAbove(d.spentBy, k),
   datum      |-> WipeDatumsAbove(d.datum, k),
   blocks     |-> Keep(d.blocks, {x \in DOMAIN d.blocks : x <= k})]

\* Every row of the tables is of a block at height k or below.
RowsUpTo(d, k) ==
  /\ \A o \in DOMAIN d.htlc.full : d.htlc.full[o].lockHeight <= k
  /\ \A x \in DOMAIN d.settlement.byContract : x[2] <= k
  /\ \A x \in DOMAIN d.activity : x[2] <= k
  /\ \A o \in DOMAIN d.spentBy : d.spentBy[o].height <= k
  /\ \A o \in DOMAIN d.datum.forward : d.datum.forward[o].height <= k
  /\ \A x \in DOMAIN d.blocks : x <= k

(***************************************************************************)
(* The types of the rows, and of the keys their encodings allow.           *)
(***************************************************************************)
ClaimRecords == {None} \cup [tx : Tx, input : Nat, height : Nat, preimage : STRING]
ReclaimRecords == {None} \cup [tx : Tx, input : Nat, height : Nat]
HtlcRecords == [params : HtlcScripts, amount : Nat, lockHeight : Nat,
                state : HtlcStates, claim : ClaimRecords, reclaim : ReclaimRecords]

SettlementKeys == Address \X Nat \X Tx
AllActivityKeys == Address \X Nat \X Tx \X {"in", "out"}

TablesOK(d) ==
  /\ DOMAIN d.htlc.full \subseteq Outpoint
  /\ \A o \in DOMAIN d.htlc.full : d.htlc.full[o] \in HtlcRecords
  /\ DOMAIN d.settlement.byContract \subseteq SettlementKeys
  /\ DOMAIN d.activity \subseteq AllActivityKeys
  /\ \A o \in DOMAIN d.spentBy : d.spentBy[o].height \in Nat
  /\ DOMAIN d.datum.forward \subseteq Outpoint
  /\ \A o \in DOMAIN d.datum.forward : d.datum.forward[o].height \in Nat
  /\ DOMAIN d.blocks \subseteq Nat
=============================================================================
