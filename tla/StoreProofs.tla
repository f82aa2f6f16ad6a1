---------------------------- MODULE StoreProofs ----------------------------
(***************************************************************************)
(* What the write transactions keep true of the tables, for any tables and *)
(* any events.                                                             *)
(***************************************************************************)
EXTENDS Store, TLAPS

(***************************************************************************)
(* The HTLC tables and their secondary indexes.                            *)
(***************************************************************************)

\* Forgetting any set of outpoints keeps the indexes in agreement, because a
\* key names its outpoint.
LEMMA ForgetAgrees ==
  ASSUME NEW t, NEW outs, IndexesAgree(t)
  PROVE  IndexesAgree(ForgetHtlcs(t, outs))
<1> DEFINE kept == Keep(t.full, DOMAIN t.full \ outs)
           gone == Keep(t.full, outs)
           f == ForgetHtlcs(t, outs)
<1>1. /\ DOMAIN kept = DOMAIN t.full \ outs
      /\ DOMAIN gone = DOMAIN t.full \cap outs
      /\ \A o \in DOMAIN kept : kept[o] = t.full[o]
      /\ \A o \in DOMAIN gone : gone[o] = t.full[o]
  BY DEF Keep
<1>2. SenderKeys(t.full) \ SenderKeys(gone) = SenderKeys(kept)
  BY <1>1 DEF SenderKeys, SenderKey
<1>3. ReceiverKeys(t.full) \ ReceiverKeys(gone) = ReceiverKeys(kept)
  BY <1>1 DEF ReceiverKeys, ReceiverKey
<1>4. HashlockKeys(t.full) \ HashlockKeys(gone) = HashlockKeys(kept)
  BY <1>1 DEF HashlockKeys, HashlockKey
<1>5. StateKeys(t.full) \ StateKeys(gone) = StateKeys(kept)
  BY <1>1 DEF StateKeys, StateKey
<1>6. /\ f.full = kept
      /\ f.bySender = t.bySender \ SenderKeys(gone)
      /\ f.byReceiver = t.byReceiver \ ReceiverKeys(gone)
      /\ f.byHashlock = t.byHashlock \ HashlockKeys(gone)
      /\ f.byState = t.byState \ StateKeys(gone)
  BY DEF ForgetHtlcs
<1> QED BY <1>2, <1>3, <1>4, <1>5, <1>6 DEF IndexesAgree

\* Upserting keeps them in agreement, whatever the records.
LEMMA UpsertAgrees ==
  ASSUME NEW t, NEW recs, IndexesAgree(t)
  PROVE  IndexesAgree(UpsertHtlcs(t, recs))
<1> DEFINE f == ForgetHtlcs(t, DOMAIN recs)
           new == Insert(f.full, recs)
           u == UpsertHtlcs(t, recs)
<1>1. IndexesAgree(f)
  BY ForgetAgrees
<1>2. DOMAIN f.full \cap DOMAIN recs = {}
  BY DEF ForgetHtlcs, Keep
<1>3. /\ DOMAIN new = DOMAIN f.full \cup DOMAIN recs
      /\ \A o \in DOMAIN f.full : new[o] = f.full[o]
      /\ \A o \in DOMAIN recs : new[o] = recs[o]
  BY <1>2 DEF Insert
<1> HIDE DEF f, new
<1>4. SenderKeys(f.full) \cup SenderKeys(recs) = SenderKeys(new)
  BY <1>3 DEF SenderKeys, SenderKey
<1>5. ReceiverKeys(f.full) \cup ReceiverKeys(recs) = ReceiverKeys(new)
  BY <1>3 DEF ReceiverKeys, ReceiverKey
<1>6. HashlockKeys(f.full) \cup HashlockKeys(recs) = HashlockKeys(new)
  BY <1>3 DEF HashlockKeys, HashlockKey
<1>7. StateKeys(f.full) \cup StateKeys(recs) = StateKeys(new)
  BY <1>3 DEF StateKeys, StateKey
<1>8. /\ u.full = new
      /\ u.bySender = f.bySender \cup SenderKeys(recs)
      /\ u.byReceiver = f.byReceiver \cup ReceiverKeys(recs)
      /\ u.byHashlock = f.byHashlock \cup HashlockKeys(recs)
      /\ u.byState = f.byState \cup StateKeys(recs)
  BY DEF UpsertHtlcs, f, new
<1> QED BY <1>1, <1>4, <1>5, <1>6, <1>7, <1>8 DEF IndexesAgree

LEMMA AdvanceAgrees ==
  ASSUME NEW t, NEW spends, NEW height, IndexesAgree(t)
  PROVE  IndexesAgree(AdvanceHtlcs(t, spends, height))
<1> DEFINE hit == {s.out : s \in {x \in spends : Advanceable(t.full, x.out)}}
           by(o) == CHOOSE s \in spends : s.out = o
           recs == [o \in hit |-> SettledRecord(t.full[o], by(o), height)]
<1>1. IndexesAgree(ForgetHtlcs(t, hit))
  BY ForgetAgrees
<1> HIDE DEF hit, recs
<1>2. IndexesAgree(UpsertHtlcs(ForgetHtlcs(t, hit), recs))
  BY <1>1, UpsertAgrees
<1> QED BY <1>2 DEF AdvanceHtlcs, hit, recs

(***************************************************************************)
(* Both transactions, on all the tables.                                   *)
(***************************************************************************)
LEMMA ApplyKeepsIndexes ==
  ASSUME NEW d, NEW ev, IndexesAgree(d.htlc)
  PROVE  IndexesAgree(ApplyBlockEvents(d, ev).htlc)
<1>1. IndexesAgree(UpsertHtlcs(d.htlc, ev.locks))
  BY UpsertAgrees
<1>2. IndexesAgree(AdvanceHtlcs(UpsertHtlcs(d.htlc, ev.locks), ev.spends, ev.height))
  BY <1>1, AdvanceAgrees
<1> QED BY <1>2 DEF ApplyBlockEvents

LEMMA WipeKeepsIndexes ==
  ASSUME NEW d, NEW k, IndexesAgree(d.htlc)
  PROVE  IndexesAgree(WipeAbove(d, k).htlc)
BY ForgetAgrees DEF WipeAbove

(***************************************************************************)
(* The mirrored tables.  An outpoint's datum binds one quote id for ever,  *)
(* so a row that is written again has the quote id it had.                 *)
(***************************************************************************)
DatumsBound(rows) == \A o \in DOMAIN rows : rows[o].quote = DatumQuote(o)

MirrorsHold(d) ==
  /\ d.settlement.byAddress = DOMAIN d.settlement.byContract
  /\ d.datum.byQuote = QuoteKeys(d.datum.forward)
  /\ DatumsBound(d.datum.forward)

QuotesOf(S) == {<<DatumQuote(o), o>> : o \in {x \in S : DatumQuote(x) # None}}

\* Such rows lead from quote ids to the outpoints that bind them.
LEMMA QuoteKeysBound ==
  ASSUME NEW rows, DatumsBound(rows)
  PROVE  QuoteKeys(rows) = QuotesOf(DOMAIN rows)
BY DEF DatumsBound, QuoteKeys, QuotesOf

LEMMA ApplyKeepsMirrors ==
  ASSUME NEW d, NEW ev, MirrorsHold(d), DatumsBound(ev.datums)
  PROVE  MirrorsHold(ApplyBlockEvents(d, ev))
<1> DEFINE old == d.datum.forward
           new == Insert(old, ev.datums)
           w == ApplyBlockEvents(d, ev)
<1>1. /\ DOMAIN new = DOMAIN old \cup DOMAIN ev.datums
      /\ \A o \in DOMAIN ev.datums : new[o] = ev.datums[o]
      /\ \A o \in DOMAIN old \ DOMAIN ev.datums : new[o] = old[o]
  BY DEF Insert
<1>2. DatumsBound(new)
  BY <1>1 DEF DatumsBound, MirrorsHold
<1>3. QuoteKeys(old) \cup QuoteKeys(ev.datums) = QuoteKeys(new)
  <2> HIDE DEF new, old
  <2>1. DatumsBound(old) /\ DatumsBound(ev.datums)
    BY DEF MirrorsHold, old
  <2>2. /\ QuoteKeys(old) = QuotesOf(DOMAIN old)
        /\ QuoteKeys(ev.datums) = QuotesOf(DOMAIN ev.datums)
        /\ QuoteKeys(new) = QuotesOf(DOMAIN new)
    BY <1>2, <2>1, QuoteKeysBound
  <2>3. QuotesOf(DOMAIN old) \cup QuotesOf(DOMAIN ev.datums) = QuotesOf(DOMAIN new)
    BY <1>1 DEF QuotesOf
  <2> QED BY <2>2, <2>3
<1>4. DOMAIN Insert(d.settlement.byContract, ev.settlements)
        = DOMAIN d.settlement.byContract \cup DOMAIN ev.settlements
  BY DEF Insert
<1>5. /\ w.datum.forward = new
      /\ w.datum.byQuote = d.datum.byQuote \cup QuoteKeys(ev.datums)
      /\ w.settlement.byContract = Insert(d.settlement.byContract, ev.settlements)
      /\ w.settlement.byAddress = d.settlement.byAddress \cup DOMAIN ev.settlements
  BY DEF ApplyBlockEvents, WriteDatums, WriteSettlements
<1> QED BY <1>2, <1>3, <1>4, <1>5 DEF MirrorsHold

LEMMA WipeKeepsMirrors ==
  ASSUME NEW d, NEW k, MirrorsHold(d)
  PROVE  MirrorsHold(WipeAbove(d, k))
<1> DEFINE old == d.datum.forward
           victims == {o \in DOMAIN old : old[o].height > k}
           gone == Keep(old, victims)
           kept == Keep(old, DOMAIN old \ victims)
           w == WipeAbove(d, k)
<1>1. /\ DOMAIN kept = DOMAIN old \ victims
      /\ DOMAIN gone = victims
      /\ \A o \in DOMAIN kept : kept[o] = old[o]
      /\ \A o \in victims : gone[o] = old[o]
  BY DEF Keep
<1>2. DatumsBound(kept) /\ DatumsBound(gone) /\ DatumsBound(old)
  BY <1>1 DEF DatumsBound, MirrorsHold
<1>3. QuoteKeys(old) \ QuoteKeys(gone) = QuoteKeys(kept)
  <2> HIDE DEF old, gone, kept, victims
  <2>1. /\ QuoteKeys(old) = QuotesOf(DOMAIN old)
        /\ QuoteKeys(gone) = QuotesOf(DOMAIN gone)
        /\ QuoteKeys(kept) = QuotesOf(DOMAIN kept)
    BY <1>2, QuoteKeysBound
  <2>2. victims \subseteq DOMAIN old
    BY DEF victims
  <2>3. QuotesOf(DOMAIN old) \ QuotesOf(DOMAIN gone) = QuotesOf(DOMAIN kept)
    BY <1>1, <2>2 DEF QuotesOf
  <2> QED BY <2>1, <2>3
<1>4. DOMAIN Keep(d.settlement.byContract, {x \in DOMAIN d.settlement.byContract : x[2] <= k})
        = {x \in d.settlement.byAddress : x[2] <= k}
  BY DEF Keep, MirrorsHold
<1>5. /\ w.datum.forward = kept
      /\ w.datum.byQuote = d.datum.byQuote \ QuoteKeys(gone)
      /\ w.settlement.byContract
           = Keep(d.settlement.byContract, {x \in DOMAIN d.settlement.byContract : x[2] <= k})
      /\ w.settlement.byAddress = {x \in d.settlement.byAddress : x[2] <= k}
  BY DEF WipeAbove, WipeDatumsAbove, WipeSettlementsAbove
<1> QED BY <1>2, <1>3, <1>4, <1>5 DEF MirrorsHold

(***************************************************************************)
(* The rows of HTLC_FULL after an upsert and after an advance.             *)
(***************************************************************************)
LEMMA UpsertFull ==
  ASSUME NEW t, NEW recs
  PROVE  LET u == UpsertHtlcs(t, recs).full
         IN  /\ DOMAIN u = DOMAIN t.full \cup DOMAIN recs
             /\ \A o \in DOMAIN recs : u[o] = recs[o]
             /\ \A o \in DOMAIN t.full \ DOMAIN recs : u[o] = t.full[o]
BY DEF UpsertHtlcs, ForgetHtlcs, Insert, Keep

LEMMA AdvanceFull ==
  ASSUME NEW t, NEW spends, NEW height
  PROVE  LET a == AdvanceHtlcs(t, spends, height).full
         IN  /\ DOMAIN a = DOMAIN t.full
             /\ \A o \in DOMAIN a :
                  \/ a[o] = t.full[o]
                  \/ \E s \in spends :
                       s.out = o /\ a[o] = SettledRecord(t.full[o], s, height)
<1> DEFINE hit == {s.out : s \in {x \in spends : Advanceable(t.full, x.out)}}
           by(o) == CHOOSE s \in spends : s.out = o
           recs == [o \in hit |-> SettledRecord(t.full[o], by(o), height)]
           f == ForgetHtlcs(t, hit)
           a == AdvanceHtlcs(t, spends, height).full
<1>1. /\ DOMAIN f.full = DOMAIN t.full \ hit
      /\ \A o \in DOMAIN f.full : f.full[o] = t.full[o]
  BY DEF ForgetHtlcs, Keep
<1>2. hit \subseteq DOMAIN t.full
  BY DEF Advanceable
<1>3. \A o \in hit : by(o) \in spends /\ by(o).out = o
  OBVIOUS
<1>4. DOMAIN recs = hit /\ \A o \in hit : recs[o] = SettledRecord(t.full[o], by(o), height)
  OBVIOUS
<1>5. a = UpsertHtlcs(f, recs).full
  BY DEF AdvanceHtlcs
<1> HIDE DEF hit, f, recs, a, by
<1>6. /\ DOMAIN a = DOMAIN f.full \cup DOMAIN recs
      /\ \A o \in DOMAIN recs : a[o] = recs[o]
      /\ \A o \in DOMAIN f.full \ DOMAIN recs : a[o] = f.full[o]
  BY <1>5, UpsertFull
<1>7. DOMAIN a = DOMAIN t.full
  BY <1>1, <1>2, <1>4, <1>6
<1>8. ASSUME NEW o \in DOMAIN a
      PROVE  \/ a[o] = t.full[o]
             \/ \E s \in spends :
                  s.out = o /\ a[o] = SettledRecord(t.full[o], s, height)
  BY <1>1, <1>3, <1>4, <1>6, <1>7
<1> QED BY <1>7, <1>8 DEF a

(***************************************************************************)
(* Types, and the height no row is above.                                  *)
(***************************************************************************)
SpendOK(s) ==
  /\ s.tx \in Tx
  /\ s.input \in DOMAIN Body[s.tx].ins
  /\ s.arm \in {"claim", "reclaim"}

\* Events of one block: every row they make is of the block's height.
EventsOK(ev) ==
  /\ ev.height \in Nat
  /\ DOMAIN ev.locks \subseteq Outpoint
  /\ \A o \in DOMAIN ev.locks :
       ev.locks[o] \in HtlcRecords /\ ev.locks[o].lockHeight = ev.height
  /\ \A s \in ev.spends : SpendOK(s)
  /\ DOMAIN ev.settlements \subseteq SettlementKeys
  /\ \A k \in DOMAIN ev.settlements : k[2] = ev.height
  /\ DOMAIN ev.activity \subseteq AllActivityKeys
  /\ \A k \in DOMAIN ev.activity : k[2] = ev.height
  /\ \A o \in DOMAIN ev.spentBy : ev.spentBy[o].height = ev.height
  /\ DOMAIN ev.datums \subseteq Outpoint
  /\ \A o \in DOMAIN ev.datums : ev.datums[o].height = ev.height
  /\ DatumsBound(ev.datums)

\* Settling a record keeps its type and its lock height.
LEMMA SettledRecordType ==
  ASSUME NEW rec \in HtlcRecords, NEW s, SpendOK(s), NEW height \in Nat
  PROVE  /\ SettledRecord(rec, s, height) \in HtlcRecords
         /\ SettledRecord(rec, s, height).lockHeight = rec.lockHeight
<1>1. /\ s.input \in Nat
      /\ Body[s.tx].ins[s.input].witness.preimage \in STRING
  BY ExtractAssumption DEF SpendOK, Witnesses
<1> QED BY <1>1 DEF SettledRecord, HtlcRecords, ClaimRecords, ReclaimRecords, HtlcStates, SpendOK

LEMMA ApplyHtlcRows ==
  ASSUME NEW d, NEW ev, TablesOK(d), EventsOK(ev)
  PROVE  LET full == ApplyBlockEvents(d, ev).htlc.full
         IN  /\ DOMAIN full \subseteq Outpoint
             /\ \A o \in DOMAIN full :
                  /\ full[o] \in HtlcRecords
                  /\ \/ full[o].lockHeight = ev.height
                     \/ /\ o \in DOMAIN d.htlc.full
                        /\ full[o].lockHeight = d.htlc.full[o].lockHeight
<1> DEFINE u == UpsertHtlcs(d.htlc, ev.locks)
           full == ApplyBlockEvents(d, ev).htlc.full
<1>1. /\ DOMAIN u.full \subseteq Outpoint
      /\ \A o \in DOMAIN u.full :
           /\ u.full[o] \in HtlcRecords
           /\ \/ u.full[o].lockHeight = ev.height
              \/ /\ o \in DOMAIN d.htlc.full
                 /\ u.full[o].lockHeight = d.htlc.full[o].lockHeight
  BY UpsertFull DEF TablesOK, EventsOK
<1>2. full = AdvanceHtlcs(u, ev.spends, ev.height).full
  BY DEF ApplyBlockEvents
<1> HIDE DEF u, full
<1>3. /\ DOMAIN full = DOMAIN u.full
      /\ \A o \in DOMAIN full :
           \/ full[o] = u.full[o]
           \/ \E s \in ev.spends :
                s.out = o /\ full[o] = SettledRecord(u.full[o], s, ev.height)
  BY <1>2, AdvanceFull
<1>4. \A o \in DOMAIN full :
        full[o] \in HtlcRecords /\ full[o].lockHeight = u.full[o].lockHeight
  BY <1>1, <1>3, SettledRecordType DEF EventsOK
<1> QED BY <1>1, <1>3, <1>4 DEF full

\* Applying well-formed events keeps the types.
LEMMA ApplyKeepsTypes ==
  ASSUME NEW d, NEW ev, TablesOK(d), EventsOK(ev)
  PROVE  TablesOK(ApplyBlockEvents(d, ev))
<1> DEFINE w == ApplyBlockEvents(d, ev)
<1>1. /\ DOMAIN w.htlc.full \subseteq Outpoint
      /\ \A o \in DOMAIN w.htlc.full : w.htlc.full[o] \in HtlcRecords
  BY ApplyHtlcRows
<1>2. DOMAIN w.settlement.byContract \subseteq SettlementKeys
  BY DEF ApplyBlockEvents, WriteSettlements, Insert, TablesOK, EventsOK
<1>3. DOMAIN w.activity \subseteq AllActivityKeys
  BY DEF ApplyBlockEvents, Insert, TablesOK, EventsOK
<1>4. \A o \in DOMAIN w.spentBy : w.spentBy[o].height \in Nat
  BY DEF ApplyBlockEvents, Insert, TablesOK, EventsOK
<1>5. /\ DOMAIN w.datum.forward \subseteq Outpoint
      /\ \A o \in DOMAIN w.datum.forward : w.datum.forward[o].height \in Nat
  BY DEF ApplyBlockEvents, WriteDatums, Insert, TablesOK, EventsOK
<1>6. DOMAIN w.blocks \subseteq Nat
  BY DEF ApplyBlockEvents, Insert, TablesOK, EventsOK
<1> QED BY <1>1, <1>2, <1>3, <1>4, <1>5, <1>6 DEF TablesOK

\* After the apply of a block above all the rows, none is above the block.
LEMMA ApplyRows ==
  ASSUME NEW d, NEW ev, NEW k \in Int,
         TablesOK(d), EventsOK(ev), RowsUpTo(d, k), k <= ev.height
  PROVE  RowsUpTo(ApplyBlockEvents(d, ev), ev.height)
<1> DEFINE w == ApplyBlockEvents(d, ev)
<1>1. \A o \in DOMAIN w.htlc.full : w.htlc.full[o].lockHeight <= ev.height
  <2>1. \A o \in DOMAIN d.htlc.full :
          d.htlc.full[o].lockHeight \in Nat /\ d.htlc.full[o].lockHeight <= k
    BY DEF RowsUpTo, TablesOK, HtlcRecords
  <2>2. ev.height \in Nat
    BY DEF EventsOK
  <2> QED BY <2>1, <2>2, ApplyHtlcRows
<1>2. \A x \in DOMAIN w.settlement.byContract : x[2] <= ev.height
  BY DEF ApplyBlockEvents, WriteSettlements, Insert, TablesOK, EventsOK, RowsUpTo,
         SettlementKeys
<1>3. \A x \in DOMAIN w.activity : x[2] <= ev.height
  BY DEF ApplyBlockEvents, Insert, TablesOK, EventsOK, RowsUpTo, AllActivityKeys
<1>4. \A o \in DOMAIN w.spentBy : w.spentBy[o].height <= ev.height
  BY DEF ApplyBlockEvents, Insert, TablesOK, EventsOK, RowsUpTo
<1>5. \A o \in DOMAIN w.datum.forward : w.datum.forward[o].height <= ev.height
  BY DEF ApplyBlockEvents, WriteDatums, Insert, TablesOK, EventsOK, RowsUpTo
<1>6. \A x \in DOMAIN w.blocks : x <= ev.height
  BY DEF ApplyBlockEvents, Insert, TablesOK, EventsOK, RowsUpTo
<1> QED BY <1>1, <1>2, <1>3, <1>4, <1>5, <1>6 DEF RowsUpTo

\* The wipe only takes rows away.
LEMMA WipeSubtables ==
  ASSUME NEW d, NEW k
  PROVE  LET w == WipeAbove(d, k)
         IN  /\ DOMAIN w.htlc.full = {o \in DOMAIN d.htlc.full :
                                       ~(d.htlc.full[o].lockHeight > k)}
             /\ \A o \in DOMAIN w.htlc.full : w.htlc.full[o] = d.htlc.full[o]
             /\ DOMAIN w.settlement.byContract
                  = {x \in DOMAIN d.settlement.byContract : x[2] <= k}
             /\ DOMAIN w.activity = {x \in DOMAIN d.activity : x[2] <= k}
             /\ DOMAIN w.spentBy = {o \in DOMAIN d.spentBy : d.spentBy[o].height <= k}
             /\ \A o \in DOMAIN w.spentBy : w.spentBy[o] = d.spentBy[o]
             /\ DOMAIN w.datum.forward = {o \in DOMAIN d.datum.forward :
                                           ~(d.datum.forward[o].height > k)}
             /\ \A o \in DOMAIN w.datum.forward : w.datum.forward[o] = d.datum.forward[o]
             /\ DOMAIN w.blocks = {x \in DOMAIN d.blocks : x <= k}
             /\ \A x \in DOMAIN w.blocks : w.blocks[x] = d.blocks[x]
<1> DEFINE w == WipeAbove(d, k)
<1>1. /\ DOMAIN w.htlc.full = {o \in DOMAIN d.htlc.full : ~(d.htlc.full[o].lockHeight > k)}
      /\ \A o \in DOMAIN w.htlc.full : w.htlc.full[o] = d.htlc.full[o]
  BY DEF WipeAbove, ForgetHtlcs, Keep
<1>2. DOMAIN w.settlement.byContract = {x \in DOMAIN d.settlement.byContract : x[2] <= k}
  BY DEF WipeAbove, WipeSettlementsAbove, Keep
<1>3. DOMAIN w.activity = {x \in DOMAIN d.activity : x[2] <= k}
  BY DEF WipeAbove, WipeActivityAbove, Keep
<1>4. /\ DOMAIN w.spentBy = {o \in DOMAIN d.spentBy : d.spentBy[o].height <= k}
      /\ \A o \in DOMAIN w.spentBy : w.spentBy[o] = d.spentBy[o]
  BY DEF WipeAbove, WipeSpentByAbove, Keep
<1>5. /\ DOMAIN w.datum.forward = {o \in DOMAIN d.datum.forward :
                                    ~(d.datum.forward[o].height > k)}
      /\ \A o \in DOMAIN w.datum.forward : w.datum.forward[o] = d.datum.forward[o]
  BY DEF WipeAbove, WipeDatumsAbove, Keep
<1>6. /\ DOMAIN w.blocks = {x \in DOMAIN d.blocks : x <= k}
      /\ \A x \in DOMAIN w.blocks : w.blocks[x] = d.blocks[x]
  BY DEF WipeAbove, Keep
<1> QED BY <1>1, <1>2, <1>3, <1>4, <1>5, <1>6

LEMMA WipeKeepsTypes ==
  ASSUME NEW d, NEW k, TablesOK(d)
  PROVE  TablesOK(WipeAbove(d, k))
BY WipeSubtables DEF TablesOK

\* What the wipe leaves is at the cut or below it, and was there before.
LEMMA WipeRows ==
  ASSUME NEW d, NEW k \in Int, TablesOK(d)
  PROVE  /\ RowsUpTo(WipeAbove(d, k), k)
         /\ \A j \in Int : RowsUpTo(d, j) => RowsUpTo(WipeAbove(d, k), j)
<1> DEFINE w == WipeAbove(d, k)
<1>1. \A o \in DOMAIN w.htlc.full : w.htlc.full[o].lockHeight <= k
  BY WipeSubtables DEF TablesOK, HtlcRecords
<1>2. \A o \in DOMAIN w.datum.forward : w.datum.forward[o].height <= k
  BY WipeSubtables DEF TablesOK
<1>3. RowsUpTo(w, k)
  BY <1>1, <1>2, WipeSubtables DEF RowsUpTo
<1>4. \A j \in Int : RowsUpTo(d, j) => RowsUpTo(w, j)
  BY WipeSubtables DEF RowsUpTo
<1> QED BY <1>3, <1>4
=============================================================================
