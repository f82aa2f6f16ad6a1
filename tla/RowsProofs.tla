----------------------------- MODULE RowsProofs ----------------------------
(***************************************************************************)
(* What the rows of the tables mean, for every world of transactions and   *)
(* every environment: each is of a block BLOCK_META lists, and a block     *)
(* applied twice leaves what it left.                                      *)
(***************************************************************************)
EXTENDS FollowerProofs, WellFoundedInduction

(***************************************************************************)
(* Every row is of a listed block.  A block is listed at a height where    *)
(* none was listed before, because the rows end at the checkpoint; so a    *)
(* row written earlier never changes its block.                            *)
(***************************************************************************)

\* What a wipe or an apply leaves of the blocks that are listed.
LEMMA ApplyListsBlock ==
  ASSUME IInv, ApplyToTables
  PROVE  /\ h \in Nat /\ h \notin DOMAIN db.blocks
         /\ DOMAIN db'.blocks = DOMAIN db.blocks \cup {h}
         /\ db'.blocks[h] = got
         /\ \A x \in DOMAIN db.blocks : db'.blocks[x] = db.blocks[x]
<1>0. PICK unread \in Unread : db' = ApplyBlockEvents(db, BlockEvents(db, got, h, unread))
  BY DEF ApplyToTables
<1>1. pc = "apply" /\ db' = ApplyBlockEvents(db, BlockEvents(db, got, h, unread))
  BY <1>0 DEF ApplyToTables, ApplyBlock
<1>2. /\ h \in Nat /\ meta.last \in Nat /\ h = Start(meta)
      /\ meta.id = ZeroId => meta.last = 0
      /\ meta.id # ZeroId => HeightOf(meta.id) = meta.last
  BY <1>1, NodeAssumption
  DEF IInv, TickInv, TickTypeOK, TickFitsCheckpoint, Metas, Heights
<1>3. HeightOf(meta.id) = h - 1
  <2>1. CASE meta.id = ZeroId
    <3>1. HeightOf(meta.id) = -1
      BY <2>1 DEF HeightOf, ZeroId
    <3> QED BY <1>2, <2>1, <3>1 DEF Start
  <2>2. CASE meta.id # ZeroId
    BY <1>2, <2>2 DEF Start
  <2> QED BY <2>1, <2>2
<1>4. h \notin DOMAIN db.blocks
  BY <1>2, <1>3 DEF IInv, NothingAboveCheckpoint, RowsUpTo
<1>5. /\ DOMAIN db'.blocks = DOMAIN db.blocks \cup {h}
      /\ db'.blocks[h] = got
      /\ \A x \in DOMAIN db.blocks : x # h => db'.blocks[x] = db.blocks[x]
  BY <1>1 DEF ApplyBlockEvents, BlockEvents, Insert
<1> QED BY <1>2, <1>4, <1>5

\* The HTLC records after an apply: of a lock of this block, or with the lock
\* height they had.
LEMMA ApplyLockHeights ==
  ASSUME NEW d, NEW ev, TablesOK(d), EventsOK(ev)
  PROVE  LET full == ApplyBlockEvents(d, ev).htlc.full
         IN  \A o \in DOMAIN full :
               \/ o \in DOMAIN ev.locks /\ full[o].lockHeight = ev.height
               \/ o \in DOMAIN d.htlc.full /\ full[o].lockHeight = d.htlc.full[o].lockHeight
<1> DEFINE u == UpsertHtlcs(d.htlc, ev.locks)
           full == ApplyBlockEvents(d, ev).htlc.full
<1>1. \A o \in DOMAIN u.full :
           /\ u.full[o] \in HtlcRecords
           /\ \/ o \in DOMAIN ev.locks /\ u.full[o].lockHeight = ev.height
              \/ o \in DOMAIN d.htlc.full /\ u.full[o].lockHeight = d.htlc.full[o].lockHeight
  BY UpsertFull DEF TablesOK, EventsOK
<1>2. full = AdvanceHtlcs(u, ev.spends, ev.height).full
  BY DEF ApplyBlockEvents
<1> HIDE DEF u, full
<1>3. /\ DOMAIN full = DOMAIN u.full
      /\ \A o \in DOMAIN full :
           \/ full[o] = u.full[o]
           \/ \E s \in ev.spends :
                s.out = o /\ full[o] = SettledRecord(u.full[o], s, ev.height)
  BY <1>2, AdvanceFull
<1>4. \A o \in DOMAIN full : full[o].lockHeight = u.full[o].lockHeight
  BY <1>1, <1>3, SettledRecordType DEF EventsOK
<1> QED BY <1>1, <1>3, <1>4 DEF full

(***************************************************************************)
(* Every non-empty set of naturals below a bound has a greatest element.   *)
(***************************************************************************)
LEMMA Least ==
  ASSUME NEW S \in SUBSET Nat, S # {}
  PROVE  \E x \in S : \A y \in S : x <= y
<1> DEFINE R == OpToRel(<, Nat)
<1>1. IsWellFoundedOn(R, Nat)
  BY NatLessThanWellFounded
<1>2. \A x, y \in Nat : <<x, y>> \notin R => y <= x
  BY DEF OpToRel
<1> HIDE DEF R
<1>3. PICK x \in S : \A y \in S : <<y, x>> \notin R
  BY <1>1, WFMin
<1>4. \A y \in S : x <= y
  BY <1>2, <1>3
<1> QED BY <1>4

LEMMA Greatest ==
  ASSUME NEW S \in SUBSET Nat, S # {}, NEW n \in Nat, \A x \in S : x <= n
  PROVE  \E x \in S : \A y \in S : y <= x
<1> DEFINE D == {n - x : x \in S}
<1>1. \A x \in S : n - x \in Nat
  OBVIOUS
<1>2. D \in SUBSET Nat
  BY <1>1
<1>3. D # {}
  OBVIOUS
<1>4. PICK d \in D : \A e \in D : d <= e
  BY <1>2, <1>3, Least
<1>5. PICK x \in S : d = n - x
  BY <1>4
<1>6. ASSUME NEW y \in S PROVE y <= x
  <2>1. n - y \in D
    OBVIOUS
  <2>2. n - x <= n - y
    BY <1>4, <1>5, <2>1
  <2> QED BY <2>2
<1> QED BY <1>6

\* A measure that stays below a bound is greatest somewhere.
LEMMA GreatestMeasure ==
  ASSUME NEW W, W # {}, NEW f, NEW n \in Nat, \A x \in W : f[x] \in Nat /\ f[x] <= n
  PROVE  \E x \in W : \A y \in W : f[y] <= f[x]
<1> DEFINE S == {f[x] : x \in W}
<1>1. \A i \in S : i \in Nat /\ i <= n
  OBVIOUS
<1>2. S # {} /\ S \in SUBSET Nat
  BY <1>1
<1>3. PICK i \in S : \A j \in S : j <= i
  <2> HIDE DEF S
  <2> QED BY <1>1, <1>2, Greatest
<1>4. PICK x \in W : i = f[x]
  BY <1>3
<1> QED BY <1>3, <1>4

(***************************************************************************)
(* Among the writers of a row one comes last.                              *)
(***************************************************************************)
\* Where a writer stands: a position in the block and an input of the
\* transaction there, which together name the spend.
LEMMA WriterPlace ==
  ASSUME NEW b \in Seq(Tx), NEW x \in BlockSpends(b) \X {"sender", "receiver"}
  PROVE  /\ Position(b, x[1]) \in Nat /\ Position(b, x[1]) <= Len(b)
         /\ b[Position(b, x[1])] = x[1].tx
         /\ Len(Body[x[1].tx].ins) \in Nat
         /\ x[1].input \in Nat /\ x[1].input <= Len(Body[x[1].tx].ins)
         /\ x[1] = [tx |-> x[1].tx, input |-> x[1].input,
                    out |-> Body[x[1].tx].ins[x[1].input].prev,
                    arm |-> InputArm(x[1].tx, x[1].input)]
         /\ x = <<x[1], x[2]>> /\ x[2] \in {"sender", "receiver"}
<1>1. x[1] \in BlockSpends(b) /\ x[2] \in {"sender", "receiver"} /\ x = <<x[1], x[2]>>
  OBVIOUS
<1>2. PICK t \in TxsIn(b) : x[1] \in SpendsOf(t)
  BY <1>1 DEF BlockSpends
<1>3. PICK v \in Inputs(t) :
        x[1] = [tx |-> t, input |-> v, out |-> Body[t].ins[v].prev, arm |-> InputArm(t, v)]
  BY <1>2 DEF SpendsOf
<1>4. PICK i \in DOMAIN b : b[i] = t
  BY DEF TxsIn
<1>5. Position(b, x[1]) \in DOMAIN b /\ b[Position(b, x[1])] = x[1].tx
  BY <1>3, <1>4 DEF Position
<1>6. DOMAIN b = 1 .. Len(b) /\ Len(b) \in Nat /\ t \in Tx
  BY <1>4, LenProperties, ElementOfSeq
<1>7. v \in 1 .. Len(Body[t].ins) /\ Len(Body[t].ins) \in Nat
  BY <1>6, ExtractAssumption DEF Inputs
<1> QED BY <1>1, <1>3, <1>5, <1>6, <1>7

LEMMA LastWriterExists ==
  ASSUME NEW b \in Seq(Tx), NEW W, W # {},
         W \subseteq BlockSpends(b) \X {"sender", "receiver"}
  PROVE  \E x \in W : \A y \in W \ {x} : WrittenBefore(b, y, x)
<1> DEFINE f == [x \in W |-> Position(b, x[1])]
           g == [x \in W |-> x[1].input]
<1>1. PICK u \in W : \A y \in W : f[y] <= f[u]
  <2>1. \A x \in W : f[x] \in Nat /\ f[x] <= Len(b)
    BY WriterPlace
  <2>2. Len(b) \in Nat
    BY LenProperties
  <2> HIDE DEF f
  <2> QED BY <2>1, <2>2, GreatestMeasure
<1> DEFINE U == {x \in W : f[x] = f[u]}
<1>2. ASSUME NEW x \in U
      PROVE  x[1].tx = u[1].tx
  <2>1. Position(b, x[1]) = Position(b, u[1]) /\ x \in W
    OBVIOUS
  <2>2. b[Position(b, x[1])] = x[1].tx /\ b[Position(b, u[1])] = u[1].tx
    BY <2>1, WriterPlace
  <2> QED BY <2>1, <2>2
<1>3. PICK v \in U : \A y \in U : g[y] <= g[v]
  <2>1. \A x \in U : g[x] \in Nat /\ g[x] <= Len(Body[u[1].tx].ins)
    BY <1>2, WriterPlace
  <2>2. Len(Body[u[1].tx].ins) \in Nat
    BY WriterPlace
  <2>3. U # {}
    OBVIOUS
  <2> HIDE DEF g, U
  <2> QED BY <2>1, <2>2, <2>3, GreatestMeasure
<1>4. \A x \in U : g[x] = g[v] => x[1] = v[1]
  <2> SUFFICES ASSUME NEW x \in U, g[x] = g[v] PROVE x[1] = v[1]
    OBVIOUS
  <2>1. x[1].tx = v[1].tx /\ x[1].input = v[1].input
    BY <1>2
  <2>2. x \in W /\ v \in W
    OBVIOUS
  <2>3. /\ x[1] = [tx |-> x[1].tx, input |-> x[1].input,
                   out |-> Body[x[1].tx].ins[x[1].input].prev,
                   arm |-> InputArm(x[1].tx, x[1].input)]
        /\ v[1] = [tx |-> v[1].tx, input |-> v[1].input,
                   out |-> Body[v[1].tx].ins[v[1].input].prev,
                   arm |-> InputArm(v[1].tx, v[1].input)]
    BY <2>2, WriterPlace
  <2> HIDE DEF U, g
  <2> QED BY <2>1, <2>3, Zenon
<1> DEFINE last == IF <<v[1], "receiver">> \in W THEN <<v[1], "receiver">> ELSE v
<1>5. last \in W /\ last[1] = v[1]
  OBVIOUS
<1>6. ASSUME NEW y \in W \ {last}
      PROVE  WrittenBefore(b, y, last)
  <2>1. /\ Position(b, y[1]) = f[y] /\ Position(b, last[1]) = f[u]
        /\ f[y] \in Nat /\ f[u] \in Nat /\ f[y] <= f[u]
    BY <1>1, <1>5, WriterPlace
  <2>2. CASE f[y] # f[u]
    <3>1. Position(b, y[1]) < Position(b, last[1])
      BY <2>1, <2>2
    <3> QED BY <3>1 DEF WrittenBefore
  <2>3. CASE y \in U /\ g[y] # g[v]
    <3>1. g[y] = y[1].input /\ g[v] = last[1].input /\ g[y] \in Nat /\ g[v] \in Nat
      BY <1>5, WriterPlace
    <3>2. y[1].input < last[1].input
      BY <1>3, <2>3, <3>1
    <3>3. y[1].tx = last[1].tx
      BY <1>2, <1>5, <2>3
    <3> QED BY <3>2, <3>3 DEF WrittenBefore
  <2>4. CASE y \in U /\ g[y] = g[v]
    <3>1. y[1] = v[1]
      BY <1>4, <2>4
    <3>2. y = <<v[1], y[2]>> /\ y[2] \in {"sender", "receiver"}
      BY <3>1, WriterPlace
    <3>3. v \in W /\ v = <<v[1], v[2]>> /\ v[2] \in {"sender", "receiver"}
      BY WriterPlace
    <3>4. y[2] = "sender" /\ last[2] = "receiver"
      BY <1>6, <3>2, <3>3
    <3> QED BY <1>5, <3>1, <3>4 DEF WrittenBefore
  <2> QED BY <2>2, <2>3, <2>4
<1> QED BY <1>5, <1>6

\* A settlement row tells of a spend of its block: of the HTLC it names, by the
\* arm it names.
LEMMA BlockSettlementsTellSpends ==
  ASSUME NEW b \in Seq(Tx), NEW height, NEW full,
         \A o \in DOMAIN full : full[o] \in HtlcRecords,
         NEW k \in DOMAIN BlockSettlements(b, height, full)
  PROVE  LET row == BlockSettlements(b, height, full)[k]
         IN  \E s \in BlockSpends(b) :
               /\ s.out = row.lock
               /\ row.outcome = IF s.arm = "claim" THEN "Claimed" ELSE "Reclaimed"
<1> DEFINE key(x) == SettlementKey(full, x[1], x[2], height)
           W == {x \in Written(b, full) : key(x) = k}
           last == CHOOSE x \in W : \A y \in W \ {x} : WrittenBefore(b, y, x)
           row == SettlementRow(last[1].out, Peeked(full, last[1]), last[2])
<1>1. k \in {key(x) : x \in Written(b, full)}
  BY DEF BlockSettlements
<1>2. BlockSettlements(b, height, full)[k] = row
  BY <1>1 DEF BlockSettlements
<1>3. W # {} /\ W \subseteq BlockSpends(b) \X {"sender", "receiver"}
  BY <1>1 DEF Written
<1>4. last \in W
  <2> HIDE DEF W
  <2>1. \E x \in W : \A y \in W \ {x} : WrittenBefore(b, y, x)
    BY <1>3, LastWriterExists
  <2> QED BY <2>1
<1>5. last[1] \in BlockSpends(b) /\ full[last[1].out] \in HtlcRecords
  BY <1>4 DEF Written
<1> HIDE DEF last
<1>6. /\ row.lock = last[1].out
      /\ row.outcome = IF last[1].arm = "claim" THEN "Claimed" ELSE "Reclaimed"
  BY <1>5 DEF SettlementRow, Peeked, HtlcRecords
<1> HIDE DEF row
<1> QED BY <1>2, <1>5, <1>6

(***************************************************************************)
(* RowsHaveTheirBlock, of any tables: kept by the wipe and by the apply of *)
(* a block at a height where none is listed.                               *)
(***************************************************************************)
Carries(blocks, x, t) == x \in DOMAIN blocks /\ t \in TxsIn(BodyOf(blocks[x]))

SpendsHtlc(blocks, x, o, state) ==
  /\ x \in DOMAIN blocks
  /\ \E s \in BlockSpends(BodyOf(blocks[x])) :
        s.out = o /\ (state = "Claimed" <=> s.arm = "claim")

RowsFit(d) ==
  /\ d.activity = RefActivity(d.blocks)
  /\ \A o \in DOMAIN d.htlc.full : Carries(d.blocks, d.htlc.full[o].lockHeight, o[1])
  /\ \A k \in DOMAIN d.settlement.byContract :
       SpendsHtlc(d.blocks, k[2], d.settlement.byContract[k].lock,
                  d.settlement.byContract[k].outcome)
  /\ \A o \in DOMAIN d.spentBy : Carries(d.blocks, d.spentBy[o].height, d.spentBy[o].tx)
  /\ \A o \in DOMAIN d.datum.forward :
       Carries(d.blocks, d.datum.forward[o].height, o[1])

LEMMA RowsFitIsProperty == RowsHaveTheirBlock <=> RowsFit(db)
BY DEF RowsHaveTheirBlock, RowsFit, BlockCarries, Carries, BlockSpendsHtlc, SpendsHtlc

\* Adding a block's activity rows to those of the blocks listed before it gives
\* those of all the blocks: a key has its height, a row is made from its key.
LEMMA ApplyActivity ==
  ASSUME NEW d, NEW id, NEW height, height \notin DOMAIN d.blocks, NEW w, NEW unread,
         w = ApplyBlockEvents(d, BlockEvents(d, id, height, unread)),
         d.activity = RefActivity(d.blocks)
  PROVE  w.activity = RefActivity(w.blocks)
<1> DEFINE keys(x) == ActivityKeys(BodyOf(d.blocks[x]), x)
           keysNow(x) == ActivityKeys(BodyOf(w.blocks[x]), x)
           new == BlockActivity(BodyOf(id), height)
           K == UNION {keysNow(x) : x \in DOMAIN w.blocks}
<1>1. w.activity = Insert(d.activity, new)
  BY DEF ApplyBlockEvents, BlockEvents
<1>2. /\ DOMAIN w.blocks = DOMAIN d.blocks \cup {height}
      /\ w.blocks[height] = id
      /\ \A x \in DOMAIN d.blocks : w.blocks[x] = d.blocks[x]
  BY DEF ApplyBlockEvents, BlockEvents, Insert
<1>3. /\ DOMAIN new = keysNow(height)
      /\ \A k \in DOMAIN new : new[k] = ActivityRow(k[3], k[4], k[1])
  BY <1>2 DEF BlockActivity
<1>4. /\ DOMAIN d.activity = UNION {keys(x) : x \in DOMAIN d.blocks}
      /\ \A k \in DOMAIN d.activity : d.activity[k] = ActivityRow(k[3], k[4], k[1])
  BY DEF RefActivity
<1>5. \A x \in DOMAIN d.blocks : keysNow(x) = keys(x)
  BY <1>2
<1>6. DOMAIN d.activity \cup DOMAIN new = K
  <2> HIDE DEF new, keys, keysNow
  <2> QED BY <1>2, <1>3, <1>4, <1>5
<1>7. \A k \in K : (IF k \in DOMAIN new THEN new[k] ELSE d.activity[k])
                      = ActivityRow(k[3], k[4], k[1])
  <2> HIDE DEF new, K
  <2> QED BY <1>3, <1>4, <1>6
<1>8. Insert(d.activity, new)
        = [k \in K |-> IF k \in DOMAIN new THEN new[k] ELSE d.activity[k]]
  BY <1>6 DEF Insert
<1>9. RefActivity(w.blocks) = [k \in K |-> ActivityRow(k[3], k[4], k[1])]
  BY DEF RefActivity
<1> HIDE DEF new, K
<1> QED BY <1>1, <1>7, <1>8, <1>9

\* The wipe cuts the activity rows and the blocks at one height.
LEMMA WipeActivity ==
  ASSUME NEW d, NEW k, NEW w, w = WipeAbove(d, k), d.activity = RefActivity(d.blocks)
  PROVE  w.activity = RefActivity(w.blocks)
<1> DEFINE keys(x) == ActivityKeys(BodyOf(d.blocks[x]), x)
           keysNow(x) == ActivityKeys(BodyOf(w.blocks[x]), x)
           K == UNION {keysNow(x) : x \in DOMAIN w.blocks}
<1>1. /\ DOMAIN w.blocks = {x \in DOMAIN d.blocks : x <= k}
      /\ \A x \in DOMAIN w.blocks : w.blocks[x] = d.blocks[x]
  BY WipeSubtables
<1>2. /\ DOMAIN d.activity = UNION {keys(x) : x \in DOMAIN d.blocks}
      /\ \A y \in DOMAIN d.activity : d.activity[y] = ActivityRow(y[3], y[4], y[1])
  BY DEF RefActivity
<1>3. \A x \in DOMAIN d.blocks : \A y \in keys(x) : y[2] = x
  BY DEF ActivityKeys
<1>4. \A x \in DOMAIN w.blocks : keysNow(x) = keys(x)
  BY <1>1
<1>5. K = {y \in DOMAIN d.activity : y[2] <= k}
  <2> HIDE DEF keys, keysNow
  <2>1. ASSUME NEW y \in K PROVE y \in DOMAIN d.activity /\ y[2] <= k
    <3>1. PICK x \in DOMAIN w.blocks : y \in keysNow(x)
      OBVIOUS
    <3>2. x \in DOMAIN d.blocks /\ x <= k /\ y \in keys(x)
      BY <1>1, <1>4, <3>1
    <3> QED BY <1>2, <1>3, <3>2
  <2>2. ASSUME NEW y \in DOMAIN d.activity, y[2] <= k PROVE y \in K
    <3>1. PICK x \in DOMAIN d.blocks : y \in keys(x)
      BY <1>2
    <3>2. x \in DOMAIN w.blocks
      BY <1>1, <1>3, <2>2, <3>1
    <3> QED BY <1>4, <3>1, <3>2
  <2> HIDE DEF K
  <2> QED BY <2>1, <2>2
<1>6. w.activity = [y \in K |-> d.activity[y]]
  <2> HIDE DEF K
  <2>1. w.activity = Keep(d.activity, {y \in DOMAIN d.activity : y[2] <= k})
    BY DEF WipeAbove, WipeActivityAbove
  <2>2. DOMAIN d.activity \cap {y \in DOMAIN d.activity : y[2] <= k} = K
    BY <1>5
  <2> QED BY <2>1, <2>2 DEF Keep
<1>7. RefActivity(w.blocks) = [y \in K |-> ActivityRow(y[3], y[4], y[1])]
  BY DEF RefActivity
<1>8. \A y \in K : d.activity[y] = ActivityRow(y[3], y[4], y[1])
  <2> HIDE DEF K
  <2> QED BY <1>2, <1>5
<1> HIDE DEF K
<1> QED BY <1>6, <1>7, <1>8

LEMMA WipeKeepsRows ==
  ASSUME NEW d, TablesOK(d), RowsFit(d), NEW k \in Nat
  PROVE  RowsFit(WipeAbove(d, k))
<1> DEFINE w == WipeAbove(d, k)
<1>1. /\ DOMAIN w.blocks = {x \in DOMAIN d.blocks : x <= k}
      /\ \A x \in DOMAIN w.blocks : w.blocks[x] = d.blocks[x]
  BY WipeSubtables
<1>2. w.activity = RefActivity(w.blocks)
  BY WipeActivity DEF RowsFit
<1>3. \A o \in DOMAIN w.htlc.full :
        /\ o \in DOMAIN d.htlc.full /\ w.htlc.full[o] = d.htlc.full[o]
        /\ d.htlc.full[o].lockHeight <= k
  BY WipeSubtables DEF TablesOK, HtlcRecords
<1>4. \A y \in DOMAIN w.settlement.byContract :
        /\ y \in DOMAIN d.settlement.byContract /\ y[2] <= k
        /\ w.settlement.byContract[y] = d.settlement.byContract[y]
  BY DEF WipeAbove, WipeSettlementsAbove, Keep
<1>5. \A o \in DOMAIN w.spentBy :
        /\ o \in DOMAIN d.spentBy /\ w.spentBy[o] = d.spentBy[o]
        /\ d.spentBy[o].height <= k
  BY WipeSubtables
<1>6. \A o \in DOMAIN w.datum.forward :
        /\ o \in DOMAIN d.datum.forward /\ w.datum.forward[o] = d.datum.forward[o]
        /\ d.datum.forward[o].height <= k
  BY WipeSubtables DEF TablesOK
<1> HIDE DEF w
<1>7. \A x, t : x <= k /\ Carries(d.blocks, x, t) => Carries(w.blocks, x, t)
  BY <1>1 DEF Carries
<1>8. \A x, o, state : x <= k /\ SpendsHtlc(d.blocks, x, o, state)
                         => SpendsHtlc(w.blocks, x, o, state)
  BY <1>1 DEF SpendsHtlc
<1>9. \A o \in DOMAIN w.htlc.full : Carries(w.blocks, w.htlc.full[o].lockHeight, o[1])
  BY <1>3, <1>7 DEF RowsFit
<1>10. \A y \in DOMAIN w.settlement.byContract :
         SpendsHtlc(w.blocks, y[2], w.settlement.byContract[y].lock,
                    w.settlement.byContract[y].outcome)
  BY <1>4, <1>8 DEF RowsFit
<1>11. \A o \in DOMAIN w.spentBy : Carries(w.blocks, w.spentBy[o].height, w.spentBy[o].tx)
  BY <1>5, <1>7 DEF RowsFit
<1>12. \A o \in DOMAIN w.datum.forward :
         Carries(w.blocks, w.datum.forward[o].height, o[1])
  BY <1>6, <1>7 DEF RowsFit
<1> QED BY <1>2, <1>9, <1>10, <1>11, <1>12 DEF RowsFit, w

LEMMA ApplyKeepsRows ==
  ASSUME NEW d, TablesOK(d), RowsFit(d), NEW id \in Histories, Len(id) # 0,
         NEW height \in Nat, height \notin DOMAIN d.blocks, NEW unread
  PROVE  RowsFit(ApplyBlockEvents(d, BlockEvents(d, id, height, unread)))
<1> DEFINE ev == BlockEvents(d, id, height, unread)
           b == BodyOf(id)
           full == PeekHtlcs(d.htlc.full, unread)
           w == ApplyBlockEvents(d, ev)
<1>1. b \in Seq(Tx) /\ TxsIn(b) \subseteq Tx
  BY BodyOfType
<1>2. EventsOK(ev) /\ ev.height = height
  BY BlockEventsOK
<1>3. /\ DOMAIN w.blocks = DOMAIN d.blocks \cup {height}
      /\ w.blocks[height] = id
      /\ \A x \in DOMAIN d.blocks : w.blocks[x] = d.blocks[x]
  BY DEF ApplyBlockEvents, BlockEvents, Insert
<1>4. w.activity = RefActivity(w.blocks)
  BY ApplyActivity DEF RowsFit
<1>5. /\ ev.locks = BlockLocks(b, height)
      /\ ev.settlements = BlockSettlements(b, height, full)
      /\ ev.spentBy = BlockSpentBy(b, height)
      /\ ev.datums = BlockDatums(b, height)
  BY DEF BlockEvents
<1>6. \A o \in DOMAIN w.htlc.full :
        \/ o \in DOMAIN ev.locks /\ w.htlc.full[o].lockHeight = height
        \/ o \in DOMAIN d.htlc.full /\ w.htlc.full[o].lockHeight = d.htlc.full[o].lockHeight
  <2> HIDE DEF ev
  <2> QED BY <1>2, ApplyLockHeights
<1>7. /\ w.settlement.byContract = Insert(d.settlement.byContract, ev.settlements)
      /\ w.spentBy = Insert(d.spentBy, ev.spentBy)
      /\ w.datum.forward = Insert(d.datum.forward, ev.datums)
  BY DEF ApplyBlockEvents, WriteSettlements, WriteDatums
<1>8. BodyOf(w.blocks[height]) = b /\ height \in DOMAIN w.blocks
  BY <1>3
<1>0. \A o \in DOMAIN full : full[o] \in HtlcRecords
  BY DEF TablesOK, PeekHtlcs, Keep
<1> HIDE DEF ev, b, w, full
<1>9. \A x, t : Carries(d.blocks, x, t) => Carries(w.blocks, x, t)
  BY <1>3 DEF Carries
<1>10. \A x, o, state : SpendsHtlc(d.blocks, x, o, state) => SpendsHtlc(w.blocks, x, o, state)
  BY <1>3 DEF SpendsHtlc
<1>11. \A t \in TxsIn(b) : Carries(w.blocks, height, t)
  BY <1>8 DEF Carries
<1>12. ASSUME NEW o \in DOMAIN w.htlc.full
       PROVE  Carries(w.blocks, w.htlc.full[o].lockHeight, o[1])
  <2>1. CASE o \in DOMAIN ev.locks /\ w.htlc.full[o].lockHeight = height
    <3>1. o[1] \in TxsIn(b)
      BY <1>5, <2>1 DEF BlockLocks, LockedIn, OutpointsOf
    <3> QED BY <1>11, <2>1, <3>1
  <2>2. CASE /\ o \in DOMAIN d.htlc.full
             /\ w.htlc.full[o].lockHeight = d.htlc.full[o].lockHeight
    BY <1>9, <2>2 DEF RowsFit
  <2> QED BY <1>6, <2>1, <2>2
<1>13. ASSUME NEW k \in DOMAIN w.settlement.byContract
       PROVE  SpendsHtlc(w.blocks, k[2], w.settlement.byContract[k].lock,
                         w.settlement.byContract[k].outcome)
  <2>1. CASE k \in DOMAIN ev.settlements
    <3>1. w.settlement.byContract[k] = ev.settlements[k] /\ k[2] = height
      BY <1>2, <1>7, <2>1 DEF Insert, EventsOK
    <3>3. \E s \in BlockSpends(b) :
            /\ s.out = ev.settlements[k].lock
            /\ ev.settlements[k].outcome = "Claimed" <=> s.arm = "claim"
      BY <1>0, <1>1, <1>5, <2>1, BlockSettlementsTellSpends
    <3> QED BY <1>8, <3>1, <3>3 DEF SpendsHtlc
  <2>2. CASE k \notin DOMAIN ev.settlements
    <3>1. /\ k \in DOMAIN d.settlement.byContract
          /\ w.settlement.byContract[k] = d.settlement.byContract[k]
      BY <1>7, <2>2 DEF Insert
    <3> QED BY <1>10, <3>1 DEF RowsFit
  <2> QED BY <2>1, <2>2
<1>14. ASSUME NEW o \in DOMAIN w.spentBy
       PROVE  Carries(w.blocks, w.spentBy[o].height, w.spentBy[o].tx)
  <2>1. CASE o \in DOMAIN ev.spentBy
    <3>1. w.spentBy[o] = ev.spentBy[o]
      BY <1>7, <2>1 DEF Insert
    <3>2. ev.spentBy[o].height = height /\ ev.spentBy[o].tx \in TxsIn(b)
      <4> DEFINE p == CHOOSE q \in Spending(b) : Prev(q[1], q[2]) = o
      <4>1. ev.spentBy[o] = [tx |-> p[1], input |-> p[2], height |-> height]
        BY <1>5, <2>1 DEF BlockSpentBy
      <4>2. \E q \in Spending(b) : Prev(q[1], q[2]) = o
        BY <1>5, <2>1 DEF BlockSpentBy
      <4>3. p \in Spending(b)
        BY <4>2
      <4> HIDE DEF p
      <4>4. p[1] \in TxsIn(b)
        BY <4>3 DEF Spending
      <4> QED BY <4>1, <4>4
    <3> QED BY <1>11, <3>1, <3>2
  <2>2. CASE o \notin DOMAIN ev.spentBy
    <3>1. o \in DOMAIN d.spentBy /\ w.spentBy[o] = d.spentBy[o]
      BY <1>7, <2>2 DEF Insert
    <3> QED BY <1>9, <3>1 DEF RowsFit
  <2> QED BY <2>1, <2>2
<1>15. ASSUME NEW o \in DOMAIN w.datum.forward
       PROVE  Carries(w.blocks, w.datum.forward[o].height, o[1])
  <2>1. CASE o \in DOMAIN ev.datums
    <3>1. o[1] \in TxsIn(b) /\ ev.datums[o].height = height
      BY <1>5, <2>1 DEF BlockDatums, OutpointsOf
    <3>2. w.datum.forward[o] = ev.datums[o]
      BY <1>7, <2>1 DEF Insert
    <3> QED BY <1>11, <3>1, <3>2
  <2>2. CASE o \notin DOMAIN ev.datums
    <3>1. o \in DOMAIN d.datum.forward /\ w.datum.forward[o] = d.datum.forward[o]
      BY <1>7, <2>2 DEF Insert
    <3> QED BY <1>9, <3>1 DEF RowsFit
  <2> QED BY <2>1, <2>2
<1>16. RowsFit(w)
  BY <1>4, <1>12, <1>13, <1>14, <1>15 DEF RowsFit
<1> QED BY <1>16 DEF w, ev

LEMMA RowsInit == Init => RowsFit(db)
<1> SUFFICES ASSUME Init PROVE RowsFit(db)
  OBVIOUS
<1>1. db = EmptyDb /\ DOMAIN EmptyTable = {}
  BY DEF Init, EmptyTable
<1>2. RefActivity(EmptyTable) = EmptyTable
  BY <1>1 DEF RefActivity, EmptyTable
<1> HIDE DEF EmptyTable
<1> QED BY <1>1, <1>2 DEF RowsFit, EmptyDb

LEMMA RowsNext == IInv /\ RowsFit(db) /\ [Next]_vars => RowsFit(db')
<1> SUFFICES ASSUME IInv, RowsFit(db), [Next]_vars PROVE RowsFit(db')
  OBVIOUS
<1>1. CASE WipeTables
  <2>1. db' = WipeAbove(db, m.last) /\ m.last \in Nat
    BY <1>1, NodeAssumption DEF WipeTables, IInv, TickInv, TickTypeOK, Metas, Heights
  <2> QED BY <2>1, WipeKeepsRows DEF IInv
<1>2. CASE ApplyToTables
  <2>0. PICK unread \in Unread : db' = ApplyBlockEvents(db, BlockEvents(db, got, h, unread))
    BY <1>2 DEF ApplyToTables
  <2>1. /\ pc = "apply" /\ db' = ApplyBlockEvents(db, BlockEvents(db, got, h, unread))
        /\ got \in Histories /\ HeightOf(got) = h
    BY <1>2, <2>0 DEF ApplyToTables, ApplyBlock, IInv, TickInv, TickTypeOK, TickFitsCheckpoint
  <2>2. h \in Nat /\ h \notin DOMAIN db.blocks
    BY <1>2, ApplyListsBlock
  <2>3. Len(got) # 0
    <3>1. Len(got) \in Nat
      BY <2>1, LenProperties DEF Histories
    <3> QED BY <2>1, <2>2, <3>1 DEF HeightOf
  <2> QED BY <2>1, <2>2, <2>3, ApplyKeepsRows DEF IInv
<1>3. CASE db' = db
  BY <1>3
<1> QED BY <1>1, <1>2, <1>3 DEF Next, LeaveTables, vars

\* Whatever the node does and wherever ticks stop, every row of every table is of
\* a transaction in a block that is listed at the row's height: reorganisations
\* never leave a row whose block is gone.
THEOREM RowsAlwaysHaveTheirBlock == Spec => []RowsHaveTheirBlock
<1>1. Init => RowsFit(db)
  BY RowsInit
<1>2. IInv /\ RowsFit(db) /\ [Next]_vars => RowsFit(db)'
  BY RowsNext
<1>3. RowsFit(db) => RowsHaveTheirBlock
  BY RowsFitIsProperty
<1> QED BY <1>1, <1>2, <1>3, Invariant, PTL DEF Spec

(***************************************************************************)
(* What a block's transaction does to the HTLC records, exactly; and from  *)
(* it: a record that is settled stays as it is unless its lock is applied  *)
(* again, and a block applied twice leaves what it leaves when applied     *)
(* once.                                                                   *)
(***************************************************************************)

\* The outpoints an advance settles, and the spend that settles each.
Hit(full, spends) == {s.out : s \in {x \in spends : Advanceable(full, x.out)}}

Settler(spends, o) == CHOOSE s \in spends : s.out = o

\* An advance settles the records it hits and leaves every other as it is.
LEMMA AdvanceExactly ==
  ASSUME NEW t, NEW spends, NEW height
  PROVE  LET a == AdvanceHtlcs(t, spends, height).full
         IN  /\ DOMAIN a = DOMAIN t.full
             /\ \A o \in Hit(t.full, spends) :
                  a[o] = SettledRecord(t.full[o], Settler(spends, o), height)
             /\ \A o \in DOMAIN t.full \ Hit(t.full, spends) : a[o] = t.full[o]
<1> DEFINE hit == Hit(t.full, spends)
           recs == [o \in hit |-> SettledRecord(t.full[o], Settler(spends, o), height)]
           f == ForgetHtlcs(t, hit)
           a == AdvanceHtlcs(t, spends, height).full
<1>1. /\ DOMAIN f.full = DOMAIN t.full \ hit
      /\ \A o \in DOMAIN f.full : f.full[o] = t.full[o]
  BY DEF ForgetHtlcs, Keep
<1>2. hit \subseteq DOMAIN t.full
  BY DEF Hit, Advanceable
<1>3. /\ DOMAIN recs = hit
      /\ \A o \in hit : recs[o] = SettledRecord(t.full[o], Settler(spends, o), height)
  OBVIOUS
<1>4. a = UpsertHtlcs(f, recs).full
  BY DEF AdvanceHtlcs, Hit, Settler
<1> HIDE DEF hit, f, recs, a
<1>5. /\ DOMAIN a = DOMAIN f.full \cup DOMAIN recs
      /\ \A o \in DOMAIN recs : a[o] = recs[o]
      /\ \A o \in DOMAIN f.full \ DOMAIN recs : a[o] = f.full[o]
  BY <1>4, UpsertFull
<1>6. /\ DOMAIN a = DOMAIN t.full
      /\ \A o \in hit : a[o] = SettledRecord(t.full[o], Settler(spends, o), height)
      /\ \A o \in DOMAIN t.full \ hit : a[o] = t.full[o]
  BY <1>1, <1>2, <1>3, <1>5
<1> QED BY <1>6 DEF hit, a

\* A settled record is in a final state.
LEMMA SettledIsFinal ==
  ASSUME NEW rec \in HtlcRecords, NEW s, NEW height
  PROVE  SettledRecord(rec, s, height).state \in Settled
BY DEF SettledRecord, HtlcRecords, Settled

(***************************************************************************)
(* No later spend replaces a settlement.                                   *)
(***************************************************************************)
LEMMA ApplyKeepsSettled ==
  ASSUME NEW d, NEW ev, NEW o \in DOMAIN d.htlc.full,
         d.htlc.full[o].state \in Settled, o \notin DOMAIN ev.locks
  PROVE  /\ o \in DOMAIN ApplyBlockEvents(d, ev).htlc.full
         /\ ApplyBlockEvents(d, ev).htlc.full[o] = d.htlc.full[o]
<1> DEFINE t == UpsertHtlcs(d.htlc, ev.locks)
           a == AdvanceHtlcs(t, ev.spends, ev.height)
<1>1. ApplyBlockEvents(d, ev).htlc.full = a.full
  BY DEF ApplyBlockEvents
<1>2. o \in DOMAIN t.full /\ t.full[o] = d.htlc.full[o]
  BY UpsertFull
<1> HIDE DEF t
<1>3. o \notin Hit(t.full, ev.spends)
  BY <1>2 DEF Hit, Advanceable
<1>4. o \in DOMAIN a.full /\ a.full[o] = t.full[o]
  BY <1>2, <1>3, AdvanceExactly
<1> QED BY <1>1, <1>2, <1>4

(***************************************************************************)
(* Applying a block twice.                                                 *)
(***************************************************************************)
LEMMA InsertTwice ==
  ASSUME NEW table, NEW rows
  PROVE  Insert(Insert(table, rows), rows) = Insert(table, rows)
BY DEF Insert

\* What an upsert returns is a record of the five tables, the first a function.
LEMMA UpsertIsTable ==
  ASSUME NEW t, NEW recs
  PROVE  LET u == UpsertHtlcs(t, recs)
         IN  /\ u.full = [o \in DOMAIN u.full |-> u.full[o]]
             /\ u = [full |-> u.full, bySender |-> u.bySender,
                     byReceiver |-> u.byReceiver, byHashlock |-> u.byHashlock,
                     byState |-> u.byState]
<1> DEFINE u == UpsertHtlcs(t, recs)
           f == ForgetHtlcs(t, DOMAIN recs)
<1>1. u.full = Insert(f.full, recs)
  BY DEF UpsertHtlcs
<1>2. Insert(f.full, recs)
        = [k \in DOMAIN Insert(f.full, recs) |-> Insert(f.full, recs)[k]]
  <2> HIDE DEF f
  <2> QED BY DEF Insert
<1>3. u = [full |-> u.full, bySender |-> u.bySender, byReceiver |-> u.byReceiver,
           byHashlock |-> u.byHashlock, byState |-> u.byState]
  BY DEF UpsertHtlcs
<1> HIDE DEF f, u
<1>4. u.full = [o \in DOMAIN u.full |-> u.full[o]]
  BY <1>1, <1>2
<1> QED BY <1>3, <1>4 DEF u

LEMMA AdvanceIsTable ==
  ASSUME NEW t, NEW spends, NEW height
  PROVE  LET a == AdvanceHtlcs(t, spends, height).full
         IN  a = [o \in DOMAIN a |-> a[o]]
BY UpsertIsTable DEF AdvanceHtlcs

\* The records: a lock is written and settled again as it was, and what the
\* first pass settled is settled, which the second pass skips.
LEMMA ReplayRecords ==
  ASSUME NEW t, NEW locks, NEW spends, NEW height,
         \A o \in DOMAIN t.full : t.full[o] \in HtlcRecords,
         \A o \in DOMAIN locks : locks[o] \in HtlcRecords
  PROVE  LET once == AdvanceHtlcs(UpsertHtlcs(t, locks), spends, height)
             twice == AdvanceHtlcs(UpsertHtlcs(once, locks), spends, height)
         IN  twice.full = once.full
<1> DEFINE u == UpsertHtlcs(t, locks)
           once == AdvanceHtlcs(u, spends, height)
           v == UpsertHtlcs(once, locks)
           twice == AdvanceHtlcs(v, spends, height)
<1>1. /\ DOMAIN u.full = DOMAIN t.full \cup DOMAIN locks
      /\ \A o \in DOMAIN locks : u.full[o] = locks[o]
      /\ \A o \in DOMAIN t.full \ DOMAIN locks : u.full[o] = t.full[o]
  BY UpsertFull
<1>2. /\ DOMAIN once.full = DOMAIN u.full
      /\ \A o \in Hit(u.full, spends) :
           once.full[o] = SettledRecord(u.full[o], Settler(spends, o), height)
      /\ \A o \in DOMAIN u.full \ Hit(u.full, spends) : once.full[o] = u.full[o]
  <2> HIDE DEF u
  <2> QED BY AdvanceExactly
<1>3. /\ DOMAIN v.full = DOMAIN once.full \cup DOMAIN locks
      /\ \A o \in DOMAIN locks : v.full[o] = locks[o]
      /\ \A o \in DOMAIN once.full \ DOMAIN locks : v.full[o] = once.full[o]
  <2> HIDE DEF once
  <2> QED BY UpsertFull
<1>4. /\ DOMAIN twice.full = DOMAIN v.full
      /\ \A o \in Hit(v.full, spends) :
           twice.full[o] = SettledRecord(v.full[o], Settler(spends, o), height)
      /\ \A o \in DOMAIN v.full \ Hit(v.full, spends) : twice.full[o] = v.full[o]
  <2> HIDE DEF v
  <2> QED BY AdvanceExactly
<1>5. /\ once.full = [o \in DOMAIN once.full |-> once.full[o]]
      /\ twice.full = [o \in DOMAIN twice.full |-> twice.full[o]]
  <2> HIDE DEF u, v
  <2> QED BY AdvanceIsTable
<1> HIDE DEF u, once, v, twice
<1>6. DOMAIN twice.full = DOMAIN once.full
  BY <1>1, <1>2, <1>3, <1>4
<1>7. ASSUME NEW o \in DOMAIN once.full
      PROVE  twice.full[o] = once.full[o]
  <2>1. CASE o \in DOMAIN locks
    <3>1. v.full[o] = u.full[o] /\ o \in DOMAIN u.full /\ o \in DOMAIN v.full
      BY <1>1, <1>3, <2>1
    <3>2. o \in Hit(v.full, spends) <=> o \in Hit(u.full, spends)
      BY <3>1 DEF Hit, Advanceable
    <3> QED BY <1>2, <1>4, <3>1, <3>2
  <2>2. CASE o \notin DOMAIN locks
    <3>1. /\ o \in DOMAIN u.full /\ u.full[o] \in HtlcRecords
          /\ o \in DOMAIN v.full /\ v.full[o] = once.full[o]
      BY <1>1, <1>2, <1>3, <2>2
    <3>2. o \notin Hit(v.full, spends)
      <4>1. CASE o \in Hit(u.full, spends)
        <5>1. once.full[o].state \in Settled
          BY <1>2, <3>1, <4>1, SettledIsFinal
        <5> QED BY <3>1, <5>1 DEF Hit, Advanceable
      <4>2. CASE o \notin Hit(u.full, spends)
        <5>1. v.full[o] = u.full[o]
          BY <1>2, <3>1, <4>2
        <5> QED BY <3>1, <4>2, <5>1 DEF Hit, Advanceable
      <4> QED BY <4>1, <4>2
    <3> QED BY <1>4, <3>1, <3>2
  <2> QED BY <2>1, <2>2
<1>8. twice.full = once.full
  BY <1>5, <1>6, <1>7
<1> QED BY <1>8 DEF u, once, v, twice

\* The secondary indexes follow the records, because they agree with them.
LEMMA ReplayHtlcs ==
  ASSUME NEW t, IndexesAgree(t), NEW locks, NEW spends, NEW height,
         \A o \in DOMAIN t.full : t.full[o] \in HtlcRecords,
         \A o \in DOMAIN locks : locks[o] \in HtlcRecords
  PROVE  LET once == AdvanceHtlcs(UpsertHtlcs(t, locks), spends, height)
         IN  AdvanceHtlcs(UpsertHtlcs(once, locks), spends, height) = once
<1> DEFINE u == UpsertHtlcs(t, locks)
           once == AdvanceHtlcs(u, spends, height)
           v == UpsertHtlcs(once, locks)
           twice == AdvanceHtlcs(v, spends, height)
<1>1. IndexesAgree(once)
  BY UpsertAgrees, AdvanceAgrees
<1>2. once = [full |-> once.full, bySender |-> once.bySender,
              byReceiver |-> once.byReceiver, byHashlock |-> once.byHashlock,
              byState |-> once.byState]
  <2> HIDE DEF u
  <2> QED BY UpsertIsTable DEF AdvanceHtlcs
<1>3. twice.full = once.full
  BY ReplayRecords
<1>4. twice = [full |-> twice.full, bySender |-> twice.bySender,
              byReceiver |-> twice.byReceiver, byHashlock |-> twice.byHashlock,
              byState |-> twice.byState]
  <2> HIDE DEF v
  <2> QED BY UpsertIsTable DEF AdvanceHtlcs
<1>5. IndexesAgree(twice)
  <2> HIDE DEF once
  <2> QED BY <1>1, UpsertAgrees, AdvanceAgrees
<1> HIDE DEF u, once, v, twice
<1>6. twice = once
  BY <1>1, <1>2, <1>3, <1>4, <1>5 DEF IndexesAgree
<1> QED BY <1>6 DEF u, once, v, twice

LEMMA ReplayBlock ==
  ASSUME NEW d, TablesOK(d), IndexesAgree(d.htlc), NEW ev, EventsOK(ev)
  PROVE  ApplyBlockEvents(ApplyBlockEvents(d, ev), ev) = ApplyBlockEvents(d, ev)
<1> DEFINE w == ApplyBlockEvents(d, ev)
           listed == [k \in {ev.height} |-> ev.id]
<1>1. w.htlc = AdvanceHtlcs(UpsertHtlcs(d.htlc, ev.locks), ev.spends, ev.height)
  BY DEF ApplyBlockEvents
<1>2. /\ w.settlement = WriteSettlements(d.settlement, ev.settlements)
      /\ w.activity = Insert(d.activity, ev.activity)
      /\ w.spentBy = Insert(d.spentBy, ev.spentBy)
      /\ w.datum = WriteDatums(d.datum, ev.datums)
      /\ w.blocks = Insert(d.blocks, listed)
  BY DEF ApplyBlockEvents
<1>3. w = [htlc |-> w.htlc, settlement |-> w.settlement, activity |-> w.activity,
           spentBy |-> w.spentBy, datum |-> w.datum, blocks |-> w.blocks]
  BY DEF ApplyBlockEvents
<1> HIDE DEF w, listed
<1>4. AdvanceHtlcs(UpsertHtlcs(w.htlc, ev.locks), ev.spends, ev.height) = w.htlc
  BY <1>1, ReplayHtlcs DEF TablesOK, EventsOK
<1>5. WriteSettlements(w.settlement, ev.settlements) = w.settlement
  BY <1>2, InsertTwice DEF WriteSettlements
<1>6. WriteDatums(w.datum, ev.datums) = w.datum
  BY <1>2, InsertTwice DEF WriteDatums
<1>7. /\ Insert(w.activity, ev.activity) = w.activity
      /\ Insert(w.spentBy, ev.spentBy) = w.spentBy
      /\ Insert(w.blocks, listed) = w.blocks
  BY <1>2, InsertTwice
<1>8. ApplyBlockEvents(w, ev) =
        [htlc |-> w.htlc, settlement |-> w.settlement, activity |-> w.activity,
         spentBy |-> w.spentBy, datum |-> w.datum, blocks |-> w.blocks]
  BY <1>4, <1>5, <1>6, <1>7 DEF ApplyBlockEvents, listed
<1>9. ApplyBlockEvents(w, ev) = w
  BY <1>3, <1>8
<1> QED BY <1>9 DEF w

LEMMA StepReplays ==
  ASSUME IInv, [Next]_vars, pc = "apply", db' # db
  PROVE  \E unread \in Unread :
           LET ev == BlockEvents(db, got, h, unread)
           IN  db' = ApplyBlockEvents(db, ev) /\ ApplyBlockEvents(db', ev) = db'
<1>1. ApplyToTables
  BY DEF Next, LeaveTables, WipeTables, Wipe, vars
<1>2. PICK unread \in Unread : db' = ApplyBlockEvents(db, BlockEvents(db, got, h, unread))
  BY <1>1 DEF ApplyToTables
<1>3. got \in Histories /\ h \in Nat /\ HeightOf(got) = h
  BY <1>1, NodeAssumption
  DEF ApplyToTables, ApplyBlock, IInv, TickInv, TickTypeOK, TickFitsCheckpoint, Heights
<1>4. Len(got) # 0
  <2>1. Len(got) \in Nat
    BY <1>3, LenProperties DEF Histories
  <2> QED BY <1>3, <2>1 DEF HeightOf
<1>5. TablesOK(db) /\ IndexesAgree(db.htlc)
  BY DEF IInv
<1> DEFINE ev == BlockEvents(db, got, h, unread)
<1>6. EventsOK(ev)
  BY <1>3, <1>4, <1>5, BlockEventsOK
<1>7. db' = ApplyBlockEvents(db, ev) /\ ApplyBlockEvents(db', ev) = db'
  <2> HIDE DEF ev
  <2>1. ApplyBlockEvents(ApplyBlockEvents(db, ev), ev) = ApplyBlockEvents(db, ev)
    BY <1>5, <1>6, ReplayBlock
  <2> QED BY <1>2, <2>1 DEF ev
<1> QED BY <1>7

\* Whatever the node does, wherever ticks stop and whatever a peek fails to read,
\* the events of a block applied a second time change nothing: a crash between
\* the commit and whatever follows it costs only work.
THEOREM ReplayAlwaysKeepsTables == Spec => ReplayKeepsTables
<1>1. IInv /\ [Next]_vars =>
        (pc = "apply" /\ db' # db =>
           \E unread \in Unread :
             LET ev == BlockEvents(db, got, h, unread)
             IN  db' = ApplyBlockEvents(db, ev) /\ ApplyBlockEvents(db', ev) = db')
  BY StepReplays
<1> QED BY <1>1, Invariant, PTL DEF Spec, ReplayKeepsTables
=============================================================================
