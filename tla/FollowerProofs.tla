--------------------------- MODULE FollowerProofs --------------------------
(***************************************************************************)
(* The follower with its tables, for every chain, every world of           *)
(* transactions and every environment switch: types, the agreement of the  *)
(* secondary and mirrored tables, and no row above the checkpoint.         *)
(***************************************************************************)
EXTENDS FollowerSafety, StoreProofs, SequenceTheorems

(***************************************************************************)
(* The control: type correct, and its state fits the checkpoint, for every *)
(* node, every bound and every environment switch.                         *)
(***************************************************************************)
TickInv == TickTypeOK /\ TickFitsCheckpoint

(***************************************************************************)
(* Histories and the ids cut from them.                                    *)
(***************************************************************************)

\* A sequence with a positive length is not the empty one.
LEMMA PositiveLength ==
  ASSUME NEW s, Len(s) # 0
  PROVE  s # << >>
<1>1. Len(<< >>) = 0
  BY EmptySeq
<1> QED BY <1>1

\* The id of a block on a chain is a history one longer than its height.
LEMMA BlockIdProperties ==
  ASSUME NEW c \in Histories, NEW x \in Nat, x <= HeightOfChain(c)
  PROVE  /\ BlockIdAt(c, x) \in Histories
         /\ Len(BlockIdAt(c, x)) = x + 1
         /\ BlockIdAt(c, x) # ZeroId
<1>1. /\ Len(c) \in Nat
      /\ x + 1 <= Len(c)
      /\ \A i \in 1 .. x + 1 : c[i] \in Bodies
  BY LenProperties, ElementOfSeq DEF Histories, HeightOfChain
<1>2. /\ SubSeq(c, 1, x + 1) \in Seq(Bodies)
      /\ Len(SubSeq(c, 1, x + 1)) = x + 1
  <2>1. 1 \in Int /\ x + 1 \in Int /\ 1 <= x + 1
    OBVIOUS
  <2> QED BY <1>1, <2>1, SubSeqProperties
<1>3. SubSeq(c, 1, x + 1) # << >>
  <2>1. Len(SubSeq(c, 1, x + 1)) # 0
    BY <1>2
  <2> QED BY <2>1, PositiveLength, Zenon
<1> QED BY <1>1, <1>2, <1>3, NodeAssumption DEF BlockIdAt, Histories, ZeroId

\* A node step leaves a non-empty chain within the bound.
LEMMA NodeMovesType ==
  ASSUME chain \in Histories, chain # <<>>, NodeMoves
  PROVE  chain' \in Histories /\ chain' # <<>>
<1>0. chain \in Seq(Bodies) /\ Len(chain) \in Nat \ {0}
  BY EmptySeq DEF Histories
<1>1. CASE Mine
  <2>1. PICK b \in BlockBodies : chain' = Append(chain, b)
    BY <1>1 DEF Mine
  <2>2. b \in Bodies
    BY DEF Bodies
  <2>3. Append(chain, b) \in Seq(Bodies) /\ Len(Append(chain, b)) = Len(chain) + 1
    BY <1>0, <2>2
  <2>4. Len(chain) + 1 <= MaxHeight + 1
    BY <1>0, <1>1, NodeAssumption DEF Mine, HeightOfChain
  <2>5. Append(chain, b) # <<>>
    BY <1>0, <2>3, PositiveLength
  <2> QED BY <2>1, <2>3, <2>4, <2>5 DEF Histories
<1>2. CASE Reorg
  <2>1. PICK d \in 1 .. MaxDepth :
          /\ Len(chain) - d >= 1
          /\ \E n \in (IF Shorter THEN 1 ELSE d + 1) .. d + 1 :
               \E branch \in Branches(n) :
                 /\ HeightOfChain(SubSeq(chain, 1, Len(chain) - d) \o branch) <= MaxHeight
                 /\ chain' = SubSeq(chain, 1, Len(chain) - d) \o branch
    BY <1>2 DEF Reorg
  <2>2. PICK n \in (IF Shorter THEN 1 ELSE d + 1) .. d + 1 : \E branch \in Branches(n) :
                 /\ HeightOfChain(SubSeq(chain, 1, Len(chain) - d) \o branch) <= MaxHeight
                 /\ chain' = SubSeq(chain, 1, Len(chain) - d) \o branch
    BY <2>1
  <2>3. PICK branch \in Branches(n) :
                 /\ HeightOfChain(SubSeq(chain, 1, Len(chain) - d) \o branch) <= MaxHeight
                 /\ chain' = SubSeq(chain, 1, Len(chain) - d) \o branch
    BY <2>2
  <2> DEFINE stem == SubSeq(chain, 1, Len(chain) - d)
  <2>4. stem \in Seq(Bodies) /\ Len(stem) = Len(chain) - d
    <3>1. \A i \in 1 .. Len(chain) - d : chain[i] \in Bodies
      BY <1>0, <2>1, ElementOfSeq, NodeAssumption
    <3>2. 1 \in Int /\ Len(chain) - d \in Int /\ 1 <= Len(chain) - d
      BY <1>0, <2>1, NodeAssumption
    <3> QED BY <3>1, <3>2, SubSeqProperties
  <2>5. branch \in Seq(Bodies)
    <3>1. n \in Nat
      BY <2>1, <2>2, NodeAssumption
    <3>2. branch \in [1 .. n -> Bodies]
      BY <2>3 DEF Branches, Bodies
    <3> QED BY <3>1, <3>2, SeqDef
  <2>6. stem \o branch \in Seq(Bodies) /\ Len(stem \o branch) = Len(stem) + Len(branch)
    BY <2>4, <2>5, ConcatProperties
  <2>7. Len(branch) \in Nat
    BY <2>5, LenProperties
  <2>8. stem \o branch # <<>>
    <3>1. Len(stem \o branch) # 0
      BY <1>0, <2>1, <2>4, <2>6, <2>7, NodeAssumption
    <3> QED BY <3>1, PositiveLength, Zenon
  <2>9. Len(stem \o branch) <= MaxHeight + 1
    BY <1>0, <2>3, <2>4, <2>6, <2>7, NodeAssumption DEF HeightOfChain
  <2> QED BY <2>3, <2>6, <2>8, <2>9 DEF Histories
<1> QED BY <1>1, <1>2 DEF NodeMoves

(***************************************************************************)
(* The invariant.                                                          *)
(***************************************************************************)
LEMMA TickInitInv == TickInit => TickInv
<1> SUFFICES ASSUME TickInit PROVE TickInv
  OBVIOUS
<1>1. <<Genesis>> \in Histories
  <2>1. Genesis \in Bodies
    BY DEF Bodies
  <2>2. <<Genesis>> \in Seq(Bodies) /\ Len(<<Genesis>>) = 1
    BY <2>1
  <2> QED BY <2>2, NodeAssumption DEF Histories
<1>2. <<Genesis>> # <<>>
  OBVIOUS
<1>3. ZeroId \in Histories
  BY EmptySeq, NodeAssumption DEF ZeroId, Histories
<1>4. MetaDefault \in Metas
  BY <1>3, NodeAssumption DEF MetaDefault, Metas, Heights
<1>5. TickTypeOK
  BY <1>1, <1>2, <1>3, <1>4, NodeAssumption
     DEF TickInit, InitNode, TickTypeOK, Pcs, Heights
<1>6. TickFitsCheckpoint
  BY DEF TickInit, TickFitsCheckpoint, MetaDefault
<1> QED BY <1>5, <1>6 DEF TickInv

\* At rest the locals have their types and fit any checkpoint.
LEMMA RestFits ==
  ASSUME AtRest,
         chain' \in Histories, chain' # <<>>, meta' \in Metas,
         meta'.id = ZeroId => meta'.last = 0,
         meta'.id # ZeroId => HeightOf(meta'.id) = meta'.last
  PROVE  TickInv'
<1>1. ZeroId \in Histories
  BY EmptySeq, NodeAssumption DEF ZeroId, Histories
<1>2. MetaDefault \in Metas
  BY <1>1, NodeAssumption DEF MetaDefault, Metas, Heights
<1>3. TickTypeOK'
  BY <1>1, <1>2, NodeAssumption DEF TickTypeOK, AtRest, Pcs, Heights
<1>4. TickFitsCheckpoint'
  BY DEF TickFitsCheckpoint, AtRest
<1> QED BY <1>3, <1>4 DEF TickInv

LEMMA TickNextInv == TickInv /\ [TickNext]_tickVars => TickInv'
<1> SUFFICES ASSUME TickInv, [TickNext]_tickVars PROVE TickInv'
  OBVIOUS
<1> USE NodeAssumption
<1>1. CASE ReadTip
  <2>1. HeightOfChain(chain) \in Heights
    BY PositiveLength, LenProperties, EmptySeq
       DEF TickInv, TickTypeOK, Histories, Heights, HeightOfChain
  <2>2. TickTypeOK'
    BY <1>1, <2>1 DEF ReadTip, TickInv, TickTypeOK, Pcs
  <2>3. TickFitsCheckpoint'
    BY <1>1 DEF ReadTip, TickInv, TickTypeOK, TickFitsCheckpoint, Metas, Heights
  <2> QED BY <2>2, <2>3 DEF TickInv
<1>2. CASE CheckReorg
  <2>1. TickTypeOK'
    BY <1>2 DEF CheckReorg, TickInv, TickTypeOK, Pcs, local
  <2>2. TickFitsCheckpoint'
    BY <1>2 DEF CheckReorg, TickInv, TickFitsCheckpoint, local
  <2> QED BY <2>1, <2>2 DEF TickInv
<1>3. CASE FindAncestor
  <2> DEFINE x == m.last - 1
  <2>1. m = meta /\ meta.last > 0 /\ m \in Metas /\ x \in Heights
    BY <1>3 DEF FindAncestor, TickInv, TickTypeOK, TickFitsCheckpoint, Metas, Heights
  <2>2. /\ BlockIdAt(chain, x) \in Histories
        /\ Len(BlockIdAt(chain, x)) = x + 1
    <3>1. chain \in Histories /\ x \in Nat /\ x <= HeightOfChain(chain)
      BY <1>3, <2>1 DEF FindAncestor, NodeHas, TickInv, TickTypeOK, Heights
    <3> QED BY <3>1, BlockIdProperties
  <2>3. m' = [last |-> x, id |-> BlockIdAt(chain, x), full |-> FALSE]
    BY <1>3 DEF FindAncestor
  <2>4. TickTypeOK'
    BY <1>3, <2>1, <2>2, <2>3 DEF FindAncestor, TickInv, TickTypeOK, Pcs, Metas
  <2>5. TickFitsCheckpoint'
    BY <1>3, <2>1, <2>2, <2>3
       DEF FindAncestor, TickInv, TickFitsCheckpoint, HeightOf, Heights
  <2> QED BY <2>4, <2>5 DEF TickInv
<1>4. CASE Wipe
  <2>1. TickTypeOK'
    BY <1>4 DEF Wipe, TickInv, TickTypeOK, Pcs, local
  <2>2. TickFitsCheckpoint'
    BY <1>4 DEF Wipe, TickInv, TickFitsCheckpoint, local
  <2> QED BY <2>1, <2>2 DEF TickInv
<1>5. CASE SaveReorg
  <2>1. TickTypeOK'
    BY <1>5 DEF SaveReorg, TickInv, TickTypeOK, Pcs, local
  <2>2. m.id # ZeroId
    <3>1. Len(m.id) # 0
      BY <1>5 DEF SaveReorg, TickInv, TickTypeOK, TickFitsCheckpoint, HeightOf, Metas,
                  Heights
    <3> QED BY <3>1, PositiveLength, Zenon DEF ZeroId
  <2>3. TickFitsCheckpoint'
    BY <1>5, <2>2 DEF SaveReorg, TickInv, TickFitsCheckpoint, local
  <2> QED BY <2>1, <2>3 DEF TickInv
<1>6. CASE CaughtUp
  <2>1. /\ m = meta /\ m \in Metas
        /\ meta' = meta \/ meta' = [m EXCEPT !.full = TRUE]
    BY <1>6 DEF CaughtUp, TickInv, TickTypeOK, TickFitsCheckpoint
  <2>2. meta' \in Metas /\ meta'.id = meta.id /\ meta'.last = meta.last
    BY <2>1 DEF Metas
  <2> QED BY <1>6, <2>2, RestFits DEF CaughtUp, TickInv, TickTypeOK, TickFitsCheckpoint
<1>7. CASE EnterLoop
  <2>1. /\ pc' = "fetch" /\ h' = Start(m) /\ m = meta /\ Start(m) <= tip
        /\ UNCHANGED <<chain, meta, tip, got>> /\ m' = MetaDefault
    BY <1>7 DEF EnterLoop, TickInv, TickFitsCheckpoint
  <2>2. Start(m) \in Heights
    BY <2>1 DEF Start, TickInv, TickTypeOK, Metas, Heights
  <2>3. MetaDefault \in Metas
    BY EmptySeq DEF MetaDefault, Metas, Heights, ZeroId, Histories
  <2>4. TickTypeOK'
    BY <2>1, <2>2, <2>3 DEF TickInv, TickTypeOK, Pcs
  <2>5. TickFitsCheckpoint'
    BY <2>1 DEF TickInv, TickFitsCheckpoint, Start
  <2> QED BY <2>4, <2>5 DEF TickInv
<1>8. CASE FetchBlock
  <2>1. /\ BlockIdAt(chain, h) \in Histories
        /\ Len(BlockIdAt(chain, h)) = h + 1
    <3>1. chain \in Histories /\ h \in Nat /\ h <= HeightOfChain(chain)
      BY <1>8 DEF FetchBlock, NodeHas, TickInv, TickTypeOK, Heights
    <3> QED BY <3>1, BlockIdProperties
  <2>2. TickTypeOK'
    BY <1>8, <2>1 DEF FetchBlock, TickInv, TickTypeOK, Pcs
  <2>3. TickFitsCheckpoint'
    BY <1>8, <2>1 DEF FetchBlock, TickInv, TickTypeOK, TickFitsCheckpoint, HeightOf,
                      Start, Heights
  <2> QED BY <2>2, <2>3 DEF TickInv
<1>9. CASE ApplyBlock
  <2>1. /\ meta' = [last |-> h, id |-> got, full |-> FALSE]
        /\ HeightOf(got) = h /\ h \in Heights /\ got \in Histories /\ chain' = chain
    BY <1>9 DEF ApplyBlock, TickInv, TickTypeOK, TickFitsCheckpoint
  <2>2. got # ZeroId
    <3>1. Len(got) # 0
      BY <2>1 DEF HeightOf, Heights, Histories
    <3> QED BY <3>1, PositiveLength, Zenon DEF ZeroId
  <2>3. meta' \in Metas
    BY <2>1 DEF Metas
  <2>4. CASE h < tip
    <3>1. /\ h' = h + 1 /\ pc' = "fetch" /\ got' = ZeroId
          /\ tip' = tip /\ m' = m
      BY <1>9, <2>4 DEF ApplyBlock
    <3>2. ZeroId \in Histories
      BY EmptySeq DEF ZeroId, Histories
    <3>3. TickTypeOK'
      BY <2>1, <2>3, <2>4, <3>1, <3>2 DEF TickInv, TickTypeOK, Pcs, Heights
    <3>4. h' = Start(meta') /\ h' <= tip'
      BY <2>1, <2>2, <2>4, <3>1 DEF Start, TickInv, TickTypeOK, Heights
    <3>5. TickFitsCheckpoint'
      BY <2>1, <2>2, <3>1, <3>4 DEF TickFitsCheckpoint
    <3> QED BY <3>3, <3>5 DEF TickInv
  <2>5. CASE ~(h < tip)
    BY <1>9, <2>1, <2>2, <2>3, <2>5, RestFits DEF ApplyBlock, TickInv, TickTypeOK
  <2> QED BY <2>4, <2>5
<1>10. CASE BlockMissing \/ AbortTick
  BY <1>10, RestFits DEF BlockMissing, AbortTick, TickInv, TickTypeOK, TickFitsCheckpoint
<1>11. CASE NodeStep
  <2>1. /\ chain' \in Histories /\ chain' # <<>>
        /\ UNCHANGED <<meta, pc, tip, m, h, got>>
    BY <1>11, NodeMovesType DEF NodeStep, TickInv, TickTypeOK, local
  <2>2. TickTypeOK'
    BY <2>1 DEF TickInv, TickTypeOK
  <2>3. TickFitsCheckpoint'
    BY <2>1 DEF TickInv, TickFitsCheckpoint
  <2> QED BY <2>2, <2>3 DEF TickInv
<1>12. CASE UNCHANGED tickVars
  BY <1>12 DEF tickVars, TickInv, TickTypeOK, TickFitsCheckpoint
<1> QED
  BY <1>1, <1>2, <1>3, <1>4, <1>5, <1>6, <1>7, <1>8, <1>9, <1>10, <1>11, <1>12
     DEF TickNext, TickStep, QuietStep

\* Every variable of the control has its type, whatever the node does and
\* wherever a tick stops.
THEOREM TickTypeCorrect == TickSpec => []TickTypeOK
<1>1. TickInv => TickTypeOK
  BY DEF TickInv
<1> QED BY <1>1, TickInitInv, TickNextInv, PTL DEF TickSpec

\* The tick's state always fits the stored checkpoint: the next block indexed is
\* the one after it.
THEOREM TickAlwaysFits == TickSpec => []TickFitsCheckpoint
<1>1. TickInv => TickFitsCheckpoint
  BY DEF TickInv
<1> QED BY <1>1, TickInitInv, TickNextInv, PTL DEF TickSpec

(***************************************************************************)
(* process_block produces well-formed events.                              *)
(***************************************************************************)
LEMMA BodyOfType ==
  ASSUME NEW id \in Histories, Len(id) # 0
  PROVE  BodyOf(id) \in Seq(Tx) /\ TxsIn(BodyOf(id)) \subseteq Tx
<1>1. Len(id) \in 1 .. Len(id)
  BY LenProperties DEF Histories
<1>2. id[Len(id)] \in Bodies
  BY <1>1, ElementOfSeq DEF Histories
<1>3. BodyOf(id) \in Seq(Tx)
  BY <1>2, NodeAssumption DEF BodyOf, Bodies
<1> QED BY <1>3, ElementOfSeq, LenProperties DEF TxsIn

LEMMA BlockLocksOK ==
  ASSUME NEW b, TxsIn(b) \subseteq Tx, NEW height \in Nat
  PROVE  LET locks == BlockLocks(b, height)
         IN  /\ DOMAIN locks \subseteq Outpoint
             /\ \A o \in DOMAIN locks :
                  locks[o] \in HtlcRecords /\ locks[o].lockHeight = height
<1>1. LockedIn(b) \subseteq Outpoint
  BY DEF LockedIn, Outpoint
<1>2. ASSUME NEW o \in LockedIn(b)
      PROVE  LockRecord(o, height) \in HtlcRecords /\ LockRecord(o, height).lockHeight = height
  <2>1. PICK t \in Tx : o \in OutpointsOf(t)
    BY DEF LockedIn
  <2>2. Out(o) \in Outputs
    <3>1. PICK n \in DOMAIN Body[t].outs : o = <<t, n>>
      BY <2>1 DEF OutpointsOf
    <3>2. Body[t].outs \in Seq(Outputs)
      BY ExtractAssumption
    <3>3. Body[t].outs[n] \in Outputs
      BY <3>1, <3>2, LenProperties, ElementOfSeq
    <3> QED BY <3>1, <3>3 DEF Out
  <2>3. Out(o).script \in HtlcScripts /\ Out(o).value \in Nat
    BY <2>2 DEF LockedIn, IsHtlc, Outputs, Scripts, HtlcScripts
  <2> QED BY <2>3 DEF LockRecord, HtlcRecords, HtlcStates, ClaimRecords, ReclaimRecords
<1> QED BY <1>1, <1>2 DEF BlockLocks

LEMMA BlockSpendsOK ==
  ASSUME NEW b, TxsIn(b) \subseteq Tx
  PROVE  \A s \in BlockSpends(b) : SpendOK(s)
<1>1. ASSUME NEW t \in Tx, NEW s \in SpendsOf(t)
      PROVE  SpendOK(s)
  <2>1. PICK v \in Inputs(t) :
          /\ InputArm(t, v) # None
          /\ s = [tx |-> t, input |-> v, out |-> Body[t].ins[v].prev, arm |-> InputArm(t, v)]
    BY <1>1 DEF SpendsOf
  <2>2. v \in DOMAIN Body[t].ins
    BY DEF Inputs
  <2>3. InputArm(t, v) \in {"claim", "reclaim"}
    BY <2>1 DEF InputArm, ClassifySpendArm
  <2> QED BY <2>1, <2>2, <2>3 DEF SpendOK
<1> QED BY <1>1 DEF BlockSpends

\* The key of a settlement row has the block's height and the party's address.
LEMMA BlockSettlementsOK ==
  ASSUME NEW b, NEW height \in Nat, NEW full,
         DOMAIN full \subseteq Outpoint, \A o \in DOMAIN full : full[o] \in HtlcRecords
  PROVE  /\ DOMAIN BlockSettlements(b, height, full) \subseteq SettlementKeys
         /\ \A k \in DOMAIN BlockSettlements(b, height, full) : k[2] = height
<1> DEFINE key(x) == SettlementKey(full, x[1], x[2], height)
<1>1. DOMAIN BlockSettlements(b, height, full) = {key(x) : x \in Written(b, full)}
  BY DEF BlockSettlements
<1>2. ASSUME NEW x \in Written(b, full)
      PROVE  key(x) \in SettlementKeys /\ key(x)[2] = height
  <2>1. x[1].out \in DOMAIN full
    BY DEF Written
  <2> DEFINE o == x[1].out
             rec == full[o]
  <2>2. rec \in HtlcRecords /\ o \in Outpoint
    BY <2>1
  <2> HIDE DEF rec, o
  <2>3. Party(rec, x[2]) \in Address
    BY <2>2, ExtractAssumption DEF Party, HtlcRecords, HtlcScripts
  <2>4. o[1] \in Tx
    BY <2>2 DEF Outpoint, OutpointsOf
  <2>5. SettledTxId(o, rec) \in Tx
    BY <2>2, <2>4 DEF SettledTxId, HtlcRecords, ClaimRecords, ReclaimRecords
  <2>6. key(x) = <<Party(rec, x[2]), height, SettledTxId(o, rec)>>
    BY DEF SettlementKey, rec, o
  <2> QED BY <2>3, <2>5, <2>6 DEF SettlementKeys
<1> QED BY <1>1, <1>2

LEMMA BlockActivityOK ==
  ASSUME NEW b, TxsIn(b) \subseteq Tx, NEW height \in Nat
  PROVE  /\ DOMAIN BlockActivity(b, height) \subseteq AllActivityKeys
         /\ \A k \in DOMAIN BlockActivity(b, height) : k[2] = height
BY DEF BlockActivity, ActivityKeys, AllActivityKeys

LEMMA BlockDatumsOK ==
  ASSUME NEW b, TxsIn(b) \subseteq Tx, NEW height \in Nat
  PROVE  LET datums == BlockDatums(b, height)
         IN  /\ DOMAIN datums \subseteq Outpoint
             /\ \A o \in DOMAIN datums : datums[o].height = height
             /\ DatumsBound(datums)
BY DEF BlockDatums, DatumsBound, Outpoint

LEMMA BlockEventsOK ==
  ASSUME NEW d, TablesOK(d), NEW id \in Histories, Len(id) # 0, NEW height \in Nat,
         NEW unread
  PROVE  LET ev == BlockEvents(d, id, height, unread)
         IN  EventsOK(ev) /\ ev.height = height
<1> DEFINE b == BodyOf(id)
           full == PeekHtlcs(d.htlc.full, unread)
           ev == BlockEvents(d, id, height, unread)
<1>1. TxsIn(b) \subseteq Tx
  BY BodyOfType
<1>2. /\ DOMAIN full \subseteq Outpoint
      /\ \A o \in DOMAIN full : full[o] \in HtlcRecords
  BY DEF TablesOK, PeekHtlcs, Keep
<1>3. /\ ev.height = height
      /\ ev.locks = BlockLocks(b, height)
      /\ ev.spends = BlockSpends(b)
      /\ ev.settlements = BlockSettlements(b, height, full)
      /\ ev.activity = BlockActivity(b, height)
      /\ ev.spentBy = BlockSpentBy(b, height)
      /\ ev.datums = BlockDatums(b, height)
  BY DEF BlockEvents
<1> HIDE DEF b, ev, full
<1>4. \A o \in DOMAIN ev.spentBy : ev.spentBy[o].height = ev.height
  BY <1>3 DEF BlockSpentBy
<1>5. /\ DOMAIN ev.locks \subseteq Outpoint
      /\ \A o \in DOMAIN ev.locks :
           ev.locks[o] \in HtlcRecords /\ ev.locks[o].lockHeight = ev.height
  <2> DEFINE locks == BlockLocks(b, height)
  <2>1. /\ DOMAIN locks \subseteq Outpoint
        /\ \A o \in DOMAIN locks :
             locks[o] \in HtlcRecords /\ locks[o].lockHeight = height
    BY <1>1, BlockLocksOK
  <2>2. locks = ev.locks
    BY <1>3
  <2> HIDE DEF locks
  <2> QED BY <1>3, <2>1, <2>2
<1>6. \A s \in ev.spends : SpendOK(s)
  BY <1>1, <1>3, BlockSpendsOK
<1>7. /\ DOMAIN ev.settlements \subseteq SettlementKeys
      /\ \A k \in DOMAIN ev.settlements : k[2] = ev.height
  BY <1>2, <1>3, BlockSettlementsOK
<1>8. /\ DOMAIN ev.activity \subseteq AllActivityKeys
      /\ \A k \in DOMAIN ev.activity : k[2] = ev.height
  BY <1>1, <1>3, BlockActivityOK
<1>9. /\ DOMAIN ev.datums \subseteq Outpoint
      /\ \A o \in DOMAIN ev.datums : ev.datums[o].height = ev.height
      /\ DatumsBound(ev.datums)
  BY <1>1, <1>3, BlockDatumsOK
<1> QED BY <1>3, <1>4, <1>5, <1>6, <1>7, <1>8, <1>9 DEF EventsOK, ev

(***************************************************************************)
(* The inductive invariant: the control's, the types of the tables, the    *)
(* agreements, and the bound on the rows.  The bound needs the control's   *)
(* TickFitsCheckpoint: what a wipe cuts at is the height of the id that    *)
(* the save after it stores, and the block applied is the next one.        *)
(***************************************************************************)
BlocksAreIds == \A x \in DOMAIN db.blocks : db.blocks[x] \in Histories

IInv ==
  /\ TickInv
  /\ TablesOK(db)
  /\ BlocksAreIds
  /\ IndexesAgree(db.htlc)
  /\ MirrorsHold(db)
  /\ NothingAboveCheckpoint

LEMMA InitInv == Init => IInv
<1> SUFFICES ASSUME Init PROVE IInv
  OBVIOUS
<1>1. TickInv
  BY TickInitInv DEF Init
<1>2. db = EmptyDb /\ pc = "sleep"
  BY DEF Init, TickInit
<1>3. DOMAIN EmptyTable = {}
  BY DEF EmptyTable
<1> HIDE DEF EmptyTable
<1>4. TablesOK(db) /\ BlocksAreIds
  BY <1>2, <1>3 DEF TablesOK, BlocksAreIds, EmptyDb
<1>5. IndexesAgree(db.htlc)
  BY <1>2, <1>3 DEF IndexesAgree, EmptyDb, SenderKeys, ReceiverKeys, HashlockKeys, StateKeys
<1>6. MirrorsHold(db)
  BY <1>2, <1>3 DEF MirrorsHold, EmptyDb, QuoteKeys, DatumsBound
<1>7. NothingAboveCheckpoint
  BY <1>2, <1>3 DEF NothingAboveCheckpoint, RowsUpTo, EmptyDb
<1> QED BY <1>1, <1>4, <1>5, <1>6, <1>7 DEF IInv

\* Every step of the follower is a step of its control, or leaves it alone.
LEMMA StepsAreTickSteps ==
  ASSUME [Next]_vars
  PROVE  [TickNext]_tickVars
BY DEF Next, vars, TickNext, TickStep, WipeTables, ApplyToTables, LeaveTables, tickVars

LEMMA WipeInv ==
  ASSUME IInv, WipeTables, TickInv'
  PROVE  IInv'
<1>1. pc = "wipe" /\ pc' = "save" /\ meta' = meta /\ m' = m /\ db' = WipeAbove(db, m.last)
  BY DEF WipeTables, Wipe, local
<1>2. HeightOf(m.id) = m.last /\ m.last \in Int /\ HeightOf(meta.id) \in Int
  <2>1. HeightOf(m.id) = m.last
    BY <1>1 DEF IInv, TickInv, TickFitsCheckpoint
  <2>2. m.last \in Int
    BY NodeAssumption DEF IInv, TickInv, TickTypeOK, Metas, Heights
  <2>3. meta.id \in Seq(Bodies)
    BY DEF IInv, TickInv, TickTypeOK, Metas, Histories
  <2>4. HeightOf(meta.id) \in Int
    BY <2>3, LenProperties DEF HeightOf
  <2> QED BY <2>1, <2>2, <2>4
<1>3. TablesOK(db')
  BY <1>1, WipeKeepsTypes DEF IInv
<1>4. BlocksAreIds'
  BY <1>1, WipeSubtables DEF IInv, BlocksAreIds
<1>5. IndexesAgree(db'.htlc)
  BY <1>1, WipeKeepsIndexes DEF IInv
<1>6. MirrorsHold(db')
  BY <1>1, WipeKeepsMirrors DEF IInv
<1>7. RowsUpTo(db', m.last) /\ RowsUpTo(db', HeightOf(meta.id))
  BY <1>1, <1>2, WipeRows DEF IInv, NothingAboveCheckpoint
<1>8. NothingAboveCheckpoint'
  BY <1>1, <1>2, <1>7 DEF NothingAboveCheckpoint
<1> QED BY <1>3, <1>4, <1>5, <1>6, <1>8 DEF IInv

LEMMA ApplyInv ==
  ASSUME IInv, ApplyToTables, TickInv'
  PROVE  IInv'
<1>0. PICK unread \in Unread : db' = ApplyBlockEvents(db, BlockEvents(db, got, h, unread))
  BY DEF ApplyToTables
<1> DEFINE ev == BlockEvents(db, got, h, unread)
<1>1. /\ pc = "apply" /\ pc' # "save"
      /\ meta' = [last |-> h, id |-> got, full |-> FALSE]
      /\ db' = ApplyBlockEvents(db, ev)
  BY <1>0 DEF ApplyToTables, ApplyBlock, AtRest
<1>2. got \in Histories /\ h \in Nat /\ HeightOf(got) = h
  BY <1>1, NodeAssumption DEF IInv, TickInv, TickTypeOK, TickFitsCheckpoint, Heights
<1>3. Len(got) # 0
  <2>1. Len(got) \in Nat
    BY <1>2, LenProperties DEF Histories
  <2> QED BY <1>2, <2>1 DEF HeightOf
<1>4. EventsOK(ev) /\ ev.height = h /\ ev.id = got
  BY <1>2, <1>3, BlockEventsOK DEF IInv, BlockEvents
<1>5. HeightOf(meta.id) \in Int /\ HeightOf(meta.id) <= h
  <2>1. meta.id \in Seq(Bodies) /\ meta.last \in Nat /\ h = Start(meta)
    BY <1>1, NodeAssumption
    DEF IInv, TickInv, TickTypeOK, TickFitsCheckpoint, Metas, Histories, Heights
  <2>2. CASE meta.id = ZeroId
    <3>1. HeightOf(meta.id) = -1
      BY <2>2 DEF HeightOf, ZeroId
    <3> QED BY <3>1, <1>2
  <2>3. CASE meta.id # ZeroId
    <3>1. HeightOf(meta.id) = meta.last
      BY <2>3 DEF IInv, TickInv, TickFitsCheckpoint
    <3>2. h = meta.last + 1
      BY <2>1, <2>3 DEF Start
    <3> QED BY <2>1, <3>1, <3>2
  <2> QED BY <2>2, <2>3
<1> HIDE DEF ev
<1>6. TablesOK(db')
  BY <1>1, <1>4, ApplyKeepsTypes DEF IInv
<1>7. BlocksAreIds'
  BY <1>1, <1>2, <1>4 DEF IInv, BlocksAreIds, ApplyBlockEvents, Insert
<1>8. IndexesAgree(db'.htlc)
  BY <1>1, ApplyKeepsIndexes DEF IInv
<1>9. MirrorsHold(db')
  BY <1>1, <1>4, ApplyKeepsMirrors DEF IInv, EventsOK
<1>10. RowsUpTo(db', h)
  BY <1>1, <1>4, <1>5, ApplyRows DEF IInv, NothingAboveCheckpoint
<1>11. NothingAboveCheckpoint'
  BY <1>1, <1>2, <1>10 DEF NothingAboveCheckpoint
<1> QED BY <1>6, <1>7, <1>8, <1>9, <1>11 DEF IInv

LEMMA LeaveInv ==
  ASSUME IInv, LeaveTables, TickInv'
  PROVE  IInv'
<1>1. db' = db
  BY DEF LeaveTables
<1>2. NothingAboveCheckpoint'
  <2>1. CASE SaveReorg
    BY <1>1, <2>1 DEF SaveReorg, IInv, NothingAboveCheckpoint
  <2>2. CASE CaughtUp
    <3>1. m = meta /\ meta \in Metas
      BY <2>2 DEF CaughtUp, IInv, TickInv, TickTypeOK, TickFitsCheckpoint
    <3>2. meta'.id = meta.id
      BY <2>2, <3>1 DEF CaughtUp, Metas
    <3>3. pc' # "save"
      BY <2>2 DEF CaughtUp, AtRest
    <3> QED BY <1>1, <3>2, <3>3 DEF IInv, NothingAboveCheckpoint
  <2>3. CASE NodeStep
    BY <1>1, <2>3 DEF NodeStep, local, IInv, NothingAboveCheckpoint
  <2>4. CASE ReadTip \/ CheckReorg \/ FindAncestor \/ EnterLoop \/ FetchBlock
             \/ BlockMissing \/ AbortTick
    <3>1. meta' = meta /\ pc' # "save"
      BY <2>4 DEF ReadTip, CheckReorg, FindAncestor, EnterLoop, FetchBlock,
                  BlockMissing, AbortTick, AtRest
    <3> QED BY <1>1, <3>1 DEF IInv, NothingAboveCheckpoint
  <2> QED BY <2>1, <2>2, <2>3, <2>4 DEF LeaveTables, QuietStep
<1> QED BY <1>1, <1>2 DEF IInv, BlocksAreIds

LEMMA NextInv ==
  ASSUME IInv, [Next]_vars
  PROVE  IInv'
<1>1. TickInv'
  BY StepsAreTickSteps, TickNextInv DEF IInv
<1>2. CASE WipeTables
  BY <1>1, <1>2, WipeInv
<1>3. CASE ApplyToTables
  BY <1>1, <1>3, ApplyInv
<1>4. CASE LeaveTables
  BY <1>1, <1>4, LeaveInv
<1>5. CASE UNCHANGED vars
  BY <1>5, <1>1 DEF vars, IInv, BlocksAreIds, NothingAboveCheckpoint
<1> QED BY <1>2, <1>3, <1>4, <1>5 DEF Next

LEMMA Invariant == Spec => []IInv
<1>1. Init => IInv
  BY InitInv
<1>2. IInv /\ [Next]_vars => IInv'
  BY NextInv
<1> QED BY <1>1, <1>2, PTL DEF Spec

\* Every variable has its type in every reachable state, for every world of
\* transactions, every chain and every environment: what the follower stores
\* stays within what the keys' and values' encodings can hold.
THEOREM TypeCorrect == Spec => []TypeOK
<1>1. IInv => TypeOK
  BY DEF IInv, TickInv, TypeOK, BlocksAreIds
<1> QED BY <1>1, Invariant, PTL

\* The follower's control fits its checkpoint also when it moves the tables.
THEOREM AlwaysFits == Spec => []TickFitsCheckpoint
<1>1. IInv => TickFitsCheckpoint
  BY DEF IInv, TickInv
<1> QED BY <1>1, Invariant, PTL

\* Whatever the node does and wherever ticks stop, the secondary HTLC indexes
\* hold exactly the keys of the HTLC records.
THEOREM SecondaryIndexesAlwaysAgree == Spec => []SecondaryIndexesAgree
<1>1. IInv => SecondaryIndexesAgree
  BY DEF IInv, SecondaryIndexesAgree
<1> QED BY <1>1, Invariant, PTL

\* Whatever the node does and wherever ticks stop, the settlement and the datum
\* tables agree with their mirrors.
THEOREM MirrorsAlwaysAgree == Spec => []MirrorsAgree
<1>1. IInv => MirrorsAgree
  BY DEF IInv, MirrorsHold, MirrorsAgree
<1> QED BY <1>1, Invariant, PTL

\* No table ever holds a row of a block above the checkpoint, so a tick that
\* follows a stop or a failure walks over heights without rows.
THEOREM NeverAboveCheckpoint == Spec => []NothingAboveCheckpoint
<1>1. IInv => NothingAboveCheckpoint
  BY DEF IInv
<1> QED BY <1>1, Invariant, PTL
=============================================================================
