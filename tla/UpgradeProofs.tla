--------------------------- MODULE UpgradeProofs ---------------------------
(***************************************************************************)
(* The second walk of an upgraded store begins once, in every environment, *)
(* and leaves no hole: for every world of transactions and every store the *)
(* old release may have left.                                              *)
(***************************************************************************)
EXTENDS UpgradeSafety, IndexProofs

\* The follower's control is what it is without upgrades, and is asleep until the
\* store is open and migrated: what resets the checkpoint runs beside no tick.
UpgradeInv ==
  /\ TickInv
  /\ process # "running" => pc = "sleep"

\* An old store's checkpoint names the last block of the chain it indexed.
LEMMA OldCheckpoint ==
  ASSUME NEW c \in OldChains
  PROVE  /\ c \in Histories /\ c # <<>>
         /\ HeightOfChain(c) \in Heights /\ HeightOf(c) = HeightOfChain(c)
<1>1. c \in Seq(Bodies) /\ Len(c) \in 1 .. MaxHeight + 1 /\ MaxHeight \in Nat
  BY OldChainsAssumption, NodeAssumption DEF Bodies
<1> QED BY <1>1, PositiveLength DEF Histories, Heights, HeightOf, HeightOfChain

LEMMA UpgradeInitInv == InitUpgrade => UpgradeInv
<1> SUFFICES ASSUME InitUpgrade PROVE UpgradeInv
  OBVIOUS
<1>1. /\ pc = "sleep" /\ tip = 0 /\ m = MetaDefault /\ h = 0 /\ got = ZeroId
  BY DEF InitUpgrade
<1>2. ZeroId \in Histories /\ 0 \in Heights /\ MetaDefault \in Metas
  BY EmptySeq, NodeAssumption DEF ZeroId, Histories, Heights, MetaDefault, Metas
<1>3. CASE OldStore
  <2>1. /\ chain \in OldChains
        /\ meta = [last |-> HeightOfChain(chain), id |-> chain, full |-> TRUE]
    BY <1>3 DEF OldStore
  <2>2. /\ chain \in Histories /\ chain # <<>> /\ meta \in Metas
        /\ meta.id # ZeroId /\ HeightOf(meta.id) = meta.last
    BY <2>1, OldCheckpoint DEF Metas, ZeroId
  <2> QED BY <1>1, <1>2, <2>2 DEF UpgradeInv, TickInv, TickTypeOK, TickFitsCheckpoint, Pcs
<1>4. CASE NewStore
  <2>1. TickInit
    BY <1>1, <1>4 DEF NewStore, TickInit
  <2> QED BY <1>1, <2>1, TickInitInv DEF UpgradeInv
<1> QED BY <1>3, <1>4 DEF InitUpgrade

\* Every step but the migration is a step of the follower's control, or leaves it.
LEMMA UpgradeStepsAreTickSteps ==
  ASSUME [UpgradeNext]_upgradeVars
  PROVE  Migrate \/ [TickNext]_tickVars
BY DEF UpgradeNext, upgradeVars, vars, tickVars, CreateTables, Work, WipeTables,
       ApplyToTables, Fail, Stop, NodeGoesOn, TickNext, TickStep

LEMMA UpgradeNextInv == UpgradeInv /\ [UpgradeNext]_upgradeVars => UpgradeInv'
<1> SUFFICES ASSUME UpgradeInv, [UpgradeNext]_upgradeVars PROVE UpgradeInv'
  OBVIOUS
<1>1. CASE Migrate
  <2>1. /\ pc = "sleep" /\ pc' = pc /\ process' = "running"
        /\ chain' = chain /\ tip' = tip /\ m' = m /\ h' = h /\ got' = got
        /\ meta' = meta \/ meta' = MetaDefault
    BY <1>1 DEF Migrate, UpgradeInv, local
  <2>2. MetaDefault \in Metas
    <3>1. ZeroId \in Histories
      BY EmptySeq, NodeAssumption DEF ZeroId, Histories
    <3> QED BY <3>1, NodeAssumption DEF MetaDefault, Metas, Heights
  <2>3. /\ meta' \in Metas
        /\ meta'.id = ZeroId => meta'.last = 0
        /\ meta'.id # ZeroId => HeightOf(meta'.id) = meta'.last
    <3>1. CASE meta' = meta
      BY <3>1 DEF UpgradeInv, TickInv, TickTypeOK, TickFitsCheckpoint
    <3>2. CASE meta' = MetaDefault
      BY <2>2, <3>2 DEF MetaDefault
    <3> QED BY <2>1, <3>1, <3>2
  <2> QED BY <2>1, <2>3 DEF UpgradeInv, TickInv, TickTypeOK, TickFitsCheckpoint
<1>2. CASE [TickNext]_tickVars
  <2>1. TickInv'
    BY <1>2, TickNextInv DEF UpgradeInv
  <2>2. CASE Migrate
    BY <1>1, <2>2
  <2>3. CASE CreateTables \/ NodeGoesOn \/ UNCHANGED upgradeVars
    BY <2>1, <2>3 DEF UpgradeInv, CreateTables, NodeGoesOn, NodeStep, upgradeVars, vars
  <2>4. CASE Work
    BY <2>1, <2>4 DEF UpgradeInv, Work
  <2>5. CASE Fail \/ Stop
    BY <2>1, <2>5 DEF UpgradeInv, Fail, Stop, AbortTick, AtRest, tickVars
  <2> QED BY <2>2, <2>3, <2>4, <2>5 DEF UpgradeNext
<1> QED BY <1>1, <1>2, UpgradeStepsAreTickSteps

\* No step of the control empties a checkpoint that names a block: what a rewind
\* saves and what an apply stores is an id with a height.
LEMMA TickKeepsCheckpoint ==
  ASSUME TickInv, [TickNext]_tickVars, meta.id # ZeroId
  PROVE  meta'.id # ZeroId
<1>1. Len(ZeroId) = 0
  BY EmptySeq DEF ZeroId
<1>2. CASE SaveReorg
  <2>1. HeightOf(m.id) = meta.last - 1 /\ meta.last > 0 /\ meta.last \in Int
    BY <1>2, NodeAssumption
    DEF SaveReorg, TickInv, TickTypeOK, TickFitsCheckpoint, Metas, Heights
  <2>2. m.id # ZeroId
    BY <1>1, <2>1 DEF HeightOf
  <2> QED BY <1>2, <2>2 DEF SaveReorg
<1>3. CASE ApplyBlock
  <2>1. HeightOf(got) = h /\ h \in Nat /\ meta'.id = got
    BY <1>3, NodeAssumption
    DEF ApplyBlock, TickInv, TickTypeOK, TickFitsCheckpoint, Heights
  <2> QED BY <1>1, <2>1 DEF HeightOf
<1>4. CASE CaughtUp
  <2>1. m = meta /\ meta \in Metas
    BY <1>4 DEF CaughtUp, TickInv, TickTypeOK, TickFitsCheckpoint
  <2> QED BY <1>4, <2>1 DEF CaughtUp, Metas
<1>5. CASE meta' = meta
  BY <1>5
<1> QED BY <1>2, <1>3, <1>4, <1>5
        DEF TickNext, TickStep, QuietStep, ReadTip, CheckReorg, FindAncestor, EnterLoop,
            FetchBlock, BlockMissing, Wipe, AbortTick, NodeStep, tickVars

\* Once the version is stamped, no step of the process, the follower or the node
\* empties a checkpoint that names a block: an upgraded store is walked again once,
\* wherever the process stops and however often it starts.
THEOREM AlwaysReindexesOnce == UpgradeSpec => ReindexesOnce
<1>1. UpgradeInv /\ [UpgradeNext]_upgradeVars =>
        (version = SchemaVersion /\ meta.id # ZeroId => meta'.id # ZeroId)
  <2> SUFFICES ASSUME UpgradeInv, [UpgradeNext]_upgradeVars,
                      version = SchemaVersion, meta.id # ZeroId
               PROVE  meta'.id # ZeroId
    OBVIOUS
  <2>1. CASE Migrate
    BY <2>1 DEF Migrate
  <2>2. CASE [TickNext]_tickVars
    BY <2>2, TickKeepsCheckpoint DEF UpgradeInv
  <2> QED BY <2>1, <2>2, UpgradeStepsAreTickSteps
<1> QED BY <1>1, UpgradeInitInv, UpgradeNextInv, PTL DEF UpgradeSpec, ReindexesOnce

(***************************************************************************)
(* The second walk runs over the rows of the first.  What the follower     *)
(* does to a row depends on that row alone, so tables that hold the index  *)
(* of a block among other rows go on holding it.                           *)
(***************************************************************************)
LEMMA InsertKeepsWithin ==
  ASSUME NEW part, NEW whole, NEW rows, Within(part, whole)
  PROVE  Within(Insert(part, rows), Insert(whole, rows))
BY DEF Within, Insert

\* Rows are kept by what they say.
LEMMA KeepKeepsWithin ==
  ASSUME NEW part, NEW whole, NEW K, NEW L, Within(part, whole),
         \A k \in DOMAIN part \cap K : k \in L
  PROVE  Within(Keep(part, K), Keep(whole, L))
BY DEF Within, Keep

LEMMA AdvanceKeepsWithin ==
  ASSUME NEW t, NEW u, NEW spends, NEW height, Within(t.full, u.full)
  PROVE  Within(AdvanceHtlcs(t, spends, height).full, AdvanceHtlcs(u, spends, height).full)
<1> DEFINE a == AdvanceHtlcs(t, spends, height).full
           b == AdvanceHtlcs(u, spends, height).full
<1>1. DOMAIN t.full \subseteq DOMAIN u.full /\ \A o \in DOMAIN t.full : t.full[o] = u.full[o]
  BY DEF Within
<1>2. /\ DOMAIN a = DOMAIN t.full
      /\ \A o \in Hit(t.full, spends) :
           a[o] = SettledRecord(t.full[o], Settler(spends, o), height)
      /\ \A o \in DOMAIN t.full \ Hit(t.full, spends) : a[o] = t.full[o]
  BY AdvanceExactly
<1>3. /\ DOMAIN b = DOMAIN u.full
      /\ \A o \in Hit(u.full, spends) :
           b[o] = SettledRecord(u.full[o], Settler(spends, o), height)
      /\ \A o \in DOMAIN u.full \ Hit(u.full, spends) : b[o] = u.full[o]
  BY AdvanceExactly
<1> HIDE DEF a, b
<1>4. ASSUME NEW o \in DOMAIN t.full
      PROVE  a[o] = b[o]
  <2>1. o \in Hit(t.full, spends) <=> o \in Hit(u.full, spends)
    BY <1>1 DEF Hit, Advanceable
  <2> QED BY <1>1, <1>2, <1>3, <2>1
<1>5. DOMAIN a \subseteq DOMAIN b /\ \A o \in DOMAIN a : a[o] = b[o]
  BY <1>1, <1>2, <1>3, <1>4
<1> QED BY <1>5 DEF Within, a, b

LEMMA UpsertKeepsWithin ==
  ASSUME NEW t, NEW u, NEW recs, Within(t.full, u.full)
  PROVE  Within(UpsertHtlcs(t, recs).full, UpsertHtlcs(u, recs).full)
BY DEF Within, UpsertHtlcs, ForgetHtlcs, Insert, Keep

LEMMA CoversParts ==
  ASSUME NEW d, NEW c
  PROVE  Covers(d, c) <=>
           /\ Within(RefHtlcs(c), d.htlc.full)
           /\ Within(RefActivity(RefBlocks(c)), d.activity)
           /\ Within(RefSpentBy(c), d.spentBy)
           /\ Within(RefDatums(c), d.datum.forward)
           /\ Within(RefBlocks(c), d.blocks)
BY DEF Covers, RefIndex

\* Tables with the rows of chain c and no others.
Just(c) ==
  [htlc       |-> [full |-> RefHtlcs(c), bySender |-> {}, byReceiver |-> {},
                   byHashlock |-> {}, byState |-> {}],
   settlement |-> EmptyDb.settlement,
   activity   |-> RefActivity(RefBlocks(c)),
   spentBy    |-> RefSpentBy(c),
   datum      |-> [forward |-> RefDatums(c), byQuote |-> {}],
   blocks     |-> RefBlocks(c)]

LEMMA JustIndex ==
  ASSUME NEW c
  PROVE  IndexOf(Just(c)) = RefIndex(c)
BY IndexParts DEF Just

LEMMA CoversApply ==
  ASSUME NEW e \in Histories, ValidChain(e), Len(e) # 0, NEW n, n = Len(e) - 1,
         NEW d, Covers(d, Stem(e, n)), NEW unread
  PROVE  Covers(ApplyBlockEvents(d, BlockEvents(d, e, n, unread)), e)
<1> DEFINE b == BodyOf(e)
           r == Just(Stem(e, n))
           old == ApplyBlockEvents(r, BlockEvents(r, e, n, unread))
           new == ApplyBlockEvents(d, BlockEvents(d, e, n, unread))
<1>1. IndexOf(old) = RefIndex(e)
  BY ApplyIndex, JustIndex
<1>2. /\ Within(r.htlc.full, d.htlc.full)
      /\ Within(r.activity, d.activity)
      /\ Within(r.spentBy, d.spentBy)
      /\ Within(r.datum.forward, d.datum.forward)
      /\ Within(r.blocks, d.blocks)
  BY CoversParts DEF Just
<1>3. \A x \in {r, d} :
        LET w == ApplyBlockEvents(x, BlockEvents(x, e, n, unread))
        IN  /\ w.htlc.full = AdvanceHtlcs(UpsertHtlcs(x.htlc, BlockLocks(b, n)),
                                          BlockSpends(b), n).full
            /\ w.activity = Insert(x.activity, BlockActivity(b, n))
            /\ w.spentBy = Insert(x.spentBy, BlockSpentBy(b, n))
            /\ w.datum.forward = Insert(x.datum.forward, BlockDatums(b, n))
            /\ w.blocks = Insert(x.blocks, [k \in {n} |-> e])
  BY DEF ApplyBlockEvents, BlockEvents, WriteDatums
<1> HIDE DEF r, old, new
<1>4. Within(old.htlc.full, new.htlc.full)
  BY <1>2, <1>3, UpsertKeepsWithin, AdvanceKeepsWithin DEF old, new
<1>5. /\ Within(old.activity, new.activity)
      /\ Within(old.spentBy, new.spentBy)
      /\ Within(old.datum.forward, new.datum.forward)
      /\ Within(old.blocks, new.blocks)
  BY <1>2, <1>3, InsertKeepsWithin DEF old, new
<1>6. Covers(new, e)
  BY <1>1, <1>4, <1>5, IndexParts, CoversParts
<1> QED BY <1>6 DEF new

LEMMA CoversWipe ==
  ASSUME NEW e \in Histories, ValidChain(e), NEW n \in 0 .. Len(e),
         LocksKeepTheirSpends(e, n), NEW d, Covers(d, e)
  PROVE  Covers(WipeAbove(d, n - 1), Stem(e, n))
<1> DEFINE r == Just(e)
           old == WipeAbove(r, n - 1)
           new == WipeAbove(d, n - 1)
           above(x) == {o \in DOMAIN x.htlc.full : x.htlc.full[o].lockHeight > n - 1}
           late(x) == {o \in DOMAIN x.datum.forward : x.datum.forward[o].height > n - 1}
<1>1. IndexOf(old) = RefIndex(Stem(e, n))
  BY WipeIndex, JustIndex
<1>2. /\ Within(r.htlc.full, d.htlc.full)
      /\ Within(r.activity, d.activity)
      /\ Within(r.spentBy, d.spentBy)
      /\ Within(r.datum.forward, d.datum.forward)
      /\ Within(r.blocks, d.blocks)
  BY CoversParts DEF Just
<1>3. \A x \in {r, d} :
        LET w == WipeAbove(x, n - 1)
        IN  /\ w.htlc.full = Keep(x.htlc.full, DOMAIN x.htlc.full \ above(x))
            /\ w.activity = Keep(x.activity, {k \in DOMAIN x.activity : k[2] <= n - 1})
            /\ w.spentBy = Keep(x.spentBy, {o \in DOMAIN x.spentBy : x.spentBy[o].height <= n - 1})
            /\ w.datum.forward = Keep(x.datum.forward, DOMAIN x.datum.forward \ late(x))
            /\ w.blocks = Keep(x.blocks, {k \in DOMAIN x.blocks : k <= n - 1})
  BY DEF WipeAbove, ForgetHtlcs, WipeActivityAbove, WipeSpentByAbove, WipeDatumsAbove
<1> HIDE DEF r, old, new
<1>4. Within(old.htlc.full, new.htlc.full)
  <2>1. \A o \in DOMAIN r.htlc.full \cap (DOMAIN r.htlc.full \ above(r)) :
          o \in DOMAIN d.htlc.full \ above(d)
    BY <1>2 DEF Within
  <2> HIDE DEF above
  <2> QED BY <1>2, <1>3, <2>1, KeepKeepsWithin DEF old, new
<1>5. Within(old.activity, new.activity)
  <2>1. \A k \in DOMAIN r.activity \cap {x \in DOMAIN r.activity : x[2] <= n - 1} :
          k \in {x \in DOMAIN d.activity : x[2] <= n - 1}
    BY <1>2 DEF Within
  <2> QED BY <1>2, <1>3, <2>1, KeepKeepsWithin DEF old, new
<1>6. Within(old.spentBy, new.spentBy)
  <2>1. \A o \in DOMAIN r.spentBy \cap {x \in DOMAIN r.spentBy : r.spentBy[x].height <= n - 1} :
          o \in {x \in DOMAIN d.spentBy : d.spentBy[x].height <= n - 1}
    BY <1>2 DEF Within
  <2> QED BY <1>2, <1>3, <2>1, KeepKeepsWithin DEF old, new
<1>7. Within(old.datum.forward, new.datum.forward)
  <2>1. \A o \in DOMAIN r.datum.forward \cap (DOMAIN r.datum.forward \ late(r)) :
          o \in DOMAIN d.datum.forward \ late(d)
    BY <1>2 DEF Within
  <2> HIDE DEF late
  <2> QED BY <1>2, <1>3, <2>1, KeepKeepsWithin DEF old, new
<1>8. Within(old.blocks, new.blocks)
  <2>1. \A k \in DOMAIN r.blocks \cap {x \in DOMAIN r.blocks : x <= n - 1} :
          k \in {x \in DOMAIN d.blocks : x <= n - 1}
    BY <1>2 DEF Within
  <2> QED BY <1>2, <1>3, <2>1, KeepKeepsWithin DEF old, new
<1>9. Covers(new, Stem(e, n))
  BY <1>1, <1>4, <1>5, <1>6, <1>7, <1>8, IndexParts, CoversParts
<1> QED BY <1>9 DEF new

LEMMA CoversNothing == \A d : Covers(d, <<>>)
<1>1. IndexOf(EmptyDb) = RefIndex(<<>>)
  BY EmptyIndex
<1>2. /\ RefHtlcs(<<>>) = EmptyTable /\ RefActivity(RefBlocks(<<>>)) = EmptyTable
      /\ RefSpentBy(<<>>) = EmptyTable /\ RefDatums(<<>>) = EmptyTable
      /\ RefBlocks(<<>>) = EmptyTable
  <2>1. /\ EmptyDb.htlc.full = EmptyTable /\ EmptyDb.activity = EmptyTable
        /\ EmptyDb.spentBy = EmptyTable /\ EmptyDb.datum.forward = EmptyTable
        /\ EmptyDb.blocks = EmptyTable
    BY DEF EmptyDb
  <2> QED BY <1>1, <2>1, IndexParts
<1>3. \A whole : Within(EmptyTable, whole)
  BY DEF Within, EmptyTable
<1> QED BY <1>2, <1>3, CoversParts

(***************************************************************************)
(* The process: what the control keeps without upgrades it keeps with      *)
(* them, and once the version is stamped the tables hold the index of the  *)
(* block walked to.                                                        *)
(***************************************************************************)
WalkInv ==
  /\ UpgradeInv
  /\ OneChain
  /\ StepsBack
  /\ CleanInv
  /\ version = SchemaVersion => Covers(db, CurrentId)

LEMMA WalkInit == InitUpgrade => WalkInv
<1> SUFFICES ASSUME InitUpgrade PROVE WalkInv
  OBVIOUS
<1>1. /\ pc = "sleep" /\ tip = 0 /\ m = MetaDefault /\ h = 0 /\ got = ZeroId
  BY DEF InitUpgrade
<1>2. UpgradeInv
  BY UpgradeInitInv
<1>3. CASE OldStore
  <2>1. chain \in OldChains /\ meta.id = chain /\ version = 0
    BY <1>3 DEF OldStore
  <2>2. /\ chain \in Histories /\ chain # <<>> /\ chain[1] = Genesis /\ ValidChain(chain)
        /\ chain \in Seq(Bodies) /\ Len(chain) \in Nat /\ Len(chain) # 0
    BY <2>1, OldCheckpoint, OldChainsAssumption, LenProperties, EmptySeq DEF Histories
  <2>3. OnChain(chain)
    <3>1. chain = SubSeq(chain, 1, Len(chain))
      BY <2>2, SubSeqFull
    <3> QED BY <2>2, <3>1 DEF OnChain
  <2>4. OneChain
    BY <1>1, <2>1, <2>2 DEF OneChain
  <2>5. StepsBack
    BY <1>1, <2>1, <2>2, <2>3, OnChainHasParent DEF StepsBack
  <2>6. CleanInv
    BY <1>1, <2>1, <2>2, <2>3 DEF CleanInv, WipesCleanly
  <2>7. version # SchemaVersion
    BY <2>1 DEF SchemaVersion
  <2> QED BY <1>2, <2>4, <2>5, <2>6, <2>7 DEF WalkInv
<1>4. CASE NewStore
  <2>1. TickInit
    BY <1>1, <1>4 DEF NewStore, TickInit
  <2>2. OneChain
    BY <2>1 DEF TickInit, InitNode, OneChain, MetaDefault, ZeroId
  <2>3. Covers(db, CurrentId)
    BY <2>1, CoversNothing DEF TickInit, CurrentId, MetaDefault, ZeroId
  <2> QED BY <1>2, <2>1, <2>2, <2>3, StepsBackInit, CleanInit DEF WalkInv
<1> QED BY <1>3, <1>4 DEF InitUpgrade

LEMMA WalkMigrate ==
  ASSUME WalkInv, UpgradeInv', Migrate
  PROVE  WalkInv'
<1>1. /\ pc = "sleep" /\ pc' = pc /\ db' = db
      /\ chain' = chain /\ tip' = tip /\ m' = m /\ h' = h /\ got' = got
      /\ meta' = IF version = SchemaVersion THEN meta ELSE MetaDefault
  BY DEF Migrate, UpgradeInv, WalkInv, local
<1>2. CASE version = SchemaVersion
  <2>1. meta' = meta /\ version' = version
    BY <1>1, <1>2 DEF Migrate
  <2> QED BY <1>1, <2>1
          DEF WalkInv, OneChain, StepsBack, ParentOnChain, CleanInv, OnChain, WipesCleanly,
              CurrentId
<1>3. CASE version # SchemaVersion
  <2>1. meta'.id = ZeroId /\ CurrentId' = <<>>
    BY <1>1, <1>3 DEF MetaDefault, CurrentId, ZeroId
  <2>2. OneChain'
    BY <1>1, <2>1 DEF WalkInv, OneChain
  <2>3. StepsBack'
    <3>1. Len(meta'.id) = 0 /\ Len(chain) \in Nat
      BY <2>1, EmptySeq, LenProperties
      DEF ZeroId, WalkInv, UpgradeInv, TickInv, TickTypeOK, Histories
    <3> QED BY <1>1, <3>1 DEF StepsBack, ParentOnChain
  <2>4. CleanInv'
    BY <1>1, <2>1, EmptyIndex DEF WalkInv, CleanInv, WipesCleanly, ZeroId
  <2> QED BY <2>1, <2>2, <2>3, <2>4, CoversNothing DEF WalkInv
<1> QED BY <1>2, <1>3

LEMMA WalkNext ==
  ASSUME ~MidTick, ~StopInRewind, MaxDepth <= 1, ReorgUntouched,
         WalkInv, [UpgradeNext]_upgradeVars
  PROVE  WalkInv'
<1>1. UpgradeInv' /\ TickInv
  BY UpgradeNextInv DEF WalkInv, UpgradeInv
<1>2. CASE Migrate
  BY <1>1, <1>2, WalkMigrate
<1>3. CASE ~Migrate
  <2>1. [TickNext]_tickVars
    BY <1>3, UpgradeStepsAreTickSteps
  <2>2. OneChain' /\ StepsBack' /\ CleanInv'
    BY <1>1, <2>1, OneChainTick, StepsBackTick, CleanTick DEF WalkInv
  <2>3. version' = version
    BY <1>3 DEF UpgradeNext, CreateTables, Work, Fail, Stop, NodeGoesOn, upgradeVars
  <2> SUFFICES ASSUME version = SchemaVersion PROVE Covers(db, CurrentId)'
    BY <1>1, <2>2, <2>3 DEF WalkInv
  <2>4. Covers(db, CurrentId)
    BY DEF WalkInv
  <2>5. CASE WipeTables
    <3> DEFINE n == Len(meta.id) - 1
    <3>1. /\ n \in 0 .. Len(meta.id) /\ m.last = n - 1 /\ meta.id \in Histories
          /\ m.id = Stem(meta.id, n) /\ CurrentId = meta.id /\ CurrentId' = m.id
          /\ LocksKeepTheirSpends(meta.id, n) /\ ValidChain(meta.id)
      BY <1>1, <2>5, WipeSteps, CleanWipe DEF WipeTables, WalkInv, Stem
    <3> HIDE DEF n
    <3>2. Covers(WipeAbove(db, n - 1), Stem(meta.id, n))
      BY <2>4, <3>1, CoversWipe
    <3>3. db' = WipeAbove(db, n - 1)
      BY <2>5, <3>1 DEF WipeTables
    <3> QED BY <3>1, <3>2, <3>3
  <2>6. CASE ApplyToTables
    <3>1. /\ got \in Histories /\ Len(got) # 0 /\ h = Len(got) - 1
          /\ CurrentId = Stem(got, h) /\ CurrentId' = got /\ ValidChain(got)
      BY <1>1, <2>6, ApplySteps, CleanApply DEF ApplyToTables, WalkInv, Stem
    <3>2. PICK unread \in Unread : db' = ApplyBlockEvents(db, BlockEvents(db, got, h, unread))
      BY <2>6 DEF ApplyToTables
    <3>3. Covers(ApplyBlockEvents(db, BlockEvents(db, got, h, unread)), got)
      BY <2>4, <3>1, CoversApply
    <3> QED BY <3>1, <3>2, <3>3
  <2>7. CASE (QuietStep \/ AbortTick \/ NodeStep) /\ db' = db
    BY <1>1, <2>4, <2>7, LeaveKeepsCurrent
  <2>8. CASE UNCHANGED vars
    BY <2>4, <2>8 DEF vars, CurrentId
  <2>9. \/ WipeTables \/ ApplyToTables
        \/ (QuietStep \/ AbortTick \/ NodeStep) /\ db' = db
        \/ UNCHANGED vars
    BY <1>3 DEF UpgradeNext, CreateTables, Work, Fail, Stop, NodeGoesOn, upgradeVars, vars,
                tickVars
  <2> QED BY <2>5, <2>6, <2>7, <2>8, <2>9
<1> QED BY <1>2, <1>3

\* Where the node holds still during a tick, a tick never stops between the two
\* commits of its rewind, and reorganisations between ticks are a block deep and
\* orphan no spend of an HTLC they leave in place, the second walk of an upgraded
\* store leaves no hole: wherever the process stops and however the chain moves,
\* the store has every row the chain up to the checkpoint calls for, as that chain
\* calls for it, among the rows of the first walk.
THEOREM SecondWalkIsComplete ==
  ASSUME ~MidTick, ~StopInRewind, MaxDepth <= 1, ReorgUntouched
  PROVE  UpgradeSpec => []WalkedIsComplete
<1>1. InitUpgrade => WalkInv
  BY WalkInit
<1>2. WalkInv /\ [UpgradeNext]_upgradeVars => WalkInv'
  BY WalkNext
<1>3. WalkInv => WalkedIsComplete
  BY DEF WalkInv, WalkedIsComplete, CurrentId
<1> QED BY <1>1, <1>2, <1>3, PTL DEF UpgradeSpec
=============================================================================
