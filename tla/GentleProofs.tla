---------------------------- MODULE GentleProofs ---------------------------
(***************************************************************************)
(* What the follower keeps when its environment is kinder than the worst:  *)
(* no stop inside a rewind, no node that moves while a tick runs, no       *)
(* reorganisation deeper than a block.  Each theorem names in its ASSUME   *)
(* the switches it needs, and holds for every value of the others.         *)
(***************************************************************************)
EXTENDS FollowerProofs

(***************************************************************************)
(* Without a stop inside a rewind, the blocks listed have no gap.          *)
(***************************************************************************)
NoGap ==
  /\ pc # "save" => DOMAIN db.blocks = 0 .. HeightOf(meta.id)
  /\ pc = "save" => DOMAIN db.blocks = 0 .. m.last

\* The block whose index the tables should be: the one the checkpoint names or,
\* between the two commits of a rewind, the one it is about to name.
CurrentId == IF pc = "save" THEN m.id ELSE meta.id

\* A step other than the two transactions changes neither that block nor, but for
\* the second commit of a rewind, whether a rewind is between its commits.
LEMMA LeaveKeepsCurrent ==
  ASSUME TickInv, QuietStep \/ AbortTick \/ NodeStep, ~StopInRewind
  PROVE  /\ CurrentId' = CurrentId
         /\ \/ SaveReorg
            \/ pc # "save" /\ pc' # "save" /\ meta'.id = meta.id
            \/ pc = "save" /\ pc' = "save" /\ m' = m
<1>1. \/ SaveReorg
      \/ pc # "save" /\ pc' # "save" /\ meta'.id = meta.id
      \/ pc = "save" /\ pc' = "save" /\ m' = m
  <2>1. CASE CaughtUp
    <3>1. m = meta /\ meta \in Metas
      BY <2>1 DEF CaughtUp, TickInv, TickTypeOK, TickFitsCheckpoint
    <3>2. meta'.id = meta.id
      BY <2>1, <3>1 DEF CaughtUp, Metas
    <3> QED BY <2>1, <3>2 DEF CaughtUp, AtRest
  <2>2. CASE NodeStep
    BY <2>2 DEF NodeStep, local
  <2>3. CASE AbortTick
    BY <2>3 DEF AbortTick, AtRest
  <2>4. CASE ReadTip \/ CheckReorg \/ FindAncestor \/ EnterLoop \/ FetchBlock \/ BlockMissing
    BY <2>4 DEF ReadTip, CheckReorg, FindAncestor, EnterLoop, FetchBlock, BlockMissing, AtRest
  <2> QED BY <2>1, <2>2, <2>3, <2>4 DEF QuietStep
<1>2. CASE SaveReorg
  BY <1>1, <1>2 DEF SaveReorg, CurrentId
<1> QED BY <1>1, <1>2 DEF CurrentId

LEMMA LeaveKeepsHeight ==
  ASSUME IInv, LeaveTables, ~StopInRewind
  PROVE  /\ db' = db
         /\ \/ SaveReorg
            \/ pc # "save" /\ pc' # "save" /\ meta'.id = meta.id
            \/ pc = "save" /\ pc' = "save" /\ m' = m
BY LeaveKeepsCurrent DEF LeaveTables, IInv

\* The height of the next block follows the height of the checkpoint's id.
LEMMA NextHeight ==
  ASSUME TickInv, pc = "apply"
  PROVE  /\ h \in Nat
         /\ HeightOf(meta.id) = h - 1
         /\ HeightOf(got) = h
<1>1. /\ meta.last \in Nat /\ h \in Nat /\ h = Start(meta) /\ HeightOf(got) = h
      /\ meta.id = ZeroId => meta.last = 0
      /\ meta.id # ZeroId => HeightOf(meta.id) = meta.last
  BY NodeAssumption
  DEF TickInv, TickTypeOK, TickFitsCheckpoint, Metas, Heights
<1>2. CASE meta.id = ZeroId
  <2>1. HeightOf(meta.id) = -1
    BY <1>2 DEF HeightOf, ZeroId
  <2> QED BY <1>1, <1>2, <2>1 DEF Start
<1>3. CASE meta.id # ZeroId
  BY <1>1, <1>3 DEF Start
<1> QED BY <1>2, <1>3

LEMMA NoGapInit == Init => NoGap
<1> SUFFICES ASSUME Init PROVE NoGap
  OBVIOUS
<1>1. pc = "sleep" /\ HeightOf(meta.id) = -1
  BY DEF Init, TickInit, MetaDefault, ZeroId, HeightOf
<1>2. DOMAIN db.blocks = {}
  BY DEF Init, EmptyDb, EmptyTable
<1> QED BY <1>1, <1>2 DEF NoGap

LEMMA NoGapNext ==
  ASSUME ~StopInRewind, IInv, NoGap, [Next]_vars
  PROVE  NoGap'
<1>1. CASE WipeTables
  <2>1. pc = "wipe" /\ pc' = "save" /\ m' = m /\ db' = WipeAbove(db, m.last)
    BY <1>1 DEF WipeTables, Wipe, local
  <2>2. /\ DOMAIN db.blocks = 0 .. HeightOf(meta.id)
        /\ HeightOf(meta.id) = meta.last /\ m.last = meta.last - 1
        /\ meta.last \in Nat /\ meta.last > 0
    <3>1. meta.last \in Nat /\ meta.last > 0 /\ m.last = meta.last - 1
      BY <2>1, NodeAssumption
      DEF IInv, TickInv, TickTypeOK, TickFitsCheckpoint, Metas, Heights
    <3>2. HeightOf(meta.id) = meta.last
      BY <3>1 DEF IInv, TickInv, TickFitsCheckpoint
    <3> QED BY <2>1, <3>1, <3>2 DEF NoGap
  <2>3. DOMAIN db'.blocks = DOMAIN db.blocks \cap {x \in DOMAIN db.blocks : x <= m.last}
    BY <2>1 DEF WipeAbove, Keep
  <2>4. DOMAIN db'.blocks = 0 .. m.last
    BY <2>2, <2>3
  <2> QED BY <2>1, <2>4 DEF NoGap
<1>2. CASE ApplyToTables
  <2>0. PICK unread \in Unread : db' = ApplyBlockEvents(db, BlockEvents(db, got, h, unread))
    BY <1>2 DEF ApplyToTables
  <2>1. pc = "apply" /\ pc' # "save" /\ meta'.id = got
    BY <1>2 DEF ApplyToTables, ApplyBlock, AtRest
  <2>2. DOMAIN db'.blocks = DOMAIN db.blocks \cup {h}
    BY <2>0 DEF ApplyBlockEvents, BlockEvents, Insert
  <2>3. h \in Nat /\ HeightOf(meta.id) = h - 1 /\ HeightOf(meta'.id) = h
    BY <2>1, NextHeight DEF IInv
  <2>4. DOMAIN db.blocks = 0 .. h - 1
    BY <2>1, <2>3 DEF NoGap
  <2>5. DOMAIN db'.blocks = 0 .. HeightOf(meta'.id)
    BY <2>2, <2>3, <2>4
  <2> QED BY <2>1, <2>5 DEF NoGap
<1>3. CASE LeaveTables
  <2>1. CASE SaveReorg
    <3>1. pc = "save" /\ pc' = "plan" /\ meta' = m /\ HeightOf(m.id) = m.last
      BY <2>1 DEF SaveReorg, IInv, TickInv, TickFitsCheckpoint
    <3> QED BY <1>3, <3>1, LeaveKeepsHeight DEF NoGap
  <2>2. CASE ~SaveReorg
    BY <1>3, <2>2, LeaveKeepsHeight DEF NoGap, HeightOf
  <2> QED BY <2>1, <2>2
<1>4. CASE UNCHANGED vars
  BY <1>4 DEF vars, NoGap
<1> QED BY <1>1, <1>2, <1>3, <1>4 DEF Next

\* Where no stop falls between a rewind's two commits, a tick always resumes over
\* tables that list every height up to the checkpoint, whatever the node does,
\* also while the tick runs, and however deep it reorganises.
THEOREM AlwaysResumesWithoutGap ==
  ASSUME ~StopInRewind
  PROVE  Spec => []ResumesWithoutGap
<1>1. Init => NoGap
  BY NoGapInit
<1>2. IInv /\ NoGap /\ [Next]_vars => NoGap'
  BY NoGapNext
<1>3. IInv /\ NoGap => ResumesWithoutGap
  <2> SUFFICES ASSUME IInv, NoGap, pc = "plan", meta.id # ZeroId
               PROVE  DOMAIN db.blocks = 0 .. meta.last
    BY DEF ResumesWithoutGap
  <2> QED BY DEF NoGap, IInv, TickInv, TickFitsCheckpoint
<1> QED BY <1>1, <1>2, <1>3, Invariant, PTL DEF Spec

(***************************************************************************)
(* Histories and the prefixes reorganisations leave.                       *)
(***************************************************************************)
\* The first n blocks of a history are a history of their own.
LEMMA PrefixProperties ==
  ASSUME NEW c \in Histories, NEW n \in 1 .. Len(c)
  PROVE  /\ SubSeq(c, 1, n) \in Histories
         /\ Len(SubSeq(c, 1, n)) = n
         /\ SubSeq(c, 1, n)[1] = c[1]
         /\ \A k \in 1 .. n : SubSeq(SubSeq(c, 1, n), 1, k) = SubSeq(c, 1, k)
<1>1. c \in Seq(Bodies) /\ Len(c) \in Nat /\ n \in Nat /\ n <= Len(c) /\ 1 <= n
  BY LenProperties DEF Histories
<1>2. \A i \in 1 .. n : c[i] \in Bodies
  BY <1>1, ElementOfSeq
<1>3. /\ SubSeq(c, 1, n) \in Seq(Bodies)
      /\ Len(SubSeq(c, 1, n)) = n
      /\ \A i \in 1 .. n : SubSeq(c, 1, n)[i] = c[i]
  <2>1. 1 \in Int /\ n \in Int
    BY <1>1
  <2>2. /\ SubSeq(c, 1, n) \in Seq(Bodies)
        /\ Len(SubSeq(c, 1, n)) = IF 1 <= n THEN n - 1 + 1 ELSE 0
        /\ \A i \in 1 .. n - 1 + 1 : SubSeq(c, 1, n)[i] = c[1 + i - 1]
    BY <1>2, <2>1, SubSeqProperties
  <2>3. \A i \in 1 .. n : SubSeq(c, 1, n)[i] = c[1 + i - 1] /\ 1 + i - 1 = i
    BY <1>1, <2>2
  <2> QED BY <1>1, <2>2, <2>3
<1>4. ASSUME NEW k \in 1 .. n
      PROVE  SubSeq(SubSeq(c, 1, n), 1, k) = SubSeq(c, 1, k)
  <2>1. 1 \in 1 .. Len(c) /\ n \in 1 .. Len(c)
    BY <1>1
  <2>2. 1 \in 1 .. n - 1 + 1 /\ k \in 1 .. n - 1 + 1
    BY <1>1
  <2>3. SubSeq(SubSeq(c, 1, n), 1, k) = SubSeq(c, 1 + 1 - 1, 1 + k - 1)
    BY <1>1, <2>1, <2>2, SubSeqOfSubSeq
  <2> QED BY <2>3
<1> QED BY <1>1, <1>3, <1>4, NodeAssumption DEF Histories

\* A branch that replaces the last d blocks keeps the blocks before them.
LEMMA NodeKeepsStem ==
  ASSUME chain \in Histories, chain # <<>>, NodeMoves
  PROVE  /\ chain'[1] = chain[1]
         /\ MaxDepth <= 1 =>
              /\ Len(chain) <= Len(chain')
              /\ \A n \in 1 .. Len(chain) - 1 : SubSeq(chain', 1, n) = SubSeq(chain, 1, n)
<1>0. chain \in Seq(Bodies) /\ Len(chain) \in Nat \ {0}
  BY EmptySeq DEF Histories
<1>1. CASE Mine
  <2>1. PICK b \in BlockBodies : chain' = Append(chain, b)
    BY <1>1 DEF Mine
  <2>2. b \in Bodies /\ <<b>> \in Seq(Bodies)
    BY DEF Bodies
  <2>3. chain' = chain \o <<b>>
    BY <1>0, <2>1, <2>2, AppendIsConcat
  <2>4. Len(chain') = Len(chain) + 1 /\ chain'[1] = chain[1]
    BY <1>0, <2>1, <2>2, AppendProperties
  <2>5. ASSUME NEW n \in 1 .. Len(chain) - 1
        PROVE  SubSeq(chain', 1, n) = SubSeq(chain, 1, n)
    <3>1. 1 \in 1 .. Len(chain) /\ n \in 1 .. Len(chain)
      BY <1>0
    <3> QED BY <1>0, <2>2, <2>3, <3>1, SubSeqOfConcat1
  <2> QED BY <1>0, <2>4, <2>5
<1>2. CASE Reorg
  <2>1. PICK d \in 1 .. MaxDepth :
          /\ Len(chain) - d >= 1
          /\ \E n \in (IF Shorter THEN 1 ELSE d + 1) .. d + 1 :
               \E branch \in Branches(n) :
                 chain' = SubSeq(chain, 1, Len(chain) - d) \o branch
    BY <1>2 DEF Reorg
  <2>2. PICK l \in (IF Shorter THEN 1 ELSE d + 1) .. d + 1 : \E branch \in Branches(l) :
          chain' = SubSeq(chain, 1, Len(chain) - d) \o branch
    BY <2>1
  <2>3. PICK branch \in Branches(l) : chain' = SubSeq(chain, 1, Len(chain) - d) \o branch
    BY <2>2
  <2> DEFINE fork == Len(chain) - d
             stem == SubSeq(chain, 1, fork)
  <2>4. fork \in 1 .. Len(chain) /\ fork \in Nat /\ fork <= Len(chain) - 1
    BY <1>0, <2>1, NodeAssumption
  <2>5. l \in Nat /\ l >= 1
    BY <2>1, <2>2, NodeAssumption
  <2>6. branch \in Seq(Bodies) /\ Len(branch) = l
    <3>1. branch \in [1 .. l -> Bodies]
      BY <2>3 DEF Branches, Bodies
    <3>2. branch \in Seq(Bodies)
      BY <2>5, <3>1, SeqDef
    <3>3. DOMAIN branch = 1 .. l /\ DOMAIN branch = 1 .. Len(branch) /\ Len(branch) \in Nat
      BY <3>1, <3>2, LenProperties
    <3> QED BY <2>5, <3>2, <3>3
  <2>7. /\ stem \in Seq(Bodies) /\ Len(stem) = fork /\ stem[1] = chain[1]
        /\ \A k \in 1 .. fork : SubSeq(stem, 1, k) = SubSeq(chain, 1, k)
    BY <2>4, PrefixProperties DEF Histories
  <2>8. chain' = stem \o branch
    BY <2>3
  <2> HIDE DEF stem
  <2>9. Len(chain') = fork + l /\ chain'[1] = chain[1]
    <3>1. 1 \in 1 .. Len(stem) + Len(branch) /\ 1 <= Len(stem)
      BY <2>4, <2>5, <2>6, <2>7
    <3> QED BY <2>6, <2>7, <2>8, <3>1, ConcatProperties
  <2>10. ASSUME MaxDepth <= 1, NEW n \in 1 .. Len(chain) - 1
         PROVE  /\ Len(chain) <= Len(chain')
                /\ SubSeq(chain', 1, n) = SubSeq(chain, 1, n)
    <3>1. d = 1 /\ fork = Len(chain) - 1
      BY <2>1, <2>10, NodeAssumption
    <3>2. 1 \in 1 .. Len(stem) /\ n \in 1 .. Len(stem) /\ n \in 1 .. fork
      BY <2>4, <2>7, <3>1
    <3>3. SubSeq(chain', 1, n) = SubSeq(stem, 1, n)
      BY <2>6, <2>7, <2>8, <3>2, SubSeqOfConcat1
    <3> QED BY <1>0, <2>5, <2>7, <2>9, <3>1, <3>2, <3>3
  <2>11. MaxDepth <= 1 => Len(chain) <= Len(chain')
    BY <1>0, <2>1, <2>5, <2>9, NodeAssumption
  <2> QED BY <2>9, <2>10, <2>11
<1> QED BY <1>1, <1>2 DEF NodeMoves

(***************************************************************************)
(* While the node holds still during a tick, what the tick has learnt of   *)
(* its chain stays true until the tick ends.                               *)
(***************************************************************************)
OnChain(id) == Len(id) \in 1 .. Len(chain) /\ id = SubSeq(chain, 1, Len(id))

OneChain ==
  /\ chain[1] = Genesis
  /\ meta.id # ZeroId => meta.id[1] = Genesis
  /\ pc # "sleep" => tip = HeightOfChain(chain)
  /\ pc \in {"wipe", "save"} => ~m.full /\ OnChain(m.id)
  /\ pc \in {"plan", "fetch", "apply"} => meta.id = ZeroId \/ OnChain(meta.id)
  /\ pc = "apply" => OnChain(got)

\* The id the node answers for a height is on its chain.
LEMMA BlockIdOnChain ==
  ASSUME chain \in Histories, NEW x \in Nat, NodeHas(x)
  PROVE  OnChain(BlockIdAt(chain, x)) /\ BlockIdAt(chain, x)[1] = chain[1]
<1>1. Len(chain) \in Nat /\ x + 1 \in 1 .. Len(chain)
  BY LenProperties DEF Histories, NodeHas, HeightOfChain
<1>2. /\ Len(SubSeq(chain, 1, x + 1)) = x + 1
      /\ SubSeq(chain, 1, x + 1)[1] = chain[1]
  BY <1>1, PrefixProperties
<1> QED BY <1>1, <1>2 DEF OnChain, BlockIdAt

\* A history of one block that starts at Genesis is on every chain that does.
LEMMA GenesisOnChain ==
  ASSUME chain \in Histories, chain # <<>>, chain[1] = Genesis,
         NEW id \in Histories, Len(id) = 1, id[1] = Genesis
  PROVE  OnChain(id)
<1>1. chain \in Seq(Bodies) /\ Len(chain) \in Nat \ {0} /\ id \in Seq(Bodies)
  BY EmptySeq DEF Histories
<1>2. /\ SubSeq(chain, 1, 1) \in Seq(Bodies)
      /\ Len(SubSeq(chain, 1, 1)) = 1
      /\ SubSeq(chain, 1, 1)[1] = Genesis
  BY <1>1, PrefixProperties DEF Histories
<1>3. id = SubSeq(chain, 1, 1)
  BY <1>1, <1>2, SeqEqual
<1> QED BY <1>1, <1>3 DEF OnChain

LEMMA OneChainInit == Init => OneChain
BY DEF Init, TickInit, InitNode, OneChain, MetaDefault, ZeroId

\* What OneChain says of a tick at rest.
LEMMA OneChainAtRest ==
  ASSUME OneChain, AtRest, chain'[1] = Genesis, meta'.id # ZeroId => meta'.id[1] = Genesis
  PROVE  OneChain'
BY DEF OneChain, AtRest

LEMMA OneChainTick ==
  ASSUME ~MidTick, TickInv, OneChain, [TickNext]_tickVars
  PROVE  OneChain'
<1> USE NodeAssumption
<1>0. /\ chain \in Histories /\ chain # <<>> /\ meta \in Metas /\ m \in Metas
      /\ h \in Nat /\ tip \in Nat /\ got \in Histories
      /\ meta.id \in Histories /\ meta.last \in Nat /\ m.last \in Nat
  BY DEF TickInv, TickTypeOK, Metas, Heights
<1>1. CASE ReadTip
  <2>1. /\ UNCHANGED <<chain, meta, h, got>> /\ m' = meta /\ tip' = HeightOfChain(chain)
        /\ pc' = IF meta.last > 0 THEN "check" ELSE "plan"
    BY <1>1 DEF ReadTip
  <2>2. CASE meta.last > 0
    <3>1. pc' = "check"
      BY <2>1, <2>2
    <3> QED BY <2>1, <3>1 DEF OneChain
  <2>3. CASE ~(meta.last > 0) /\ meta.id # ZeroId
    <3>1. pc' = "plan" /\ HeightOf(meta.id) = 0 /\ Len(meta.id) \in Nat
      BY <1>0, <2>1, <2>3, LenProperties DEF TickInv, TickFitsCheckpoint, Histories
    <3>2. Len(meta.id) = 1
      BY <3>1 DEF HeightOf
    <3>3. OnChain(meta.id)
      BY <1>0, <2>3, <3>2, GenesisOnChain DEF OneChain
    <3> QED BY <2>1, <3>1, <3>3 DEF OneChain, OnChain
  <2>4. CASE ~(meta.last > 0) /\ meta.id = ZeroId
    <3>1. pc' = "plan"
      BY <2>1, <2>4
    <3> QED BY <2>1, <2>4, <3>1 DEF OneChain
  <2> QED BY <2>2, <2>3, <2>4
<1>2. CASE CheckReorg
  <2>1. /\ UNCHANGED <<chain, meta, tip, m, h, got>> /\ NodeHas(m.last) /\ m = meta
        /\ pc = "check"
        /\ pc' = IF BlockIdAt(chain, m.last) # m.id THEN "ancestor" ELSE "plan"
    BY <1>2 DEF CheckReorg, local, TickInv, TickFitsCheckpoint
  <2>2. CASE BlockIdAt(chain, m.last) # m.id
    <3>1. pc' = "ancestor"
      BY <2>1, <2>2
    <3> QED BY <2>1, <3>1 DEF OneChain
  <2>3. CASE BlockIdAt(chain, m.last) = m.id
    <3>1. pc' = "plan" /\ OnChain(meta.id)
      BY <1>0, <2>1, <2>3, BlockIdOnChain
    <3> QED BY <2>1, <3>1 DEF OneChain, OnChain
  <2> QED BY <2>2, <2>3
<1>3. CASE FindAncestor
  <2>1. /\ pc = "ancestor" /\ pc' = "wipe" /\ UNCHANGED <<chain, meta, tip, h, got>>
        /\ NodeHas(m.last - 1) /\ m.last > 0
        /\ m' = [last |-> m.last - 1, id |-> BlockIdAt(chain, m.last - 1), full |-> FALSE]
    BY <1>3 DEF FindAncestor, TickInv, TickFitsCheckpoint
  <2>2. OnChain(BlockIdAt(chain, m.last - 1))
    <3>1. m.last - 1 \in Nat
      BY <1>0, <2>1
    <3> QED BY <1>0, <2>1, <3>1, BlockIdOnChain
  <2> QED BY <2>1, <2>2 DEF OneChain, OnChain
<1>4. CASE Wipe
  BY <1>4 DEF Wipe, local, OneChain, OnChain
<1>5. CASE SaveReorg
  <2>1. pc = "save" /\ pc' = "plan" /\ meta' = m /\ UNCHANGED <<chain, tip, m, h, got>>
    BY <1>5 DEF SaveReorg, local
  <2>2. OnChain(m.id) /\ m.id[1] = Genesis
    <3>1. OnChain(m.id)
      BY <2>1 DEF OneChain
    <3>2. m.id[1] = chain[1]
      BY <1>0, <3>1, PrefixProperties DEF OnChain
    <3> QED BY <3>1, <3>2 DEF OneChain
  <2> QED BY <2>1, <2>2 DEF OneChain, OnChain
<1>6. CASE CaughtUp
  <2>1. AtRest /\ chain' = chain /\ m = meta
        /\ (meta' = meta \/ meta' = [m EXCEPT !.full = TRUE])
    BY <1>6 DEF CaughtUp, TickInv, TickFitsCheckpoint
  <2>2. meta'.id = meta.id
    BY <1>0, <2>1 DEF Metas
  <2> QED BY <2>1, <2>2, OneChainAtRest DEF OneChain
<1>7. CASE EnterLoop
  BY <1>7 DEF EnterLoop, OneChain, OnChain
<1>8. CASE FetchBlock
  <2>1. pc = "fetch" /\ pc' = "apply" /\ UNCHANGED <<chain, meta, tip, m, h>>
        /\ NodeHas(h) /\ got' = BlockIdAt(chain, h)
    BY <1>8 DEF FetchBlock
  <2>2. OnChain(BlockIdAt(chain, h))
    BY <1>0, <2>1, BlockIdOnChain
  <2> QED BY <2>1, <2>2 DEF OneChain, OnChain
<1>9. CASE ApplyBlock
  <2>1. pc = "apply" /\ meta' = [last |-> h, id |-> got, full |-> FALSE] /\ chain' = chain
    BY <1>9 DEF ApplyBlock
  <2>2. OnChain(got) /\ got[1] = Genesis
    <3>1. OnChain(got)
      BY <2>1 DEF OneChain
    <3>2. got[1] = chain[1]
      BY <1>0, <3>1, PrefixProperties DEF OnChain
    <3> QED BY <3>1, <3>2 DEF OneChain
  <2>3. CASE h < tip
    BY <1>9, <2>1, <2>2, <2>3 DEF ApplyBlock, OneChain, OnChain
  <2>4. CASE ~(h < tip)
    BY <1>9, <2>1, <2>2, <2>4, OneChainAtRest DEF ApplyBlock, OneChain
  <2> QED BY <2>3, <2>4
<1>10. CASE BlockMissing \/ AbortTick
  BY <1>10, OneChainAtRest DEF BlockMissing, AbortTick, OneChain
<1>11. CASE NodeStep
  <2>1. pc = "sleep" /\ pc' = "sleep" /\ meta' = meta /\ NodeMoves
    BY <1>11 DEF NodeStep
  <2>2. chain'[1] = chain[1]
    BY <1>0, <2>1, NodeKeepsStem
  <2> QED BY <2>1, <2>2 DEF OneChain
<1>12. CASE UNCHANGED tickVars
  BY <1>12 DEF tickVars, OneChain, OnChain
<1> QED BY <1>1, <1>2, <1>3, <1>4, <1>5, <1>6, <1>7, <1>8, <1>9, <1>10, <1>11, <1>12
        DEF TickNext, TickStep, QuietStep

LEMMA OneChainNext ==
  ASSUME ~MidTick, IInv, OneChain, [Next]_vars
  PROVE  OneChain'
BY StepsAreTickSteps, OneChainTick DEF IInv

LEMMA OneChainAlways ==
  ASSUME ~MidTick
  PROVE  Spec => [](IInv /\ OneChain)
<1>1. Init => OneChain
  BY OneChainInit
<1>2. IInv /\ OneChain /\ [Next]_vars => OneChain'
  BY OneChainNext
<1> QED BY <1>1, <1>2, Invariant, PTL DEF Spec

\* The block about to be applied is a child of the block the checkpoint names.
LEMMA ParentOfGot ==
  ASSUME TickInv, OneChain
  PROVE  AppliesOnParent
<1> SUFFICES ASSUME TickInv, OneChain, pc = "apply"
             PROVE  SubSeq(got, 1, Len(got) - 1) = meta.id
  BY DEF AppliesOnParent
<1>1. h \in Nat /\ HeightOf(meta.id) = h - 1 /\ HeightOf(got) = h
  BY NextHeight
<1>2. chain \in Histories /\ meta.id \in Seq(Bodies) /\ got \in Seq(Bodies)
  BY DEF TickInv, TickTypeOK, Metas, Histories
<1>3. Len(got) = h + 1 /\ Len(meta.id) = h
  BY <1>1, <1>2, LenProperties DEF HeightOf
<1>4. CASE meta.id = ZeroId
  <2>1. h = 0
    BY <1>3, <1>4, EmptySeq DEF ZeroId
  <2>2. SubSeq(got, 1, 0) = <<>>
    BY SubSeqEmpty
  <2> QED BY <1>3, <1>4, <2>1, <2>2 DEF ZeroId
<1>5. CASE meta.id # ZeroId
  <2>1. OnChain(meta.id) /\ OnChain(got)
    BY <1>5 DEF OneChain
  <2>2. h \in 1 .. h + 1 /\ h + 1 \in 1 .. Len(chain)
    BY <1>1, <1>3, <2>1 DEF OnChain
  <2>3. SubSeq(SubSeq(chain, 1, h + 1), 1, h) = SubSeq(chain, 1, h)
    BY <1>2, <2>2, PrefixProperties
  <2> QED BY <1>1, <1>3, <2>1, <2>3 DEF OnChain
<1> QED BY <1>4, <1>5

\* Where the node holds still during a tick, every block is applied on top of its
\* own parent, however deep the reorganisations between ticks and wherever ticks
\* stop: what is committed with a block is the index of what lies below it.
THEOREM AlwaysAppliesOnParent ==
  ASSUME ~MidTick
  PROVE  Spec => []AppliesOnParent
<1>1. IInv /\ OneChain => AppliesOnParent
  BY ParentOfGot DEF IInv
<1> QED BY <1>1, OneChainAlways, PTL

\* Where the node holds still during a tick, a scan marked complete is one that
\* reached the node's tip.
THEOREM AlwaysCompleteAtTip ==
  ASSUME ~MidTick
  PROVE  Spec => CompleteAtTip
<1>1. IInv /\ OneChain /\ [Next]_vars
        => [~meta.full /\ meta'.full => meta'.id = chain]_tickVars
  <2> SUFFICES ASSUME IInv, OneChain, [Next]_vars, ~meta.full, meta'.full
               PROVE  meta'.id = chain
    OBVIOUS
  <2>1. CASE CaughtUp
    <3>1. /\ m = meta /\ meta \in Metas /\ tip = HeightOfChain(chain)
          /\ Start(meta) > tip
          /\ meta.id = ZeroId \/ OnChain(meta.id)
          /\ meta' = meta \/ meta' = [meta EXCEPT !.full = TRUE]
      BY <2>1 DEF CaughtUp, IInv, TickInv, TickTypeOK, TickFitsCheckpoint, OneChain
    <3>2. meta'.id = meta.id
      BY <3>1 DEF Metas
    <3>3. chain \in Seq(Bodies) /\ Len(chain) \in Nat \ {0}
      BY EmptySeq DEF IInv, TickInv, TickTypeOK, Histories
    <3>4. meta.id # ZeroId
      <4> SUFFICES ASSUME meta.id = ZeroId PROVE FALSE
        OBVIOUS
      <4>1. Start(meta) = 0
        BY DEF Start, IInv, TickInv, TickFitsCheckpoint
      <4> QED BY <3>1, <3>3, <4>1 DEF HeightOfChain
    <3>5. HeightOf(meta.id) = meta.last /\ meta.last \in Nat
      BY <3>4, NodeAssumption
      DEF IInv, TickInv, TickTypeOK, TickFitsCheckpoint, Metas, Heights
    <3>6. Len(meta.id) \in 1 .. Len(chain) /\ meta.id = SubSeq(chain, 1, Len(meta.id))
      BY <3>1, <3>4 DEF OnChain
    <3>7. Len(meta.id) = Len(chain)
      BY <3>1, <3>3, <3>4, <3>5, <3>6 DEF Start, HeightOf, HeightOfChain
    <3> QED BY <3>2, <3>3, <3>6, <3>7, SubSeqFull
  <2>2. CASE SaveReorg
    BY <2>2 DEF SaveReorg, OneChain
  <2>3. CASE ApplyToTables
    BY <2>3 DEF ApplyToTables, ApplyBlock
  <2>4. CASE meta' = meta
    BY <2>4
  <2>5. \/ CaughtUp \/ SaveReorg \/ ApplyToTables \/ meta' = meta
    BY DEF Next, vars, WipeTables, LeaveTables, QuietStep, Wipe, ReadTip, CheckReorg,
                FindAncestor, EnterLoop, FetchBlock, BlockMissing, AbortTick, NodeStep
  <2> QED BY <2>1, <2>2, <2>3, <2>4, <2>5
<1> QED BY <1>1, OneChainAlways, PTL DEF Spec, CompleteAtTip

(***************************************************************************)
(* Reorganisations a block deep leave the parent of the checkpoint's block *)
(* on the chain, so the one step back of the rewind is enough.             *)
(***************************************************************************)
ParentOnChain(id) ==
  /\ Len(id) <= Len(chain)
  /\ \A n \in 1 .. Len(id) - 1 : SubSeq(id, 1, n) = SubSeq(chain, 1, n)

\* The checkpoint's block, or its parent, is on the chain; so one step back from
\* the checkpoint is one on its own history.
StepsBack ==
  /\ ParentOnChain(meta.id)
  /\ pc = "wipe" => \A n \in 1 .. Len(m.id) : SubSeq(m.id, 1, n) = SubSeq(meta.id, 1, n)

ListsHistoryOf(id) == \A x \in DOMAIN db.blocks : db.blocks[x] = SubSeq(id, 1, x + 1)

OneBack == StepsBack /\ ListsHistoryOf(CurrentId)

LEMMA OnChainHasParent ==
  ASSUME chain \in Histories, NEW id, OnChain(id)
  PROVE  ParentOnChain(id)
<1>1. Len(chain) \in Nat /\ Len(id) \in 1 .. Len(chain) /\ id = SubSeq(chain, 1, Len(id))
  BY LenProperties DEF Histories, OnChain
<1>2. ASSUME NEW n \in 1 .. Len(id) - 1
      PROVE  SubSeq(id, 1, n) = SubSeq(chain, 1, n)
  <2>1. n \in 1 .. Len(id)
    BY <1>1
  <2>2. SubSeq(SubSeq(chain, 1, Len(id)), 1, n) = SubSeq(chain, 1, n)
    BY <1>1, <2>1, PrefixProperties
  <2> QED BY <1>1, <2>2
<1> QED BY <1>1, <1>2 DEF ParentOnChain

LEMMA StepsBackInit == TickInit => StepsBack
<1> SUFFICES ASSUME TickInit PROVE StepsBack
  OBVIOUS
<1>1. pc = "sleep" /\ Len(meta.id) = 0 /\ Len(chain) = 1
  BY DEF TickInit, InitNode, MetaDefault, ZeroId
<1> QED BY <1>1 DEF StepsBack, ParentOnChain

LEMMA OneBackInit == Init => OneBack
<1> SUFFICES ASSUME Init PROVE OneBack
  OBVIOUS
<1>1. DOMAIN db.blocks = {}
  BY DEF Init, EmptyDb, EmptyTable
<1> QED BY <1>1, StepsBackInit DEF OneBack, ListsHistoryOf, Init

\* A reorganisation no deeper than a block keeps the parent on the chain.
LEMMA NodeKeepsParent ==
  ASSUME MaxDepth <= 1, TickInv, ParentOnChain(meta.id), NodeMoves, meta' = meta
  PROVE  ParentOnChain(meta.id)'
<1>1. /\ chain \in Histories /\ chain # <<>> /\ Len(chain) \in Nat
      /\ chain' \in Histories /\ Len(chain') \in Nat /\ Len(meta.id) \in Nat
  BY NodeMovesType, LenProperties DEF TickInv, TickTypeOK, Metas, Histories
<1>2. /\ Len(chain) <= Len(chain')
      /\ \A n \in 1 .. Len(chain) - 1 : SubSeq(chain', 1, n) = SubSeq(chain, 1, n)
  BY <1>1, NodeKeepsStem
<1>3. Len(meta.id) <= Len(chain')
  BY <1>1, <1>2 DEF ParentOnChain
<1>4. ASSUME NEW n \in 1 .. Len(meta.id) - 1
      PROVE  SubSeq(meta.id, 1, n) = SubSeq(chain', 1, n)
  <2>1. n \in 1 .. Len(chain) - 1
    BY <1>1 DEF ParentOnChain
  <2> QED BY <1>2, <2>1 DEF ParentOnChain
<1> QED BY <1>3, <1>4 DEF ParentOnChain

LEMMA AncestorIsBelow ==
  ASSUME TickInv, StepsBack, FindAncestor
  PROVE  StepsBack'
<1>1. /\ pc = "ancestor" /\ pc' = "wipe" /\ UNCHANGED <<chain, meta>>
      /\ m'.id = BlockIdAt(chain, m.last - 1)
      /\ m = meta /\ m.last > 0 /\ NodeHas(m.last - 1)
  BY DEF FindAncestor, TickInv, TickFitsCheckpoint
<1>2. /\ m.last \in Nat /\ meta.id \in Seq(Bodies) /\ HeightOf(meta.id) = m.last
      /\ chain \in Histories /\ Len(chain) \in Nat
  <2>1. m.last \in Nat /\ meta.id \in Seq(Bodies) /\ chain \in Histories
    BY NodeAssumption DEF TickInv, TickTypeOK, Metas, Histories, Heights
  <2>2. meta.last > 0
    BY <1>1
  <2>3. HeightOf(meta.id) = m.last
    BY <1>1, <2>2 DEF TickInv, TickFitsCheckpoint
  <2> QED BY <2>1, <2>3, LenProperties DEF Histories
<1>3. Len(meta.id) - 1 = m.last /\ m.last \in 1 .. Len(chain)
  <2>1. Len(meta.id) \in Nat
    BY <1>2, LenProperties
  <2> QED BY <1>1, <1>2, <2>1 DEF HeightOf, NodeHas, HeightOfChain
<1>4. m'.id = SubSeq(chain, 1, m.last)
  BY <1>1, <1>2 DEF BlockIdAt
<1>5. ASSUME NEW n \in 1 .. m.last
      PROVE  SubSeq(SubSeq(chain, 1, m.last), 1, n) = SubSeq(meta.id, 1, n)
  <2>1. SubSeq(SubSeq(chain, 1, m.last), 1, n) = SubSeq(chain, 1, n)
    BY <1>2, <1>3, PrefixProperties
  <2> QED BY <1>3, <2>1 DEF StepsBack, ParentOnChain
<1>6. Len(m'.id) = m.last
  BY <1>2, <1>3, <1>4, PrefixProperties
<1>7. \A n \in 1 .. Len(m'.id) : SubSeq(m'.id, 1, n) = SubSeq(meta.id, 1, n)
  BY <1>4, <1>5, <1>6
<1> QED BY <1>1, <1>7 DEF StepsBack, ParentOnChain

LEMMA StepsBackTick ==
  ASSUME ~MidTick, MaxDepth <= 1, TickInv, OneChain, StepsBack, [TickNext]_tickVars
  PROVE  StepsBack'
<1>1. chain \in Histories
  BY DEF TickInv, TickTypeOK
<1>2. CASE FindAncestor
  BY <1>2, AncestorIsBelow
<1>3. CASE SaveReorg
  <2>1. pc = "save" /\ pc' = "plan" /\ meta' = m /\ UNCHANGED <<chain, m>>
    BY <1>3 DEF SaveReorg, local
  <2>2. ParentOnChain(m.id)
    BY <1>1, <2>1, OnChainHasParent DEF OneChain
  <2> QED BY <2>1, <2>2 DEF StepsBack, ParentOnChain
<1>4. CASE ApplyBlock
  <2>1. pc = "apply" /\ pc' # "wipe" /\ chain' = chain /\ meta'.id = got
    BY <1>4 DEF ApplyBlock, AtRest
  <2>2. ParentOnChain(got)
    BY <1>1, <2>1, OnChainHasParent DEF OneChain
  <2> QED BY <2>1, <2>2 DEF StepsBack, ParentOnChain
<1>5. CASE NodeStep
  <2>1. pc = "sleep" /\ pc' = pc /\ meta' = meta /\ NodeMoves
    BY <1>5 DEF NodeStep
  <2>2. ParentOnChain(meta.id)'
    BY <2>1, NodeKeepsParent DEF StepsBack
  <2> QED BY <2>1, <2>2 DEF StepsBack
<1>6. CASE CaughtUp
  <2>1. m = meta /\ meta \in Metas
    BY <1>6 DEF CaughtUp, TickInv, TickTypeOK, TickFitsCheckpoint
  <2>2. chain' = chain /\ meta'.id = meta.id /\ pc' = "sleep"
    BY <1>6, <2>1 DEF CaughtUp, AtRest, Metas
  <2> QED BY <2>2 DEF StepsBack, ParentOnChain
<1>7. CASE \/ Wipe \/ ReadTip \/ CheckReorg \/ EnterLoop \/ FetchBlock
           \/ BlockMissing \/ AbortTick
  <2>1. UNCHANGED <<chain, meta>> /\ pc' # "wipe"
    BY <1>7 DEF Wipe, ReadTip, CheckReorg, EnterLoop, FetchBlock, BlockMissing, AbortTick, AtRest
  <2> QED BY <2>1 DEF StepsBack, ParentOnChain
<1>8. CASE UNCHANGED tickVars
  BY <1>8 DEF tickVars, StepsBack, ParentOnChain
<1> QED BY <1>2, <1>3, <1>4, <1>5, <1>6, <1>7, <1>8 DEF TickNext, TickStep, QuietStep

\* One block of the checkpoint's history is taken off by a wipe, and put on by an
\* apply.
LEMMA WipeSteps ==
  ASSUME TickInv, StepsBack, Wipe
  PROVE  LET n == Len(meta.id) - 1
         IN  /\ n \in Nat /\ n \in 1 .. Len(meta.id) /\ n \in 0 .. Len(meta.id)
             /\ m.last = n - 1 /\ m.last \in Nat /\ Len(m.id) = n
             /\ meta.id \in Histories /\ meta.id # ZeroId
             /\ m.id \in Histories /\ m.id = SubSeq(meta.id, 1, n)
             /\ CurrentId = meta.id /\ CurrentId' = m.id
<1>1. pc = "wipe" /\ pc' = "save" /\ UNCHANGED <<chain, meta, m>>
  BY DEF Wipe, local
<1>2. /\ meta.last > 0 /\ m.last = meta.last - 1 /\ HeightOf(m.id) = m.last
      /\ meta.last \in Nat /\ meta.id \in Histories /\ m.id \in Histories
      /\ meta.id = ZeroId => meta.last = 0
      /\ meta.id # ZeroId => HeightOf(meta.id) = meta.last
  BY <1>1, NodeAssumption DEF TickInv, TickTypeOK, TickFitsCheckpoint, Metas, Heights
<1>3. meta.id # ZeroId /\ Len(meta.id) \in Nat /\ Len(m.id) \in Nat
  <2>1. meta.id # ZeroId
    BY <1>2
  <2> QED BY <1>2, <2>1, LenProperties DEF Histories
<1> DEFINE n == Len(meta.id) - 1
<1>4. /\ n \in Nat /\ n \in 1 .. Len(meta.id) /\ n \in 0 .. Len(meta.id)
      /\ Len(m.id) = n /\ m.last = n - 1 /\ m.last \in Nat
  <2>1. \A a, b, c, d \in Nat :
          b > 0 /\ c = b - 1 /\ a - 1 = b /\ d - 1 = c
            => a - 1 \in Nat /\ a - 1 \in 1 .. a /\ a - 1 \in 0 .. a /\ d = a - 1 /\ c = a - 1 - 1
    OBVIOUS
  <2>2. /\ meta.last > 0 /\ m.last = meta.last - 1 /\ m.last \in Nat
        /\ Len(meta.id) - 1 = meta.last /\ Len(m.id) - 1 = m.last
    BY <1>2, <1>3 DEF HeightOf
  <2> QED BY <1>2, <1>3, <2>1, <2>2
<1>5. m.id = SubSeq(meta.id, 1, n)
  <2>1. SubSeq(m.id, 1, n) = SubSeq(meta.id, 1, n)
    BY <1>1, <1>4 DEF StepsBack
  <2>2. SubSeq(m.id, 1, n) = m.id
    BY <1>2, <1>4, SubSeqFull DEF Histories
  <2> QED BY <2>1, <2>2
<1>6. CurrentId = meta.id /\ CurrentId' = m.id
  BY <1>1 DEF CurrentId
<1> QED BY <1>2, <1>3, <1>4, <1>5, <1>6

LEMMA ApplySteps ==
  ASSUME TickInv, OneChain, ApplyBlock
  PROVE  /\ got \in Histories /\ Len(got) \in Nat /\ Len(got) # 0 /\ h = Len(got) - 1
         /\ h \in Nat /\ OnChain(got) /\ meta.id = SubSeq(got, 1, h)
         /\ CurrentId = meta.id /\ CurrentId' = got
<1>1. pc = "apply" /\ meta'.id = got /\ pc' \in {"fetch", "sleep"}
  BY DEF ApplyBlock, AtRest
<1>2. h \in Nat /\ HeightOf(got) = h
  BY <1>1, NextHeight
<1>3. got \in Histories /\ Len(got) \in Nat
  BY LenProperties DEF TickInv, TickTypeOK, Histories
<1>4. Len(got) # 0 /\ h = Len(got) - 1
  BY <1>2, <1>3 DEF HeightOf
<1>5. OnChain(got)
  BY <1>1 DEF OneChain
<1>6. meta.id = SubSeq(got, 1, h)
  BY <1>1, <1>4, ParentOfGot DEF AppliesOnParent
<1>7. CurrentId = meta.id /\ CurrentId' = got
  BY <1>1 DEF CurrentId
<1> QED BY <1>2, <1>3, <1>4, <1>5, <1>6, <1>7

LEMMA OneBackNext ==
  ASSUME ~MidTick, ~StopInRewind, MaxDepth <= 1,
         IInv, NoGap, OneChain, OneBack, [Next]_vars
  PROVE  OneBack'
<1> USE DEF IInv
<1>1. StepsBack'
  BY StepsAreTickSteps, StepsBackTick DEF OneBack
<1>2. CASE WipeTables
  <2>1. /\ m.last \in Nat /\ m.id = SubSeq(meta.id, 1, Len(meta.id) - 1)
        /\ meta.id \in Histories /\ Len(meta.id) - 1 \in 1 .. Len(meta.id)
        /\ m.last = Len(meta.id) - 1 - 1 /\ CurrentId = meta.id /\ CurrentId' = m.id
    BY <1>2, WipeSteps DEF WipeTables, OneBack
  <2>2. /\ DOMAIN db'.blocks = DOMAIN db.blocks \cap {x \in DOMAIN db.blocks : x <= m.last}
        /\ \A x \in DOMAIN db'.blocks : db'.blocks[x] = db.blocks[x]
    BY <1>2 DEF WipeTables, WipeAbove, Keep
  <2>3. ASSUME NEW x \in DOMAIN db'.blocks
        PROVE  db'.blocks[x] = SubSeq(m.id, 1, x + 1)
    <3>1. x \in DOMAIN db.blocks /\ x \in Nat /\ x <= m.last /\ db'.blocks[x] = db.blocks[x]
      BY <2>2, <2>3 DEF TablesOK
    <3>2. db.blocks[x] = SubSeq(meta.id, 1, x + 1)
      BY <2>1, <3>1 DEF OneBack, ListsHistoryOf
    <3>3. x + 1 \in 1 .. Len(meta.id) - 1
      BY <2>1, <3>1
    <3> QED BY <2>1, <3>1, <3>2, <3>3, PrefixProperties
  <2> QED BY <1>1, <2>1, <2>3 DEF OneBack, ListsHistoryOf
<1>3. CASE ApplyToTables
  <2>1. /\ got \in Histories /\ Len(got) \in Nat /\ h = Len(got) - 1 /\ h \in Nat
        /\ meta.id = SubSeq(got, 1, h) /\ CurrentId = meta.id /\ CurrentId' = got
    BY <1>3, ApplySteps DEF ApplyToTables
  <2>0. PICK unread \in Unread : db' = ApplyBlockEvents(db, BlockEvents(db, got, h, unread))
    BY <1>3 DEF ApplyToTables
  <2>2. /\ DOMAIN db'.blocks = DOMAIN db.blocks \cup {h}
        /\ db'.blocks[h] = got
        /\ \A x \in DOMAIN db.blocks : x # h => db'.blocks[x] = db.blocks[x]
    BY <2>0 DEF ApplyBlockEvents, BlockEvents, Insert
  <2>3. got = SubSeq(got, 1, h + 1)
    <3>1. h + 1 = Len(got) /\ got \in Seq(Bodies)
      BY <2>1 DEF Histories
    <3> QED BY <3>1, SubSeqFull
  <2>4. DOMAIN db.blocks = 0 .. h - 1
    <3>1. pc = "apply"
      BY <1>3 DEF ApplyToTables, ApplyBlock
    <3> QED BY <3>1, NextHeight DEF NoGap
  <2>5. ASSUME NEW x \in 0 .. h - 1
        PROVE  db'.blocks[x] = SubSeq(got, 1, x + 1)
    <3>1. db'.blocks[x] = db.blocks[x] /\ db.blocks[x] = SubSeq(meta.id, 1, x + 1)
      <4>1. x \in DOMAIN db.blocks /\ x # h
        BY <2>1, <2>4
      <4>2. db.blocks[x] = SubSeq(CurrentId, 1, x + 1)
        BY <4>1 DEF OneBack, ListsHistoryOf
      <4> QED BY <2>1, <2>2, <4>1, <4>2
    <3>2. h \in 1 .. Len(got) /\ x + 1 \in 1 .. h
      BY <2>1, <2>5
    <3> QED BY <2>1, <3>1, <3>2, PrefixProperties
  <2>6. \A x \in DOMAIN db'.blocks : db'.blocks[x] = SubSeq(got, 1, x + 1)
    BY <2>1, <2>2, <2>3, <2>4, <2>5
  <2> QED BY <1>1, <2>1, <2>6 DEF OneBack, ListsHistoryOf
<1>4. CASE LeaveTables
  <2>1. CurrentId' = CurrentId /\ db' = db
    BY <1>4, LeaveKeepsCurrent DEF LeaveTables
  <2> QED BY <1>1, <2>1 DEF OneBack, ListsHistoryOf
<1>5. CASE UNCHANGED vars
  BY <1>1, <1>5 DEF vars, OneBack, ListsHistoryOf, CurrentId
<1> QED BY <1>2, <1>3, <1>4, <1>5 DEF Next

\* Where no reorganisation between two ticks' node calls is deeper than a block,
\* none falls inside a tick and no stop inside a rewind, the block one back that
\* the rewind takes for the common ancestor is one: what the wipe leaves is
\* exactly its history, however many reorganisations there were.
THEOREM RewindAlwaysReachesAncestor ==
  ASSUME ~MidTick, ~StopInRewind, MaxDepth <= 1
  PROVE  Spec => []RewindReachesAncestor
<1>1. Init => NoGap /\ OneChain /\ OneBack
  BY NoGapInit, OneChainInit, OneBackInit
<1>2. IInv /\ NoGap /\ OneChain /\ OneBack /\ [Next]_vars => (NoGap /\ OneChain /\ OneBack)'
  BY NoGapNext, OneChainNext, OneBackNext
<1>3. IInv /\ NoGap /\ OneBack => RewindReachesAncestor
  <2> SUFFICES ASSUME IInv, NoGap, OneBack, pc = "save"
               PROVE  View = m.id
    BY DEF RewindReachesAncestor
  <2>1. /\ m.last \in Nat /\ m.id \in Seq(Bodies) /\ HeightOf(m.id) = m.last
        /\ DOMAIN db.blocks = 0 .. m.last
    BY NodeAssumption
    DEF IInv, NoGap, TickInv, TickTypeOK, TickFitsCheckpoint, Metas, Histories, Heights
  <2>2. m.last + 1 = Len(m.id)
    BY <2>1, LenProperties DEF HeightOf
  <2>3. (CHOOSE x \in DOMAIN db.blocks : \A y \in DOMAIN db.blocks : y <= x) = m.last
    BY <2>1
  <2>4. DOMAIN db.blocks # {} /\ m.last \in DOMAIN db.blocks
    BY <2>1
  <2>5. View = db.blocks[m.last]
    BY <2>3, <2>4 DEF View
  <2>6. db.blocks[m.last] = SubSeq(m.id, 1, Len(m.id))
    BY <2>2, <2>4 DEF OneBack, ListsHistoryOf, CurrentId
  <2> QED BY <2>1, <2>5, <2>6, SubSeqFull
<1> QED BY <1>1, <1>2, <1>3, Invariant, PTL DEF Spec
=============================================================================
