---------------------------- MODULE IndexProofs ----------------------------
(***************************************************************************)
(* The tables are the index of a chain.  First what a chain and its first  *)
(* blocks have in common, for every chain consensus lets be; then what the *)
(* two write transactions make of tables that are the index of a chain;    *)
(* then the follower.                                                      *)
(***************************************************************************)
EXTENDS GentleProofs, RowsProofs

(***************************************************************************)
(* A chain e and the chain c of its first n blocks.                        *)
(***************************************************************************)
Stem(e, n) == SubSeq(e, 1, n)

LEMMA StemBlocks ==
  ASSUME NEW e \in Histories, NEW n \in 0 .. Len(e)
  PROVE  /\ Stem(e, n) \in Histories
         /\ Len(Stem(e, n)) = n
         /\ DOMAIN Stem(e, n) = 1 .. n
         /\ \A k \in 1 .. n : Stem(e, n)[k] = e[k]
<1>1. e \in Seq(Bodies) /\ Len(e) \in Nat /\ n \in Nat /\ n <= Len(e) /\ Len(e) <= MaxHeight + 1
  BY LenProperties DEF Histories
<1>2. \A i \in 1 .. n : e[i] \in Bodies
  BY <1>1, ElementOfSeq
<1>3. /\ Stem(e, n) \in Seq(Bodies)
      /\ Len(Stem(e, n)) = n
      /\ \A i \in 1 .. n : Stem(e, n)[i] = e[i]
  <2>1. 1 \in Int /\ n \in Int
    BY <1>1
  <2>2. /\ SubSeq(e, 1, n) \in Seq(Bodies)
        /\ Len(SubSeq(e, 1, n)) = IF 1 <= n THEN n - 1 + 1 ELSE 0
        /\ \A i \in 1 .. n - 1 + 1 : SubSeq(e, 1, n)[i] = e[1 + i - 1]
    BY <1>2, <2>1, SubSeqProperties
  <2>3. \A i \in 1 .. n : SubSeq(e, 1, n)[i] = e[1 + i - 1] /\ 1 + i - 1 = i
    BY <1>1, <2>2
  <2>4. (IF 1 <= n THEN n - 1 + 1 ELSE 0) = n
    BY <1>1
  <2> QED BY <2>2, <2>3, <2>4 DEF Stem
<1>4. DOMAIN Stem(e, n) = 1 .. n
  BY <1>3, LenProperties
<1> QED BY <1>1, <1>3, <1>4, NodeAssumption DEF Histories

\* A position's block is a number of the chain.
LEMMA PositionBlock ==
  ASSUME NEW e \in Histories, NEW p \in Positions(e)
  PROVE  /\ p = <<p[1], p[2]>> /\ p[1] \in 1 .. Len(e) /\ p[1] \in Nat /\ p[1] # 0
         /\ p[2] \in DOMAIN e[p[1]] /\ p[2] \in Nat
         /\ TxAt(e, p) \in Tx
<1>1. e \in Seq(Bodies) /\ DOMAIN e = 1 .. Len(e) /\ Len(e) \in Nat
  BY LenProperties DEF Histories
<1>2. PICK k \in DOMAIN e : p \in {k} \X DOMAIN e[k]
  BY DEF Positions
<1>3. e[k] \in Seq(Tx)
  BY <1>1, <1>2, ElementOfSeq, NodeAssumption DEF Bodies
<1>4. DOMAIN e[k] = 1 .. Len(e[k]) /\ Len(e[k]) \in Nat
  BY <1>3, LenProperties
<1>5. \A i \in DOMAIN e[k] : e[k][i] \in Tx
  BY <1>3, <1>4, ElementOfSeq
<1>6. p = <<p[1], p[2]>> /\ p[1] = k /\ p[2] \in DOMAIN e[k]
  BY <1>2
<1> QED BY <1>1, <1>4, <1>5, <1>6 DEF TxAt

LEMMA StemPositions ==
  ASSUME NEW e \in Histories, NEW n \in 0 .. Len(e)
  PROVE  /\ Positions(Stem(e, n)) = {p \in Positions(e) : p[1] <= n}
         /\ \A p \in Positions(Stem(e, n)) : TxAt(Stem(e, n), p) = TxAt(e, p)
<1> DEFINE c == Stem(e, n)
<1>1. /\ DOMAIN c = 1 .. n /\ \A k \in 1 .. n : c[k] = e[k]
      /\ DOMAIN e = 1 .. Len(e) /\ Len(e) \in Nat /\ n \in Nat /\ n <= Len(e)
  BY StemBlocks, LenProperties DEF Histories
<1> HIDE DEF c
<1>2. ASSUME NEW p \in Positions(c)
      PROVE  p \in Positions(e) /\ p[1] <= n /\ TxAt(c, p) = TxAt(e, p)
  <2>1. PICK k \in DOMAIN c : p \in {k} \X DOMAIN c[k]
    BY DEF Positions
  <2>2. k \in DOMAIN e /\ c[k] = e[k] /\ k <= n /\ p[1] = k
    BY <1>1, <2>1
  <2> QED BY <2>1, <2>2 DEF Positions, TxAt
<1>3. ASSUME NEW p \in Positions(e), p[1] <= n
      PROVE  p \in Positions(c)
  <2>1. PICK k \in DOMAIN e : p \in {k} \X DOMAIN e[k]
    BY DEF Positions
  <2>2. p[1] = k
    BY <2>1
  <2>3. k \in DOMAIN c /\ c[k] = e[k]
    BY <1>1, <1>3, <2>1, <2>2
  <2> QED BY <2>1, <2>3 DEF Positions
<1> QED BY <1>2, <1>3 DEF c

LEMMA StemInputs ==
  ASSUME NEW e \in Histories, NEW n \in 0 .. Len(e)
  PROVE  LET c == Stem(e, n)
         IN  /\ InputsOfChain(c) = {x \in InputsOfChain(e) : x[1][1] <= n}
             /\ \A x \in InputsOfChain(c) : /\ TxAt(c, x[1]) = TxAt(e, x[1])
                                            /\ PrevOf(c, x) = PrevOf(e, x)
<1> DEFINE c == Stem(e, n)
<1>1. /\ Positions(c) = {p \in Positions(e) : p[1] <= n}
      /\ \A p \in Positions(c) : TxAt(c, p) = TxAt(e, p)
  BY StemPositions
<1> HIDE DEF c
<1>2. ASSUME NEW x \in InputsOfChain(c)
      PROVE  /\ x \in InputsOfChain(e) /\ x[1][1] <= n
             /\ TxAt(c, x[1]) = TxAt(e, x[1]) /\ PrevOf(c, x) = PrevOf(e, x)
  <2>1. PICK p \in Positions(c) : x \in {p} \X Inputs(TxAt(c, p))
    BY DEF InputsOfChain
  <2>2. p \in Positions(e) /\ p[1] <= n /\ TxAt(c, p) = TxAt(e, p) /\ x[1] = p
    BY <1>1, <2>1
  <2> QED BY <2>1, <2>2 DEF InputsOfChain, PrevOf
<1>3. ASSUME NEW x \in InputsOfChain(e), x[1][1] <= n
      PROVE  x \in InputsOfChain(c)
  <2>1. PICK p \in Positions(e) : x \in {p} \X Inputs(TxAt(e, p))
    BY DEF InputsOfChain
  <2>2. x[1] = p
    BY <2>1
  <2>3. p \in Positions(c) /\ TxAt(c, p) = TxAt(e, p)
    BY <1>1, <1>3, <2>2
  <2> QED BY <2>1, <2>3 DEF InputsOfChain
<1> QED BY <1>2, <1>3 DEF c

\* An input of the chain is of a transaction of the chain.
LEMMA InputPlace ==
  ASSUME NEW e \in Histories, NEW x \in InputsOfChain(e)
  PROVE  /\ x = <<x[1], x[2]>> /\ x[1] \in Positions(e)
         /\ x[2] \in Inputs(TxAt(e, x[1])) /\ x[1][1] \in Nat
<1>1. PICK p \in Positions(e) : x \in {p} \X Inputs(TxAt(e, p))
  BY DEF InputsOfChain
<1>2. x = <<x[1], x[2]>> /\ x[1] = p /\ x[2] \in Inputs(TxAt(e, p))
  BY <1>1
<1> QED BY <1>2, PositionBlock

\* The first blocks of a valid chain are one.
LEMMA StemValid ==
  ASSUME NEW e \in Histories, ValidChain(e), NEW n \in 0 .. Len(e)
  PROVE  ValidChain(Stem(e, n))
<1> DEFINE c == Stem(e, n)
<1>1. /\ Positions(c) = {p \in Positions(e) : p[1] <= n}
      /\ \A p \in Positions(c) : TxAt(c, p) = TxAt(e, p)
  BY StemPositions
<1>2. /\ InputsOfChain(c) = {x \in InputsOfChain(e) : x[1][1] <= n}
      /\ \A x \in InputsOfChain(c) : TxAt(c, x[1]) = TxAt(e, x[1]) /\ PrevOf(c, x) = PrevOf(e, x)
  BY StemInputs
<1> HIDE DEF c
<1>3. \A p, q \in Positions(c) : TxAt(c, p) = TxAt(c, q) => p = q
  BY <1>1 DEF ValidChain
<1>4. ASSUME NEW x \in InputsOfChain(c)
      PROVE  \E p \in Positions(c) : /\ Earlier(p, x[1])
                                     /\ PrevOf(c, x) \in OutpointsOf(TxAt(c, p))
  <2>1. x \in InputsOfChain(e) /\ x[1][1] <= n /\ x[1][1] \in Nat
    BY <1>2, InputPlace
  <2>2. PICK p \in Positions(e) : /\ Earlier(p, x[1])
                                  /\ PrevOf(e, x) \in OutpointsOf(TxAt(e, p))
    BY <2>1 DEF ValidChain
  <2>3. p[1] <= n
    BY <2>1, <2>2, PositionBlock DEF Earlier
  <2> QED BY <1>1, <1>2, <2>2, <2>3
<1>5. \A x, y \in InputsOfChain(c) : PrevOf(c, x) = PrevOf(c, y) => x = y
  BY <1>2 DEF ValidChain
<1>6. \A x \in InputsOfChain(c) : HtlcYields(c, x)
  BY <1>2 DEF ValidChain, HtlcYields
<1> QED BY <1>3, <1>4, <1>5, <1>6 DEF ValidChain, c

(***************************************************************************)
(* Where a valid chain has a transaction, and where it spends an output.   *)
(***************************************************************************)
LEMMA PlaceOf ==
  ASSUME NEW e, ValidChain(e), NEW p \in Positions(e)
  PROVE  PositionOf(e, TxAt(e, p)) = p
<1>1. \A q \in Positions(e) : TxAt(e, q) = TxAt(e, p) => q = p
  BY DEF ValidChain
<1> QED BY <1>1 DEF PositionOf

LEMMA TxHasPlace ==
  ASSUME NEW e, NEW t \in TxsOf(e)
  PROVE  PositionOf(e, t) \in Positions(e) /\ TxAt(e, PositionOf(e, t)) = t
<1>1. \E p \in Positions(e) : TxAt(e, p) = t
  BY DEF TxsOf
<1> QED BY <1>1 DEF PositionOf

\* The transactions of the first n blocks are those below height n, at the heights
\* the whole chain has them.
LEMMA StemTxs ==
  ASSUME NEW e \in Histories, ValidChain(e), NEW n \in 0 .. Len(e)
  PROVE  /\ \A t : t \in TxsOf(Stem(e, n)) <=> t \in TxsOf(e) /\ HeightIn(e, t) < n
         /\ \A t \in TxsOf(Stem(e, n)) : HeightIn(Stem(e, n), t) = HeightIn(e, t)
         /\ \A t \in TxsOf(e) : HeightIn(e, t) \in Nat /\ HeightIn(e, t) < Len(e) /\ t \in Tx
<1> DEFINE c == Stem(e, n)
<1>1. /\ Positions(c) = {p \in Positions(e) : p[1] <= n}
      /\ \A p \in Positions(c) : TxAt(c, p) = TxAt(e, p)
  BY StemPositions
<1>2. ValidChain(c)
  BY StemValid
<1>3. n \in Nat /\ Len(e) \in Nat
  BY LenProperties DEF Histories
<1> HIDE DEF c
<1>4. ASSUME NEW p \in Positions(e)
      PROVE  /\ HeightIn(e, TxAt(e, p)) = p[1] - 1 /\ TxAt(e, p) \in Tx
             /\ p[1] - 1 \in Nat /\ p[1] - 1 < Len(e)
             /\ p[1] <= n <=> p[1] - 1 < n
  BY <1>3, PlaceOf, PositionBlock DEF HeightIn
<1>5. \A t \in TxsOf(e) : HeightIn(e, t) \in Nat /\ HeightIn(e, t) < Len(e) /\ t \in Tx
  BY <1>4 DEF TxsOf
<1>6. ASSUME NEW p \in Positions(c)
      PROVE  HeightIn(c, TxAt(c, p)) = HeightIn(e, TxAt(c, p))
  BY <1>1, <1>2, <1>4, PlaceOf DEF HeightIn
<1>7. \A t \in TxsOf(c) : HeightIn(c, t) = HeightIn(e, t)
  BY <1>6 DEF TxsOf
<1>8. ASSUME NEW t \in TxsOf(c)
      PROVE  t \in TxsOf(e) /\ HeightIn(e, t) < n
  BY <1>1, <1>4 DEF TxsOf
<1>9. ASSUME NEW t \in TxsOf(e), HeightIn(e, t) < n
      PROVE  t \in TxsOf(c)
  <2>1. PICK p \in Positions(e) : t = TxAt(e, p)
    BY DEF TxsOf
  <2>2. p \in Positions(c)
    BY <1>1, <1>4, <1>9, <2>1
  <2> QED BY <1>1, <2>1, <2>2 DEF TxsOf
<1> QED BY <1>5, <1>7, <1>8, <1>9 DEF c

LEMMA StemOutpoints ==
  ASSUME NEW e \in Histories, ValidChain(e), NEW n \in 0 .. Len(e)
  PROVE  /\ \A o : o \in OutpointsIn(Stem(e, n)) <=> o \in OutpointsIn(e) /\ HeightIn(e, o[1]) < n
         /\ \A o \in OutpointsIn(Stem(e, n)) : HeightIn(Stem(e, n), o[1]) = HeightIn(e, o[1])
         /\ \A o \in OutpointsIn(e) : /\ o[1] \in TxsOf(e) /\ o \in OutpointsOf(o[1])
                                      /\ o \in Outpoint
                                      /\ HeightIn(e, o[1]) \in Nat /\ HeightIn(e, o[1]) < Len(e)
<1>1. /\ \A t : t \in TxsOf(Stem(e, n)) <=> t \in TxsOf(e) /\ HeightIn(e, t) < n
      /\ \A t \in TxsOf(Stem(e, n)) : HeightIn(Stem(e, n), t) = HeightIn(e, t)
      /\ \A t \in TxsOf(e) : HeightIn(e, t) \in Nat /\ HeightIn(e, t) < Len(e) /\ t \in Tx
  BY StemTxs
<1>2. \A c, o : o \in OutpointsIn(c) <=> o[1] \in TxsOf(c) /\ o \in OutpointsOf(o[1])
  BY DEF OutpointsIn, OutpointsOf
<1>3. \A t \in Tx : OutpointsOf(t) \subseteq Outpoint
  BY DEF Outpoint
<1> QED BY <1>1, <1>2, <1>3

\* The last block of a chain.
LEMMA LastBlock ==
  ASSUME NEW e \in Histories, ValidChain(e), Len(e) # 0
  PROVE  LET n == Len(e) - 1
             b == BodyOf(e)
         IN  /\ n \in 0 .. Len(e) /\ n \in Nat
             /\ b \in Seq(Tx)
             /\ \A i \in DOMAIN b : <<n + 1, i>> \in Positions(e) /\ TxAt(e, <<n + 1, i>>) = b[i]
             /\ \A p \in Positions(e) : p[1] > n =>
                  p[1] = n + 1 /\ p[2] \in DOMAIN b /\ TxAt(e, p) = b[p[2]]
             /\ \A t : t \in TxsIn(b) <=> t \in TxsOf(e) /\ HeightIn(e, t) = n
<1> DEFINE n == Len(e) - 1
           b == BodyOf(e)
<1>1. /\ e \in Seq(Bodies) /\ DOMAIN e = 1 .. Len(e) /\ Len(e) \in Nat
      /\ n \in Nat /\ n \in 0 .. Len(e) /\ n + 1 = Len(e) /\ n + 1 \in DOMAIN e
  BY LenProperties DEF Histories
<1>2. b \in Seq(Tx) /\ b = e[n + 1]
  BY <1>1, BodyOfType DEF BodyOf
<1> HIDE DEF n, b
<1>3. ASSUME NEW i \in DOMAIN b
      PROVE  <<n + 1, i>> \in Positions(e) /\ TxAt(e, <<n + 1, i>>) = b[i]
  BY <1>1, <1>2 DEF Positions, TxAt
<1>4. ASSUME NEW p \in Positions(e), p[1] > n
      PROVE  p[1] = n + 1 /\ p[2] \in DOMAIN b /\ TxAt(e, p) = b[p[2]]
  <2>1. p[1] = n + 1
    BY <1>1, <1>4, PositionBlock
  <2> QED BY <1>2, <2>1, PositionBlock DEF TxAt
<1>5. ASSUME NEW t \in TxsIn(b)
      PROVE  t \in TxsOf(e) /\ HeightIn(e, t) = n
  <2>1. PICK i \in DOMAIN b : t = b[i]
    BY DEF TxsIn
  <2>2. <<n + 1, i>> \in Positions(e) /\ TxAt(e, <<n + 1, i>>) = t
    BY <1>3, <2>1
  <2>3. PositionOf(e, t) = <<n + 1, i>>
    BY <2>2, PlaceOf
  <2>4. HeightIn(e, t) = n
    BY <1>1, <2>3 DEF HeightIn
  <2> QED BY <2>2, <2>4 DEF TxsOf
<1>6. ASSUME NEW t \in TxsOf(e), HeightIn(e, t) = n
      PROVE  t \in TxsIn(b)
  <2> DEFINE p == PositionOf(e, t)
  <2>1. p \in Positions(e) /\ TxAt(e, p) = t /\ p[1] - 1 = n
    BY <1>6, TxHasPlace DEF HeightIn
  <2> HIDE DEF p
  <2>2. p[1] > n
    BY <1>1, <2>1, PositionBlock
  <2> QED BY <1>4, <2>1, <2>2 DEF TxsIn
<1> QED BY <1>1, <1>2, <1>3, <1>4, <1>5, <1>6 DEF n, b

\* An output is spent once, and the first n blocks spend it where the chain does.
LEMMA StemSpenders ==
  ASSUME NEW e \in Histories, ValidChain(e), NEW n \in 0 .. Len(e), NEW o
  PROVE  /\ SpendersOf(Stem(e, n), o) = {x \in SpendersOf(e, o) : x[1][1] <= n}
         /\ \A x, y \in SpendersOf(e, o) : x = y
         /\ SpendersOf(Stem(e, n), o) # {} => SpendersOf(Stem(e, n), o) = SpendersOf(e, o)
<1>1. /\ InputsOfChain(Stem(e, n)) = {x \in InputsOfChain(e) : x[1][1] <= n}
      /\ \A x \in InputsOfChain(Stem(e, n)) : PrevOf(Stem(e, n), x) = PrevOf(e, x)
  BY StemInputs
<1>2. SpendersOf(Stem(e, n), o) = {x \in SpendersOf(e, o) : x[1][1] <= n}
  BY <1>1 DEF SpendersOf
<1>3. \A x, y \in SpendersOf(e, o) : x = y
  BY DEF SpendersOf, ValidChain
<1> QED BY <1>2, <1>3

\* What a spender spends was there before it, and its arm opens an HTLC.
LEMMA SpentWasThere ==
  ASSUME NEW e \in Histories, ValidChain(e), NEW o, NEW x \in SpendersOf(e, o)
  PROVE  /\ o \in OutpointsIn(e)
         /\ HeightIn(e, o[1]) <= x[1][1] - 1
         /\ PositionOf(e, o[1]) \in Positions(e) /\ TxAt(e, PositionOf(e, o[1])) = o[1]
         /\ x \in InputsOfChain(e) /\ PrevOf(e, x) = o /\ x[1][1] \in Nat
         /\ IsHtlc(o) => InputArm(TxAt(e, x[1]), x[2]) \in {"claim", "reclaim"}
<1>1. x \in InputsOfChain(e) /\ PrevOf(e, x) = o
  BY DEF SpendersOf
<1>2. PICK p \in Positions(e) : Earlier(p, x[1]) /\ o \in OutpointsOf(TxAt(e, p))
  BY <1>1 DEF ValidChain
<1>3. o[1] = TxAt(e, p)
  BY <1>2 DEF OutpointsOf
<1>4. o \in OutpointsIn(e)
  BY <1>2 DEF OutpointsIn, TxsOf
<1>5. PositionOf(e, o[1]) = p
  BY <1>3, PlaceOf
<1>6. p[1] <= x[1][1] /\ x[1][1] \in Nat /\ p[1] \in Nat
  BY <1>1, <1>2, InputPlace, PositionBlock DEF Earlier
<1>7. HeightIn(e, o[1]) <= x[1][1] - 1
  BY <1>5, <1>6 DEF HeightIn
<1>8. HtlcYields(e, x)
  BY <1>1 DEF ValidChain
<1>9. IsHtlc(o) => InputArm(TxAt(e, x[1]), x[2]) \in {"claim", "reclaim"}
  BY <1>1, <1>8 DEF HtlcYields
<1> QED BY <1>1, <1>3, <1>4, <1>5, <1>6, <1>7, <1>9

\* The inputs of the last block are the inputs process_block walks.
LEMMA LastInputs ==
  ASSUME NEW e \in Histories, ValidChain(e), Len(e) # 0
  PROVE  LET n == Len(e) - 1
             b == BodyOf(e)
         IN  /\ \A x \in InputsOfChain(e) : x[1][1] > n =>
                  /\ <<TxAt(e, x[1]), x[2]>> \in Spending(b)
                  /\ Prev(TxAt(e, x[1]), x[2]) = PrevOf(e, x)
                  /\ x[1][1] = n + 1
             /\ \A q \in Spending(b) : \E x \in InputsOfChain(e) :
                  /\ x[1][1] = n + 1 /\ q = <<TxAt(e, x[1]), x[2]>>
                  /\ PrevOf(e, x) = Prev(q[1], q[2])
<1> DEFINE n == Len(e) - 1
           b == BodyOf(e)
<1>1. /\ \A i \in DOMAIN b : <<n + 1, i>> \in Positions(e) /\ TxAt(e, <<n + 1, i>>) = b[i]
      /\ \A p \in Positions(e) : p[1] > n =>
           p[1] = n + 1 /\ p[2] \in DOMAIN b /\ TxAt(e, p) = b[p[2]]
      /\ n \in Nat
  BY LastBlock
<1> HIDE DEF n, b
<1>2. ASSUME NEW x \in InputsOfChain(e), x[1][1] > n
      PROVE  /\ <<TxAt(e, x[1]), x[2]>> \in Spending(b)
             /\ Prev(TxAt(e, x[1]), x[2]) = PrevOf(e, x)
             /\ x[1][1] = n + 1
  <2>1. x[1] \in Positions(e) /\ x[2] \in Inputs(TxAt(e, x[1]))
    BY InputPlace
  <2>2. x[1][1] = n + 1 /\ x[1][2] \in DOMAIN b /\ TxAt(e, x[1]) = b[x[1][2]]
    BY <1>1, <1>2, <2>1
  <2>3. TxAt(e, x[1]) \in TxsIn(b)
    BY <2>2 DEF TxsIn
  <2> QED BY <2>1, <2>2, <2>3 DEF Spending, Prev, PrevOf
<1>3. ASSUME NEW q \in Spending(b)
      PROVE  \E x \in InputsOfChain(e) :
                  /\ x[1][1] = n + 1 /\ q = <<TxAt(e, x[1]), x[2]>>
                  /\ PrevOf(e, x) = Prev(q[1], q[2])
  <2>1. PICK t \in TxsIn(b) : q \in {t} \X Inputs(t)
    BY DEF Spending
  <2>2. PICK i \in DOMAIN b : t = b[i]
    BY <2>1 DEF TxsIn
  <2> DEFINE x == <<<<n + 1, i>>, q[2]>>
  <2>3. x[1] \in Positions(e) /\ TxAt(e, x[1]) = t /\ x[2] \in Inputs(t) /\ q = <<t, x[2]>>
    BY <1>1, <2>1, <2>2
  <2>4. x \in InputsOfChain(e)
    BY <2>3 DEF InputsOfChain
  <2>5. x[1][1] = n + 1
    OBVIOUS
  <2>6. PrevOf(e, x) = Prev(q[1], q[2])
    BY <2>3 DEF PrevOf, Prev
  <2> HIDE DEF x
  <2> QED BY <2>3, <2>4, <2>5, <2>6
<1> QED BY <1>2, <1>3 DEF n, b

(***************************************************************************)
(* The tables, one by one: what applying the last block of a valid chain   *)
(* makes of the rows of the chain before it, and what wiping above that    *)
(* chain leaves.                                                           *)
(***************************************************************************)
LEMMA StemRefBlocks ==
  ASSUME NEW e \in Histories, NEW n \in 0 .. Len(e)
  PROVE  RefBlocks(Stem(e, n)) = [x \in 0 .. n - 1 |-> SubSeq(e, 1, x + 1)]
<1>1. Len(Stem(e, n)) = n /\ n \in Nat
  BY StemBlocks
<1>2. ASSUME NEW x \in 0 .. n - 1
      PROVE  BlockIdAt(Stem(e, n), x) = SubSeq(e, 1, x + 1)
  <2>1. n \in 1 .. Len(e) /\ x + 1 \in 1 .. n
    BY <1>1
  <2>2. SubSeq(SubSeq(e, 1, n), 1, x + 1) = SubSeq(e, 1, x + 1)
    BY <2>1, PrefixProperties
  <2> QED BY <2>2 DEF BlockIdAt, Stem
<1>3. 0 .. HeightOfChain(Stem(e, n)) = 0 .. n - 1
  BY <1>1 DEF HeightOfChain
<1> QED BY <1>2, <1>3 DEF RefBlocks

LEMMA ApplyRefBlocks ==
  ASSUME NEW e \in Histories, Len(e) # 0, NEW n, n = Len(e) - 1
  PROVE  Insert(RefBlocks(Stem(e, n)), [k \in {n} |-> e]) = RefBlocks(e)
<1>1. e \in Seq(Bodies) /\ n \in Nat /\ n \in 0 .. Len(e) /\ n + 1 = Len(e)
  BY LenProperties DEF Histories
<1>2. RefBlocks(Stem(e, n)) = [x \in 0 .. n - 1 |-> SubSeq(e, 1, x + 1)]
  BY <1>1, StemRefBlocks
<1>3. RefBlocks(e) = [x \in 0 .. n |-> SubSeq(e, 1, x + 1)]
  BY <1>1 DEF RefBlocks, BlockIdAt, HeightOfChain
<1>4. SubSeq(e, 1, n + 1) = e
  BY <1>1, SubSeqFull
<1>5. (0 .. n - 1) \cup {n} = 0 .. n
  BY <1>1
<1> QED BY <1>2, <1>3, <1>4, <1>5 DEF Insert

LEMMA WipeRefBlocks ==
  ASSUME NEW e \in Histories, NEW n \in 0 .. Len(e)
  PROVE  Keep(RefBlocks(e), {x \in DOMAIN RefBlocks(e) : x <= n - 1}) = RefBlocks(Stem(e, n))
<1>1. Len(e) \in Nat /\ n \in Nat
  BY LenProperties DEF Histories
<1>2. RefBlocks(Stem(e, n)) = [x \in 0 .. n - 1 |-> SubSeq(e, 1, x + 1)]
  BY StemRefBlocks
<1>3. RefBlocks(e) = [x \in 0 .. Len(e) - 1 |-> SubSeq(e, 1, x + 1)]
  BY <1>1 DEF RefBlocks, BlockIdAt, HeightOfChain
<1>4. (0 .. Len(e) - 1) \cap {x \in 0 .. Len(e) - 1 : x <= n - 1} = 0 .. n - 1
  BY <1>1
<1> QED BY <1>2, <1>3, <1>4 DEF Keep

(***************************************************************************)
(* SPENT_BY.                                                               *)
(***************************************************************************)
SpentRow(e, x) == [tx |-> TxAt(e, x[1]), input |-> x[2], height |-> x[1][1] - 1]

LEMMA RefSpentByRows ==
  ASSUME NEW e \in Histories, ValidChain(e)
  PROVE  /\ DOMAIN RefSpentBy(e) = {PrevOf(e, x) : x \in InputsOfChain(e)}
         /\ \A x \in InputsOfChain(e) : RefSpentBy(e)[PrevOf(e, x)] = SpentRow(e, x)
<1>1. ASSUME NEW x \in InputsOfChain(e)
      PROVE  RefSpentBy(e)[PrevOf(e, x)] = SpentRow(e, x)
  <2> DEFINE o == PrevOf(e, x)
             y == CHOOSE z \in SpendersOf(e, o) : TRUE
  <2>1. x \in SpendersOf(e, o)
    BY DEF SpendersOf
  <2>2. \A z \in SpendersOf(e, o) : z = x
    BY <2>1 DEF SpendersOf, ValidChain
  <2>3. y = x
    BY <2>1, <2>2
  <2>4. RefSpentBy(e)[o] = [tx |-> TxAt(e, y[1]), input |-> y[2], height |-> y[1][1] - 1]
    BY DEF RefSpentBy
  <2> QED BY <2>3, <2>4 DEF SpentRow
<1> QED BY <1>1 DEF RefSpentBy

\* Rows of the last block, as process_block makes them.
LEMMA LastSpentBy ==
  ASSUME NEW e \in Histories, ValidChain(e), Len(e) # 0, NEW n, n = Len(e) - 1
  PROVE  LET rows == BlockSpentBy(BodyOf(e), n)
         IN  /\ DOMAIN rows = {PrevOf(e, x) : x \in {y \in InputsOfChain(e) : y[1][1] > n}}
             /\ \A x \in InputsOfChain(e) : x[1][1] > n => rows[PrevOf(e, x)] = SpentRow(e, x)
<1> DEFINE b == BodyOf(e)
           rows == BlockSpentBy(b, n)
<1>1. /\ \A x \in InputsOfChain(e) : x[1][1] > n =>
           /\ <<TxAt(e, x[1]), x[2]>> \in Spending(b)
           /\ Prev(TxAt(e, x[1]), x[2]) = PrevOf(e, x)
           /\ x[1][1] = n + 1
      /\ \A q \in Spending(b) : \E x \in InputsOfChain(e) :
           /\ x[1][1] = n + 1 /\ q = <<TxAt(e, x[1]), x[2]>>
           /\ PrevOf(e, x) = Prev(q[1], q[2])
  BY LastInputs
<1>2. n \in Nat
  BY LastBlock
<1>3. /\ DOMAIN rows = {Prev(p[1], p[2]) : p \in Spending(b)}
      /\ \A o \in DOMAIN rows :
           rows[o] = [tx |-> (CHOOSE q \in Spending(b) : Prev(q[1], q[2]) = o)[1],
                      input |-> (CHOOSE q \in Spending(b) : Prev(q[1], q[2]) = o)[2],
                      height |-> n]
  BY DEF BlockSpentBy
<1> HIDE DEF b, rows
<1>4. ASSUME NEW x \in InputsOfChain(e), x[1][1] > n
      PROVE  PrevOf(e, x) \in DOMAIN rows /\ x[1][1] - 1 = n
  <2> DEFINE q == <<TxAt(e, x[1]), x[2]>>
  <2>1. q \in Spending(b) /\ Prev(q[1], q[2]) = PrevOf(e, x) /\ x[1][1] = n + 1
    BY <1>1, <1>4
  <2> HIDE DEF q
  <2>2. PrevOf(e, x) \in DOMAIN rows
    BY <1>3, <2>1
  <2> QED BY <1>2, <2>1, <2>2
<1>5. ASSUME NEW o \in DOMAIN rows
      PROVE  \E x \in InputsOfChain(e) : x[1][1] > n /\ o = PrevOf(e, x)
  <2>1. PICK q \in Spending(b) : o = Prev(q[1], q[2])
    BY <1>3
  <2>2. PICK x \in InputsOfChain(e) : x[1][1] = n + 1 /\ PrevOf(e, x) = o
    BY <1>1, <2>1
  <2> QED BY <1>2, <2>2
<1>6. ASSUME NEW x \in InputsOfChain(e), x[1][1] > n
      PROVE  rows[PrevOf(e, x)] = SpentRow(e, x)
  <2> DEFINE o == PrevOf(e, x)
             p == CHOOSE q \in Spending(b) : Prev(q[1], q[2]) = o
  <2>1. \A q \in Spending(b) : Prev(q[1], q[2]) = o => q = <<TxAt(e, x[1]), x[2]>>
    <3> SUFFICES ASSUME NEW q \in Spending(b), Prev(q[1], q[2]) = o
                 PROVE  q = <<TxAt(e, x[1]), x[2]>>
      OBVIOUS
    <3>1. PICK y \in InputsOfChain(e) : /\ q = <<TxAt(e, y[1]), y[2]>>
                                        /\ PrevOf(e, y) = Prev(q[1], q[2])
      BY <1>1
    <3>2. y = x
      BY <3>1 DEF ValidChain
    <3> QED BY <3>1, <3>2
  <2>2. <<TxAt(e, x[1]), x[2]>> \in Spending(b) /\ Prev(TxAt(e, x[1]), x[2]) = o
    BY <1>1, <1>6
  <2>3. p = <<TxAt(e, x[1]), x[2]>>
    BY <2>1, <2>2
  <2>4. rows[o] = [tx |-> p[1], input |-> p[2], height |-> n]
    BY <1>3, <1>4, <1>6
  <2>5. x[1][1] - 1 = n
    BY <1>4, <1>6
  <2> HIDE DEF p, o
  <2>6. rows[o] = [tx |-> TxAt(e, x[1]), input |-> x[2], height |-> n]
    BY <2>3, <2>4
  <2> QED BY <2>5, <2>6 DEF SpentRow, o
<1>7. DOMAIN rows = {PrevOf(e, x) : x \in {y \in InputsOfChain(e) : y[1][1] > n}}
  BY <1>4, <1>5
<1> QED BY <1>6, <1>7 DEF b, rows

LEMMA ApplyRefSpentBy ==
  ASSUME NEW e \in Histories, ValidChain(e), Len(e) # 0, NEW n, n = Len(e) - 1
  PROVE  Insert(RefSpentBy(Stem(e, n)), BlockSpentBy(BodyOf(e), n)) = RefSpentBy(e)
<1> DEFINE c == Stem(e, n)
           old == RefSpentBy(c)
           new == BlockSpentBy(BodyOf(e), n)
           whole == RefSpentBy(e)
<1>1. n \in 0 .. Len(e) /\ n \in Nat
  BY LastBlock
<1>2. /\ c \in Histories /\ ValidChain(c)
      /\ InputsOfChain(c) = {x \in InputsOfChain(e) : x[1][1] <= n}
      /\ \A x \in InputsOfChain(c) : TxAt(c, x[1]) = TxAt(e, x[1]) /\ PrevOf(c, x) = PrevOf(e, x)
  BY <1>1, StemBlocks, StemValid, StemInputs
<1>3. /\ DOMAIN old = {PrevOf(c, x) : x \in InputsOfChain(c)}
      /\ \A x \in InputsOfChain(c) : old[PrevOf(c, x)] = SpentRow(c, x)
  BY <1>2, RefSpentByRows
<1>4. /\ DOMAIN whole = {PrevOf(e, x) : x \in InputsOfChain(e)}
      /\ \A x \in InputsOfChain(e) : whole[PrevOf(e, x)] = SpentRow(e, x)
  BY RefSpentByRows
<1>5. /\ DOMAIN new = {PrevOf(e, x) : x \in {y \in InputsOfChain(e) : y[1][1] > n}}
      /\ \A x \in InputsOfChain(e) : x[1][1] > n => new[PrevOf(e, x)] = SpentRow(e, x)
  BY LastSpentBy
<1>6. \A x \in InputsOfChain(e) : x[1][1] \in Nat
  BY InputPlace
<1>7. whole = [o \in DOMAIN whole |-> whole[o]]
  BY DEF RefSpentBy
<1> HIDE DEF c, old, new, whole
<1>8. DOMAIN old \cup DOMAIN new = DOMAIN whole
  <2>1. \A x \in InputsOfChain(e) : x[1][1] > n \/ x \in InputsOfChain(c)
    BY <1>1, <1>2, <1>6
  <2> QED BY <1>2, <1>3, <1>4, <1>5, <2>1
<1>9. ASSUME NEW o \in DOMAIN whole
      PROVE  (IF o \in DOMAIN new THEN new[o] ELSE old[o]) = whole[o]
  <2>1. PICK x \in InputsOfChain(e) : o = PrevOf(e, x)
    BY <1>4
  <2>2. CASE x[1][1] > n
    BY <1>4, <1>5, <2>1, <2>2
  <2>3. CASE ~(x[1][1] > n)
    <3>1. x \in InputsOfChain(c)
      BY <1>1, <1>2, <1>6, <2>3
    <3>2. o \notin DOMAIN new
      BY <1>5, <2>1, <2>3 DEF ValidChain
    <3>3. old[o] = SpentRow(e, x)
      BY <1>2, <1>3, <2>1, <3>1 DEF SpentRow
    <3> QED BY <1>4, <2>1, <3>2, <3>3
  <2> QED BY <2>2, <2>3
<1>10. Insert(old, new) = whole
  BY <1>7, <1>8, <1>9 DEF Insert
<1> QED BY <1>10 DEF c, old, new, whole

LEMMA WipeRefSpentBy ==
  ASSUME NEW e \in Histories, ValidChain(e), NEW n \in 0 .. Len(e)
  PROVE  WipeSpentByAbove(RefSpentBy(e), n - 1) = RefSpentBy(Stem(e, n))
<1> DEFINE c == Stem(e, n)
           old == RefSpentBy(c)
           whole == RefSpentBy(e)
           kept == {o \in DOMAIN whole : whole[o].height <= n - 1}
<1>1. /\ c \in Histories /\ ValidChain(c)
      /\ InputsOfChain(c) = {x \in InputsOfChain(e) : x[1][1] <= n}
      /\ \A x \in InputsOfChain(c) : TxAt(c, x[1]) = TxAt(e, x[1]) /\ PrevOf(c, x) = PrevOf(e, x)
  BY StemBlocks, StemValid, StemInputs
<1>2. /\ DOMAIN old = {PrevOf(c, x) : x \in InputsOfChain(c)}
      /\ \A x \in InputsOfChain(c) : old[PrevOf(c, x)] = SpentRow(c, x)
  BY <1>1, RefSpentByRows
<1>3. /\ DOMAIN whole = {PrevOf(e, x) : x \in InputsOfChain(e)}
      /\ \A x \in InputsOfChain(e) : whole[PrevOf(e, x)] = SpentRow(e, x)
  BY RefSpentByRows
<1>4. n \in Nat /\ \A x \in InputsOfChain(e) : x[1][1] \in Nat
  BY InputPlace, LenProperties DEF Histories
<1>5. old = [o \in DOMAIN old |-> old[o]]
  BY DEF RefSpentBy
<1>6. WipeSpentByAbove(whole, n - 1) = [o \in DOMAIN whole \cap kept |-> whole[o]]
  BY DEF WipeSpentByAbove, Keep
<1> HIDE DEF c, old, whole
<1>7. ASSUME NEW x \in InputsOfChain(e)
      PROVE  whole[PrevOf(e, x)].height <= n - 1 <=> x[1][1] <= n
  <2>1. whole[PrevOf(e, x)].height = x[1][1] - 1
    <3>1. whole[PrevOf(e, x)] = SpentRow(e, x)
      BY <1>3
    <3>2. SpentRow(e, x).height = x[1][1] - 1
      BY DEF SpentRow
    <3> QED BY <3>1, <3>2
  <2>2. n \in Nat /\ x[1][1] \in Nat
    BY <1>4
  <2> QED BY <2>1, <2>2
<1>8. DOMAIN whole \cap kept = DOMAIN old
  <2>1. ASSUME NEW o \in DOMAIN old
        PROVE  o \in DOMAIN whole \cap kept
    <3>1. PICK x \in InputsOfChain(c) : o = PrevOf(c, x)
      BY <1>2
    <3>2. x \in InputsOfChain(e) /\ x[1][1] <= n /\ o = PrevOf(e, x)
      BY <1>1, <3>1
    <3> QED BY <1>3, <1>7, <3>2
  <2>2. ASSUME NEW o \in DOMAIN whole \cap kept
        PROVE  o \in DOMAIN old
    <3>1. PICK x \in InputsOfChain(e) : o = PrevOf(e, x)
      BY <1>3
    <3>2. x \in InputsOfChain(c)
      BY <1>1, <1>7, <2>2, <3>1
    <3> QED BY <1>1, <1>2, <3>1, <3>2
  <2> QED BY <2>1, <2>2
<1> HIDE DEF kept
<1>9. \A o \in DOMAIN old : whole[o] = old[o]
  BY <1>1, <1>2, <1>3 DEF SpentRow
<1>10. WipeSpentByAbove(whole, n - 1) = old
  BY <1>5, <1>6, <1>8, <1>9
<1> QED BY <1>10 DEF c, old, whole

(***************************************************************************)
(* OUTPUT_DATUM.                                                           *)
(***************************************************************************)
DatumRow(c, o) ==
  [quote |-> DatumQuote(o), unhonorable |-> DatumQuote(o) = None,
   height |-> HeightIn(c, o[1])]

\* What an inline datum decodes to is bytes, and bytes are not nothing.
LEMMA DatumKinds ==
  ASSUME NEW o \in Outpoint
  PROVE  /\ Out(o).datum \in Datums
         /\ Out(o).datum.kind = "inline" => Out(o).datum.bytes # None
<1>1. PICK t \in Tx : o \in OutpointsOf(t)
  BY DEF Outpoint
<1>2. PICK n \in DOMAIN Body[t].outs : o = <<t, n>>
  BY <1>1 DEF OutpointsOf
<1>3. Body[t].outs \in Seq(Outputs) /\ DOMAIN Body[t].outs = 1 .. Len(Body[t].outs)
  BY ExtractAssumption, LenProperties
<1>4. Body[t].outs[n] \in Outputs
  BY <1>2, <1>3, ElementOfSeq
<1>5. Out(o).datum \in Datums
  BY <1>2, <1>4 DEF Out, Outputs
<1>6. Out(o).datum.kind = "inline" => Out(o).datum.bytes \in STRING
  BY <1>5 DEF Datums
<1> QED BY <1>5, <1>6, ExtractAssumption

LEMMA RefDatumsRows ==
  ASSUME NEW e \in Histories, ValidChain(e)
  PROVE  RefDatums(e) = [o \in {x \in OutpointsIn(e) : IsDatumOutput(x)} |-> DatumRow(e, o)]
<1> DEFINE quoted(o) == Out(o).datum.kind = "inline" /\ Out(o).datum.len = 16
           hashed(o) == Out(o).datum.kind = "hash"
<1>1. ASSUME NEW o \in OutpointsIn(e)
      PROVE  /\ quoted(o) \/ hashed(o) <=> IsDatumOutput(o)
             /\ quoted(o) \/ hashed(o) =>
                  /\ (IF quoted(o) THEN Out(o).datum.bytes ELSE None) = DatumQuote(o)
                  /\ hashed(o) = (DatumQuote(o) = None)
  <2>1. o \in Outpoint
    BY StemOutpoints, LenProperties DEF Histories
  <2>2. Out(o).datum.kind = "inline" => Out(o).datum.bytes # None
    BY <2>1, DatumKinds
  <2> QED BY <2>2 DEF IsDatumOutput, DatumQuote, StrictDecodeQuoteId, QuoteIdBytes
<1>2. {x \in OutpointsIn(e) : quoted(x) \/ hashed(x)}
        = {x \in OutpointsIn(e) : IsDatumOutput(x)}
  BY <1>1
<1>3. \A o \in {x \in OutpointsIn(e) : IsDatumOutput(x)} :
        [quote |-> IF quoted(o) THEN Out(o).datum.bytes ELSE None,
         unhonorable |-> hashed(o), height |-> HeightIn(e, o[1])] = DatumRow(e, o)
  BY <1>1 DEF DatumRow
<1> QED BY <1>2, <1>3 DEF RefDatums

\* The outputs of the last block are those of the chain at its height.
LEMMA LastOutpoints ==
  ASSUME NEW e \in Histories, ValidChain(e), Len(e) # 0, NEW n, n = Len(e) - 1
  PROVE  /\ \A o : o \in UNION {OutpointsOf(t) : t \in TxsIn(BodyOf(e))}
                     <=> o \in OutpointsIn(e) /\ HeightIn(e, o[1]) = n
         /\ \A o : o \in OutpointsIn(e) =>
              HeightIn(e, o[1]) = n \/ o \in OutpointsIn(Stem(e, n))
         /\ \A o : o \in OutpointsIn(Stem(e, n)) =>
              /\ o \in OutpointsIn(e) /\ HeightIn(e, o[1]) < n
              /\ HeightIn(Stem(e, n), o[1]) = HeightIn(e, o[1])
<1>1. /\ n \in 0 .. Len(e) /\ n \in Nat
      /\ \A t : t \in TxsIn(BodyOf(e)) <=> t \in TxsOf(e) /\ HeightIn(e, t) = n
  BY LastBlock
<1>2. Len(e) \in Nat
  BY LenProperties DEF Histories
<1>3. /\ \A o : o \in OutpointsIn(Stem(e, n)) <=> o \in OutpointsIn(e) /\ HeightIn(e, o[1]) < n
      /\ \A o \in OutpointsIn(Stem(e, n)) : HeightIn(Stem(e, n), o[1]) = HeightIn(e, o[1])
      /\ \A o \in OutpointsIn(e) : HeightIn(e, o[1]) \in Nat /\ HeightIn(e, o[1]) < Len(e)
  BY <1>1, StemOutpoints
<1>4. \A o : o \in UNION {OutpointsOf(t) : t \in TxsIn(BodyOf(e))}
                <=> o[1] \in TxsIn(BodyOf(e)) /\ o \in OutpointsOf(o[1])
  BY DEF OutpointsOf
<1>5. \A o : o \in OutpointsIn(e) <=> o[1] \in TxsOf(e) /\ o \in OutpointsOf(o[1])
  BY DEF OutpointsIn, OutpointsOf
<1>6. \A o : o \in OutpointsIn(e) => HeightIn(e, o[1]) = n \/ HeightIn(e, o[1]) < n
  BY <1>1, <1>2, <1>3
<1> QED BY <1>1, <1>3, <1>4, <1>5, <1>6

LEMMA ApplyRefDatums ==
  ASSUME NEW e \in Histories, ValidChain(e), Len(e) # 0, NEW n, n = Len(e) - 1
  PROVE  Insert(RefDatums(Stem(e, n)), BlockDatums(BodyOf(e), n)) = RefDatums(e)
<1> DEFINE c == Stem(e, n)
           old == RefDatums(c)
           new == BlockDatums(BodyOf(e), n)
           whole == RefDatums(e)
           outs == UNION {OutpointsOf(t) : t \in TxsIn(BodyOf(e))}
<1>1. c \in Histories /\ ValidChain(c)
  BY LastBlock, StemBlocks, StemValid
<1>2. /\ \A o : o \in outs <=> o \in OutpointsIn(e) /\ HeightIn(e, o[1]) = n
      /\ \A o : o \in OutpointsIn(e) => HeightIn(e, o[1]) = n \/ o \in OutpointsIn(c)
      /\ \A o : o \in OutpointsIn(c) =>
           /\ o \in OutpointsIn(e) /\ HeightIn(e, o[1]) < n
           /\ HeightIn(c, o[1]) = HeightIn(e, o[1])
  BY LastOutpoints
<1>3. old = [o \in {x \in OutpointsIn(c) : IsDatumOutput(x)} |-> DatumRow(c, o)]
  BY <1>1, RefDatumsRows
<1>4. whole = [o \in {x \in OutpointsIn(e) : IsDatumOutput(x)} |-> DatumRow(e, o)]
  BY RefDatumsRows
<1>5. /\ DOMAIN new = {x \in outs : IsDatumOutput(x)}
      /\ \A o \in DOMAIN new : new[o] = [quote |-> DatumQuote(o),
           unhonorable |-> DatumQuote(o) = None, height |-> n]
  BY DEF BlockDatums
<1> HIDE DEF c, old, new, whole, outs
<1>6. DOMAIN old \cup DOMAIN new = DOMAIN whole
  BY <1>2, <1>3, <1>4, <1>5
<1>7. ASSUME NEW o \in DOMAIN whole
      PROVE  (IF o \in DOMAIN new THEN new[o] ELSE old[o]) = whole[o]
  <2>1. o \in OutpointsIn(e) /\ IsDatumOutput(o) /\ whole[o] = DatumRow(e, o)
    BY <1>4
  <2>2. CASE o \in DOMAIN new
    BY <1>2, <1>5, <2>1, <2>2 DEF DatumRow
  <2>3. CASE o \notin DOMAIN new
    <3>1. o \in OutpointsIn(c)
      BY <1>2, <1>5, <2>1, <2>3
    <3>2. old[o] = DatumRow(c, o)
      BY <1>3, <2>1, <3>1
    <3> QED BY <1>2, <2>1, <2>3, <3>1, <3>2 DEF DatumRow
  <2> QED BY <2>2, <2>3
<1>8. whole = [o \in DOMAIN whole |-> whole[o]]
  BY <1>4
<1>9. Insert(old, new) = whole
  BY <1>6, <1>7, <1>8 DEF Insert
<1> QED BY <1>9 DEF c, old, new, whole

LEMMA WipeRefDatums ==
  ASSUME NEW e \in Histories, ValidChain(e), NEW n \in 0 .. Len(e),
         NEW d, d.forward = RefDatums(e)
  PROVE  WipeDatumsAbove(d, n - 1).forward = RefDatums(Stem(e, n))
<1> DEFINE c == Stem(e, n)
           whole == RefDatums(e)
           rest == DOMAIN whole \ {o \in DOMAIN whole : whole[o].height > n - 1}
<1>1. c \in Histories /\ ValidChain(c)
  BY StemBlocks, StemValid
<1>2. /\ \A o : o \in OutpointsIn(c) <=> o \in OutpointsIn(e) /\ HeightIn(e, o[1]) < n
      /\ \A o \in OutpointsIn(c) : HeightIn(c, o[1]) = HeightIn(e, o[1])
      /\ \A o \in OutpointsIn(e) : HeightIn(e, o[1]) \in Nat
  BY StemOutpoints
<1>3. RefDatums(c) = [o \in {x \in OutpointsIn(c) : IsDatumOutput(x)} |-> DatumRow(c, o)]
  BY <1>1, RefDatumsRows
<1>4. whole = [o \in {x \in OutpointsIn(e) : IsDatumOutput(x)} |-> DatumRow(e, o)]
  BY RefDatumsRows
<1>5. WipeDatumsAbove(d, n - 1).forward = [o \in DOMAIN whole \cap rest |-> whole[o]]
  BY DEF WipeDatumsAbove, Keep
<1>6. n \in Nat
  BY LenProperties DEF Histories
<1> HIDE DEF c, whole
<1>7. ASSUME NEW o \in DOMAIN whole
      PROVE  whole[o].height > n - 1 <=> ~(HeightIn(e, o[1]) < n)
  <2>1. whole[o].height = HeightIn(e, o[1]) /\ HeightIn(e, o[1]) \in Nat
    BY <1>2, <1>4 DEF DatumRow
  <2> QED BY <1>6, <2>1
<1>8. DOMAIN whole \cap rest = {x \in OutpointsIn(c) : IsDatumOutput(x)}
  <2>1. DOMAIN whole = {x \in OutpointsIn(e) : IsDatumOutput(x)}
    BY <1>4
  <2> QED BY <1>2, <1>7, <2>1
<1>9. \A o \in {x \in OutpointsIn(c) : IsDatumOutput(x)} : whole[o] = DatumRow(c, o)
  BY <1>2, <1>4 DEF DatumRow
<1> QED BY <1>3, <1>5, <1>8, <1>9 DEF c

(***************************************************************************)
(* HTLC_FULL.  The record the chain calls for is the lock's, settled by    *)
(* the chain's spend of it if there is one.                                *)
(***************************************************************************)
SpendAt(c, x) == [tx |-> TxAt(c, x[1]), input |-> x[2], out |-> PrevOf(c, x),
                  arm |-> InputArm(TxAt(c, x[1]), x[2])]

LEMMA ArmTags ==
  ASSUME NEW t, NEW v
  PROVE  /\ InputArm(t, v) = "claim" => Body[t].ins[v].witness.tag = "left"
         /\ InputArm(t, v) = "reclaim" => Body[t].ins[v].witness.tag = "right"
<1> DEFINE w == Body[t].ins[v].witness
<1>1. "claim" # "reclaim"
  OBVIOUS
<1>2. None # "claim" /\ None # "reclaim"
  BY ExtractAssumption
<1>3. InputArm(t, v) = IF w.size < 2 THEN None
                       ELSE IF w.tag = "left" /\ HasClaimPreimage(w) THEN "claim"
                       ELSE IF w.tag = "right" THEN "reclaim"
                       ELSE None
  BY DEF InputArm, ClassifySpendArm
<1> HIDE DEF w
<1>4. /\ InputArm(t, v) = "claim" => w.tag = "left"
      /\ InputArm(t, v) = "reclaim" => w.tag = "right"
  BY <1>1, <1>2, <1>3
<1> QED BY <1>4 DEF w

LEMMA RefHtlcOpen ==
  ASSUME NEW c, NEW o, SpendersOf(c, o) = {}
  PROVE  RefHtlcRecord(c, o) = LockRecord(o, HeightIn(c, o[1]))
BY DEF RefHtlcRecord, LockRecord

LEMMA RefHtlcSettled ==
  ASSUME NEW e \in Histories, ValidChain(e), NEW o, IsHtlc(o), NEW x \in SpendersOf(e, o)
  PROVE  /\ RefHtlcRecord(e, o)
              = SettledRecord(LockRecord(o, HeightIn(e, o[1])), SpendAt(e, x), x[1][1] - 1)
         /\ RefHtlcRecord(e, o).state \in Settled
<1> DEFINE y == CHOOSE z \in SpendersOf(e, o) : TRUE
           height == HeightIn(e, o[1])
           t == TxAt(e, x[1])
           w == Body[t].ins[x[2]].witness
           by == [tx |-> t, input |-> x[2], height |-> x[1][1] - 1]
           claimed == [field \in DOMAIN by \cup {"preimage"} |->
                         IF field \in DOMAIN by THEN by[field] ELSE w.preimage]
           whole == [tx |-> t, input |-> x[2], height |-> x[1][1] - 1,
                     preimage |-> w.preimage]
<1>1. y = x
  BY StemSpenders, LenProperties DEF Histories
<1>2. InputArm(t, x[2]) \in {"claim", "reclaim"}
  BY SpentWasThere
<1>3. claimed = whole
  <2>1. DOMAIN by = {"tx", "input", "height"}
    OBVIOUS
  <2>2. DOMAIN claimed = {"tx", "input", "height", "preimage"}
    BY <2>1
  <2>3. DOMAIN whole = {"tx", "input", "height", "preimage"}
    OBVIOUS
  <2>4. \A f \in {"tx", "input", "height", "preimage"} : claimed[f] = whole[f]
    BY <2>1
  <2>5. claimed = [f \in DOMAIN claimed |-> claimed[f]] /\ whole = [f \in DOMAIN whole |-> whole[f]]
    OBVIOUS
  <2> HIDE DEF claimed, whole
  <2> QED BY <2>2, <2>3, <2>4, <2>5
<1>4. RefHtlcRecord(e, o)
        = [params     |-> Out(o).script,
           amount     |-> Out(o).value,
           lockHeight |-> height,
           state      |-> IF w.tag = "left" THEN "Claimed" ELSE "Reclaimed",
           claim      |-> IF w.tag = "left" THEN claimed ELSE None,
           reclaim    |-> IF w.tag = "right" THEN by ELSE None]
  <2>1. SpendersOf(e, o) # {}
    OBVIOUS
  <2> QED BY <1>1, <2>1 DEF RefHtlcRecord
<1>5. CASE InputArm(t, x[2]) = "claim"
  <2>1. w.tag = "left"
    BY <1>5, ArmTags
  <2> HIDE DEF claimed, by, height
  <2>2. RefHtlcRecord(e, o)
        = [params |-> Out(o).script, amount |-> Out(o).value, lockHeight |-> height,
           state |-> "Claimed", claim |-> whole, reclaim |-> None]
    BY <1>3, <1>4, <2>1
  <2>3. SettledRecord(LockRecord(o, height), SpendAt(e, x), x[1][1] - 1)
        = [params |-> Out(o).script, amount |-> Out(o).value, lockHeight |-> height,
           state |-> "Claimed", claim |-> whole, reclaim |-> None]
    BY <1>5 DEF SettledRecord, LockRecord, SpendAt
  <2> QED BY <2>2, <2>3 DEF Settled, height
<1>6. CASE InputArm(t, x[2]) = "reclaim"
  <2>1. w.tag = "right"
    BY <1>6, ArmTags
  <2> HIDE DEF claimed, height
  <2>2. RefHtlcRecord(e, o)
        = [params |-> Out(o).script, amount |-> Out(o).value, lockHeight |-> height,
           state |-> "Reclaimed", claim |-> None, reclaim |-> by]
    BY <1>4, <2>1
  <2>3. SettledRecord(LockRecord(o, height), SpendAt(e, x), x[1][1] - 1)
        = [params |-> Out(o).script, amount |-> Out(o).value, lockHeight |-> height,
           state |-> "Reclaimed", claim |-> None, reclaim |-> by]
    BY <1>6 DEF SettledRecord, LockRecord, SpendAt
  <2> QED BY <2>2, <2>3 DEF Settled, height
<1> QED BY <1>2, <1>5, <1>6

\* A record depends on where the lock is and which spend settles it.
LEMMA RefHtlcStem ==
  ASSUME NEW e \in Histories, ValidChain(e), NEW n \in 0 .. Len(e),
         NEW o \in OutpointsIn(Stem(e, n)), IsHtlc(o),
         SpendersOf(Stem(e, n), o) = SpendersOf(e, o)
  PROVE  RefHtlcRecord(Stem(e, n), o) = RefHtlcRecord(e, o)
<1> DEFINE c == Stem(e, n)
<1>1. /\ c \in Histories /\ ValidChain(c) /\ HeightIn(c, o[1]) = HeightIn(e, o[1])
      /\ \A x \in InputsOfChain(c) : TxAt(c, x[1]) = TxAt(e, x[1]) /\ PrevOf(c, x) = PrevOf(e, x)
  BY StemBlocks, StemValid, StemOutpoints, StemInputs
<1>2. SpendersOf(c, o) = SpendersOf(e, o)
  OBVIOUS
<1> HIDE DEF c
<1>3. CASE SpendersOf(e, o) = {}
  BY <1>1, <1>2, <1>3, RefHtlcOpen DEF c
<1>4. CASE SpendersOf(e, o) # {}
  <2>1. PICK x \in SpendersOf(e, o) : TRUE
    BY <1>4
  <2>2. x \in SpendersOf(c, o)
    BY <1>2, <2>1
  <2>3. x \in InputsOfChain(c)
    BY <2>2 DEF SpendersOf
  <2>4. SpendAt(c, x) = SpendAt(e, x)
    BY <1>1, <2>3 DEF SpendAt
  <2>5. RefHtlcRecord(c, o)
          = SettledRecord(LockRecord(o, HeightIn(c, o[1])), SpendAt(c, x), x[1][1] - 1)
    BY <1>1, <2>2, RefHtlcSettled
  <2>6. RefHtlcRecord(e, o)
          = SettledRecord(LockRecord(o, HeightIn(e, o[1])), SpendAt(e, x), x[1][1] - 1)
    BY <2>1, RefHtlcSettled
  <2> QED BY <1>1, <2>4, <2>5, <2>6 DEF c
<1> QED BY <1>3, <1>4

\* The candidate spends of the last block are the spends the chain has in it.
LEMMA LastSpends ==
  ASSUME NEW e \in Histories, ValidChain(e), Len(e) # 0, NEW n, n = Len(e) - 1
  PROVE  /\ \A s \in BlockSpends(BodyOf(e)) : \E x \in InputsOfChain(e) :
              x[1][1] = n + 1 /\ s = SpendAt(e, x)
         /\ \A x \in InputsOfChain(e) :
              x[1][1] > n /\ InputArm(TxAt(e, x[1]), x[2]) # None
                => SpendAt(e, x) \in BlockSpends(BodyOf(e))
<1> DEFINE b == BodyOf(e)
<1>1. /\ \A x \in InputsOfChain(e) : x[1][1] > n =>
           <<TxAt(e, x[1]), x[2]>> \in Spending(b)
      /\ \A q \in Spending(b) : \E x \in InputsOfChain(e) :
           /\ x[1][1] = n + 1 /\ q = <<TxAt(e, x[1]), x[2]>>
  BY LastInputs
<1> HIDE DEF b
<1>2. ASSUME NEW s \in BlockSpends(b)
      PROVE  \E x \in InputsOfChain(e) : x[1][1] = n + 1 /\ s = SpendAt(e, x)
  <2>1. PICK t \in TxsIn(b) : s \in SpendsOf(t)
    BY DEF BlockSpends
  <2>2. PICK v \in Inputs(t) : s = [tx |-> t, input |-> v, out |-> Body[t].ins[v].prev,
                                    arm |-> InputArm(t, v)]
    BY <2>1 DEF SpendsOf
  <2>3. <<t, v>> \in Spending(b)
    BY <2>1, <2>2 DEF Spending
  <2>4. PICK x \in InputsOfChain(e) : x[1][1] = n + 1 /\ <<t, v>> = <<TxAt(e, x[1]), x[2]>>
    BY <1>1, <2>3
  <2>5. t = TxAt(e, x[1]) /\ v = x[2]
    BY <2>4
  <2> QED BY <2>2, <2>4, <2>5 DEF SpendAt, PrevOf
<1>3. ASSUME NEW x \in InputsOfChain(e), x[1][1] > n, InputArm(TxAt(e, x[1]), x[2]) # None
      PROVE  SpendAt(e, x) \in BlockSpends(b)
  <2> DEFINE t == TxAt(e, x[1])
  <2>1. <<t, x[2]>> \in Spending(b)
    BY <1>1, <1>3
  <2>2. t \in TxsIn(b) /\ x[2] \in Inputs(t)
    BY <2>1 DEF Spending
  <2>3. SpendAt(e, x) \in SpendsOf(t)
    BY <1>3, <2>2 DEF SpendAt, SpendsOf, PrevOf
  <2> QED BY <2>2, <2>3 DEF BlockSpends
<1> QED BY <1>2, <1>3 DEF b

LEMMA ApplyRefHtlcs ==
  ASSUME NEW e \in Histories, ValidChain(e), Len(e) # 0, NEW n, n = Len(e) - 1,
         NEW t, t.full = RefHtlcs(Stem(e, n))
  PROVE  AdvanceHtlcs(UpsertHtlcs(t, BlockLocks(BodyOf(e), n)), BlockSpends(BodyOf(e)), n).full
           = RefHtlcs(e)
<1> DEFINE c == Stem(e, n)
           b == BodyOf(e)
           u == UpsertHtlcs(t, BlockLocks(b, n))
           a == AdvanceHtlcs(u, BlockSpends(b), n).full
           outs == UNION {OutpointsOf(x) : x \in TxsIn(b)}
<1>1. /\ n \in 0 .. Len(e) /\ n \in Nat /\ c \in Histories /\ ValidChain(c)
  BY LastBlock, StemBlocks, StemValid
<1>2. /\ \A o : o \in outs <=> o \in OutpointsIn(e) /\ HeightIn(e, o[1]) = n
      /\ \A o : o \in OutpointsIn(e) => HeightIn(e, o[1]) = n \/ o \in OutpointsIn(c)
      /\ \A o : o \in OutpointsIn(c) =>
           /\ o \in OutpointsIn(e) /\ HeightIn(e, o[1]) < n
           /\ HeightIn(c, o[1]) = HeightIn(e, o[1])
  BY LastOutpoints
<1>3. /\ DOMAIN BlockLocks(b, n) = {o \in outs : IsHtlc(o)}
      /\ \A o \in DOMAIN BlockLocks(b, n) : BlockLocks(b, n)[o] = LockRecord(o, n)
  BY DEF BlockLocks, LockedIn
<1>4. /\ DOMAIN u.full = DOMAIN t.full \cup DOMAIN BlockLocks(b, n)
      /\ \A o \in DOMAIN BlockLocks(b, n) : u.full[o] = BlockLocks(b, n)[o]
      /\ \A o \in DOMAIN t.full \ DOMAIN BlockLocks(b, n) : u.full[o] = t.full[o]
  BY UpsertFull
<1>5. /\ DOMAIN t.full = {o \in OutpointsIn(c) : IsHtlc(o)}
      /\ \A o \in DOMAIN t.full : t.full[o] = RefHtlcRecord(c, o)
  BY DEF RefHtlcs
<1>6. /\ DOMAIN a = DOMAIN u.full
      /\ \A o \in Hit(u.full, BlockSpends(b)) :
           a[o] = SettledRecord(u.full[o], Settler(BlockSpends(b), o), n)
      /\ \A o \in DOMAIN u.full \ Hit(u.full, BlockSpends(b)) : a[o] = u.full[o]
      /\ a = [o \in DOMAIN a |-> a[o]]
  BY AdvanceExactly, AdvanceIsTable
<1>7. /\ \A s \in BlockSpends(b) : \E x \in InputsOfChain(e) :
           x[1][1] = n + 1 /\ s = SpendAt(e, x)
      /\ \A x \in InputsOfChain(e) :
           x[1][1] > n /\ InputArm(TxAt(e, x[1]), x[2]) # None
             => SpendAt(e, x) \in BlockSpends(b)
  BY LastSpends
<1> HIDE DEF c, b, u, a, outs
<1>8. DOMAIN u.full = {o \in OutpointsIn(e) : IsHtlc(o)}
  BY <1>2, <1>3, <1>4, <1>5
\* Before the spends of the block: the record of the chain before it, or a new lock's.
<1>9. ASSUME NEW o \in OutpointsIn(e), IsHtlc(o)
      PROVE  \/ o \in OutpointsIn(c) /\ u.full[o] = RefHtlcRecord(c, o)
             \/ o \notin OutpointsIn(c) /\ u.full[o] = LockRecord(o, HeightIn(e, o[1]))
  <2>1. CASE o \in OutpointsIn(c)
    <3>1. o \in DOMAIN t.full \ DOMAIN BlockLocks(b, n)
      BY <1>1, <1>2, <1>3, <1>5, <1>9, <2>1
    <3> QED BY <1>4, <1>5, <2>1, <3>1
  <2>2. CASE o \notin OutpointsIn(c)
    <3>1. o \in DOMAIN BlockLocks(b, n) /\ HeightIn(e, o[1]) = n
      BY <1>2, <1>3, <1>9, <2>2
    <3> QED BY <1>3, <1>4, <2>2, <3>1
  <2> QED BY <2>1, <2>2
<1>10. ASSUME NEW o \in OutpointsIn(e), IsHtlc(o)
       PROVE  a[o] = RefHtlcRecord(e, o)
  <2>1. o \in DOMAIN u.full
    BY <1>8, <1>10
  <2>2. /\ SpendersOf(c, o) = {x \in SpendersOf(e, o) : x[1][1] <= n}
        /\ \A x, y \in SpendersOf(e, o) : x = y
        /\ SpendersOf(c, o) # {} => SpendersOf(c, o) = SpendersOf(e, o)
    BY <1>1, StemSpenders DEF c
  \* Not spent at all.
  <2>3. CASE SpendersOf(e, o) = {}
    <3>1. SpendersOf(c, o) = {}
      BY <2>2, <2>3
    <3>2. u.full[o] = LockRecord(o, HeightIn(e, o[1]))
      BY <1>2, <1>9, <1>10, <3>1, RefHtlcOpen
    <3>3. \A s \in BlockSpends(b) : s.out # o
      <4> SUFFICES ASSUME NEW s \in BlockSpends(b), s.out = o
                   PROVE  FALSE
        OBVIOUS
      <4>1. PICK x \in InputsOfChain(e) : s = SpendAt(e, x)
        BY <1>7
      <4>2. PrevOf(e, x) = o
        BY <4>1 DEF SpendAt
      <4> QED BY <2>3, <4>2 DEF SpendersOf
    <3>4. o \notin Hit(u.full, BlockSpends(b))
      BY <3>3 DEF Hit
    <3> QED BY <1>6, <2>1, <2>3, <3>2, <3>4, RefHtlcOpen
  \* Spent before the block: settled, and left as it is.
  <2>4. CASE SpendersOf(c, o) # {}
    <3>1. PICK x \in SpendersOf(c, o) : TRUE
      BY <2>4
    <3>2. o \in OutpointsIn(c)
      BY <1>1, <3>1, SpentWasThere
    <3>3. u.full[o] = RefHtlcRecord(c, o)
      BY <1>9, <1>10, <3>2
    <3>4. u.full[o].state \in Settled
      BY <1>1, <1>10, <3>1, <3>3, RefHtlcSettled
    <3>5. o \notin Hit(u.full, BlockSpends(b))
      BY <3>4 DEF Hit, Advanceable
    <3>6. RefHtlcRecord(c, o) = RefHtlcRecord(e, o)
      BY <1>1, <1>10, <2>2, <2>4, <3>2, RefHtlcStem DEF c
    <3> QED BY <1>6, <2>1, <3>3, <3>5, <3>6
  \* Spent in the block: a lock so far, and settled by that spend.
  <2>5. CASE SpendersOf(c, o) = {} /\ SpendersOf(e, o) # {}
    <3>1. PICK x \in SpendersOf(e, o) : TRUE
      BY <2>5
    <3>2. /\ x \in InputsOfChain(e) /\ PrevOf(e, x) = o /\ x[1][1] \in Nat
          /\ InputArm(TxAt(e, x[1]), x[2]) \in {"claim", "reclaim"}
      BY <1>10, <3>1, SpentWasThere
    <3>3. x[1][1] > n
      BY <1>1, <2>2, <2>5, <3>1, <3>2
    <3>4. SpendAt(e, x) \in BlockSpends(b) /\ SpendAt(e, x).out = o
      BY <1>7, <3>2, <3>3, ExtractAssumption DEF SpendAt
    <3>5. \A s \in BlockSpends(b) : s.out = o => s = SpendAt(e, x) /\ x[1][1] = n + 1
      <4> SUFFICES ASSUME NEW s \in BlockSpends(b), s.out = o
                   PROVE  s = SpendAt(e, x) /\ x[1][1] = n + 1
        OBVIOUS
      <4>1. PICK y \in InputsOfChain(e) : y[1][1] = n + 1 /\ s = SpendAt(e, y)
        BY <1>7
      <4>2. y \in SpendersOf(e, o)
        BY <4>1 DEF SpendAt, SpendersOf
      <4>3. y = x
        BY <2>2, <3>1, <4>2
      <4> QED BY <4>1, <4>3
    <3>6. Settler(BlockSpends(b), o) = SpendAt(e, x)
      BY <3>4, <3>5 DEF Settler
    <3>7. u.full[o] = LockRecord(o, HeightIn(e, o[1]))
      BY <1>2, <1>9, <1>10, <2>5, RefHtlcOpen
    <3>8. u.full[o].state \notin Settled
      BY <3>7 DEF LockRecord, Settled
    <3>9. o \in Hit(u.full, BlockSpends(b))
      BY <2>1, <3>4, <3>8 DEF Hit, Advanceable
    <3>10. a[o] = SettledRecord(LockRecord(o, HeightIn(e, o[1])), SpendAt(e, x), n)
      BY <1>6, <3>6, <3>7, <3>9
    <3>11. x[1][1] - 1 = n
      BY <1>1, <3>4, <3>5
    <3> QED BY <1>10, <3>1, <3>10, <3>11, RefHtlcSettled
  <2> QED BY <2>3, <2>4, <2>5
<1>11. a = [o \in {x \in OutpointsIn(e) : IsHtlc(x)} |-> RefHtlcRecord(e, o)]
  BY <1>6, <1>8, <1>10
<1>12. a = RefHtlcs(e)
  BY <1>11 DEF RefHtlcs
<1> QED BY <1>12 DEF a, u, b

\* A wipe leaves the records of the chain it wipes back to, unless it cuts off the
\* spend of a lock it keeps.
LEMMA WipeRefHtlcs ==
  ASSUME NEW e \in Histories, ValidChain(e), NEW n \in 0 .. Len(e),
         LocksKeepTheirSpends(e, n), NEW t, t.full = RefHtlcs(e)
  PROVE  ForgetHtlcs(t, {o \in DOMAIN t.full : t.full[o].lockHeight > n - 1}).full
           = RefHtlcs(Stem(e, n))
<1> DEFINE c == Stem(e, n)
           gone == {o \in DOMAIN t.full : t.full[o].lockHeight > n - 1}
           kept == {o \in OutpointsIn(c) : IsHtlc(o)}
<1>1. n \in Nat /\ c \in Histories /\ ValidChain(c)
  BY StemBlocks, StemValid, LenProperties DEF Histories
<1>2. /\ \A o : o \in OutpointsIn(c) <=> o \in OutpointsIn(e) /\ HeightIn(e, o[1]) < n
      /\ \A o \in OutpointsIn(e) : HeightIn(e, o[1]) \in Nat /\ o[1] \in TxsOf(e)
                                   /\ o \in OutpointsOf(o[1])
  BY StemOutpoints
<1>3. /\ DOMAIN t.full = {o \in OutpointsIn(e) : IsHtlc(o)}
      /\ \A o \in DOMAIN t.full : t.full[o] = RefHtlcRecord(e, o)
      /\ \A o \in DOMAIN t.full : t.full[o].lockHeight = HeightIn(e, o[1])
  <2>1. /\ DOMAIN t.full = {o \in OutpointsIn(e) : IsHtlc(o)}
        /\ \A o \in DOMAIN t.full : t.full[o] = RefHtlcRecord(e, o)
    BY DEF RefHtlcs
  <2>2. \A o : RefHtlcRecord(e, o).lockHeight = HeightIn(e, o[1])
    BY DEF RefHtlcRecord
  <2> QED BY <2>1, <2>2
<1>4. ForgetHtlcs(t, gone).full = [o \in DOMAIN t.full \cap (DOMAIN t.full \ gone) |-> t.full[o]]
  BY DEF ForgetHtlcs, Keep
<1> HIDE DEF c
<1>5. ASSUME NEW o \in DOMAIN t.full
      PROVE  o \in gone <=> ~(HeightIn(e, o[1]) < n)
  <2>1. t.full[o].lockHeight = HeightIn(e, o[1]) /\ HeightIn(e, o[1]) \in Nat
    BY <1>2, <1>3
  <2> QED BY <1>1, <2>1
<1>6. DOMAIN t.full \cap (DOMAIN t.full \ gone) = kept
  BY <1>2, <1>3, <1>5
<1>7. ASSUME NEW o \in kept
      PROVE  t.full[o] = RefHtlcRecord(c, o)
  <2>1. o \in OutpointsIn(e) /\ HeightIn(e, o[1]) < n /\ IsHtlc(o) /\ o \in OutpointsIn(c)
    BY <1>2
  <2>2. /\ SpendersOf(c, o) = {x \in SpendersOf(e, o) : x[1][1] <= n}
    BY StemSpenders DEF c
  <2>3. ASSUME NEW x \in SpendersOf(e, o)
        PROVE  x[1][1] <= n
    <3> DEFINE p == PositionOf(e, o[1])
    <3>1. /\ x \in InputsOfChain(e) /\ PrevOf(e, x) = o /\ x[1][1] \in Nat
          /\ p \in Positions(e) /\ TxAt(e, p) = o[1]
      BY SpentWasThere
    <3>2. p[1] \in Nat /\ HeightIn(e, o[1]) = p[1] - 1
      BY <3>1, PositionBlock DEF HeightIn
    <3> HIDE DEF p
    <3>3. p[1] <= n
      BY <1>1, <2>1, <3>2
    <3>4. o \in OutpointsOf(TxAt(e, p))
      BY <1>2, <2>1, <3>1
    <3>5. ~(n < x[1][1])
      BY <2>1, <3>1, <3>3, <3>4 DEF LocksKeepTheirSpends
    <3> QED BY <1>1, <3>1, <3>5
  <2>4. SpendersOf(c, o) = SpendersOf(e, o)
    BY <2>2, <2>3
  <2>5. RefHtlcRecord(c, o) = RefHtlcRecord(e, o)
    BY <2>1, <2>4, RefHtlcStem DEF c
  <2>6. o \in DOMAIN t.full
    BY <1>3, <2>1
  <2> QED BY <1>3, <2>5, <2>6
<1>8. ForgetHtlcs(t, gone).full = [o \in kept |-> RefHtlcRecord(c, o)]
  BY <1>4, <1>6, <1>7
<1> QED BY <1>8 DEF RefHtlcs, c

(***************************************************************************)
(* All the tables.                                                         *)
(***************************************************************************)
IndexOf(d) == [htlc |-> d.htlc.full, activity |-> d.activity, spentBy |-> d.spentBy,
               datum |-> d.datum.forward, blocks |-> d.blocks]

LEMMA IndexParts ==
  ASSUME NEW d, NEW c
  PROVE  IndexOf(d) = RefIndex(c) <=>
           /\ d.htlc.full = RefHtlcs(c)
           /\ d.activity = RefActivity(RefBlocks(c))
           /\ d.spentBy = RefSpentBy(c)
           /\ d.datum.forward = RefDatums(c)
           /\ d.blocks = RefBlocks(c)
BY DEF IndexOf, RefIndex

\* Applying a block to the index of its parent gives the index of the block.
LEMMA ApplyIndex ==
  ASSUME NEW e \in Histories, ValidChain(e), Len(e) # 0, NEW n, n = Len(e) - 1,
         NEW d, IndexOf(d) = RefIndex(Stem(e, n)), NEW unread
  PROVE  IndexOf(ApplyBlockEvents(d, BlockEvents(d, e, n, unread))) = RefIndex(e)
<1> DEFINE c == Stem(e, n)
           b == BodyOf(e)
           w == ApplyBlockEvents(d, BlockEvents(d, e, n, unread))
<1>1. /\ d.htlc.full = RefHtlcs(c)
      /\ d.activity = RefActivity(RefBlocks(c))
      /\ d.spentBy = RefSpentBy(c)
      /\ d.datum.forward = RefDatums(c)
      /\ d.blocks = RefBlocks(c)
  BY IndexParts
<1>2. n \in 0 .. Len(e) /\ n \in Nat
  BY LastBlock
<1>3. /\ w.htlc = AdvanceHtlcs(UpsertHtlcs(d.htlc, BlockLocks(b, n)), BlockSpends(b), n)
      /\ w.spentBy = Insert(d.spentBy, BlockSpentBy(b, n))
      /\ w.datum.forward = Insert(d.datum.forward, BlockDatums(b, n))
      /\ w.blocks = Insert(d.blocks, [k \in {n} |-> e])
  BY DEF ApplyBlockEvents, BlockEvents, WriteDatums
<1>4. w.blocks = RefBlocks(e)
  BY <1>1, <1>3, ApplyRefBlocks
<1>5. w.activity = RefActivity(w.blocks)
  <2>1. n \notin DOMAIN d.blocks
    BY <1>1, <1>2, StemRefBlocks
  <2> HIDE DEF w
  <2> QED BY <1>1, <2>1, ApplyActivity DEF w
<1> HIDE DEF w, b, c
<1>6. w.htlc.full = RefHtlcs(e)
  BY <1>1, <1>3, ApplyRefHtlcs DEF b, c
<1>7. w.spentBy = RefSpentBy(e)
  BY <1>1, <1>3, ApplyRefSpentBy DEF b, c
<1>8. w.datum.forward = RefDatums(e)
  BY <1>1, <1>3, ApplyRefDatums DEF b, c
<1>9. IndexOf(w) = RefIndex(e)
  BY <1>4, <1>5, <1>6, <1>7, <1>8, IndexParts
<1> QED BY <1>9 DEF w

\* Wiping the index of a chain above height n - 1 gives the index of its first n
\* blocks, if no block above it spends an HTLC locked below.
LEMMA WipeIndex ==
  ASSUME NEW e \in Histories, ValidChain(e), NEW n \in 0 .. Len(e),
         LocksKeepTheirSpends(e, n), NEW d, IndexOf(d) = RefIndex(e)
  PROVE  IndexOf(WipeAbove(d, n - 1)) = RefIndex(Stem(e, n))
<1> DEFINE c == Stem(e, n)
           w == WipeAbove(d, n - 1)
<1>1. /\ d.htlc.full = RefHtlcs(e)
      /\ d.activity = RefActivity(RefBlocks(e))
      /\ d.spentBy = RefSpentBy(e)
      /\ d.datum.forward = RefDatums(e)
      /\ d.blocks = RefBlocks(e)
  BY IndexParts
<1>2. /\ w.htlc = ForgetHtlcs(d.htlc, {o \in DOMAIN d.htlc.full :
                                        d.htlc.full[o].lockHeight > n - 1})
      /\ w.spentBy = WipeSpentByAbove(d.spentBy, n - 1)
      /\ w.datum = WipeDatumsAbove(d.datum, n - 1)
      /\ w.blocks = Keep(d.blocks, {x \in DOMAIN d.blocks : x <= n - 1})
  BY DEF WipeAbove
<1>3. w.activity = RefActivity(w.blocks)
  BY <1>1, WipeActivity
<1> HIDE DEF w
<1>4. w.blocks = RefBlocks(c)
  BY <1>1, <1>2, WipeRefBlocks
<1>5. w.htlc.full = RefHtlcs(c)
  BY <1>1, <1>2, WipeRefHtlcs
<1>6. w.spentBy = RefSpentBy(c)
  BY <1>1, <1>2, WipeRefSpentBy
<1>7. w.datum.forward = RefDatums(c)
  BY <1>1, <1>2, WipeRefDatums
<1>8. IndexOf(w) = RefIndex(c)
  BY <1>3, <1>4, <1>5, <1>6, <1>7, IndexParts
<1> QED BY <1>8 DEF w

\* The empty tables are the index of no blocks.
LEMMA EmptyIndex == IndexOf(EmptyDb) = RefIndex(<<>>) /\ ValidChain(<<>>)
<1>1. Positions(<<>>) = {}
  BY DEF Positions
<1>2. InputsOfChain(<<>>) = {} /\ OutpointsIn(<<>>) = {}
  BY <1>1 DEF InputsOfChain, OutpointsIn, TxsOf
<1>3. ValidChain(<<>>)
  BY <1>1, <1>2 DEF ValidChain
<1>4. RefBlocks(<<>>) = EmptyTable
  <2>1. 0 .. HeightOfChain(<<>>) = {}
    BY EmptySeq DEF HeightOfChain
  <2> QED BY <2>1 DEF RefBlocks, EmptyTable
<1>5. RefActivity(EmptyTable) = EmptyTable
  BY DEF RefActivity, EmptyTable
<1>6. RefHtlcs(<<>>) = EmptyTable
  BY <1>2 DEF RefHtlcs, EmptyTable
<1>7. RefSpentBy(<<>>) = EmptyTable
  BY <1>2 DEF RefSpentBy, EmptyTable
<1>8. RefDatums(<<>>) = EmptyTable
  BY <1>2 DEF RefDatums, EmptyTable
<1> HIDE DEF EmptyTable
<1>9. /\ EmptyDb.htlc.full = EmptyTable /\ EmptyDb.activity = EmptyTable
      /\ EmptyDb.spentBy = EmptyTable /\ EmptyDb.datum.forward = EmptyTable
      /\ EmptyDb.blocks = EmptyTable
  BY DEF EmptyDb
<1> QED BY <1>3, <1>4, <1>5, <1>6, <1>7, <1>8, <1>9, IndexParts

(***************************************************************************)
(* The follower.  The tables are the index of the block the checkpoint     *)
(* names, or, once the rewind has wiped, of the one it is about to name.   *)
(* For the wipe to leave an index, the block it takes off must spend no    *)
(* HTLC of a block below: where reorganisations orphan none such, that is  *)
(* so for a checkpoint that is no longer on the node's chain.              *)
(***************************************************************************)
\* On the chain, or with a last block that can be wiped without a trace.
WipesCleanly(id) ==
  id = ZeroId \/ OnChain(id) \/ LocksKeepTheirSpends(id, Len(id) - 1)

CleanInv ==
  /\ ValidChain(chain)
  /\ ValidChain(meta.id)
  /\ WipesCleanly(meta.id)
  /\ pc \in {"ancestor", "wipe"} => ~OnChain(meta.id)

IndexInv == CleanInv /\ IndexOf(db) = RefIndex(CurrentId)

LEMMA CleanInit == TickInit => CleanInv
<1> SUFFICES ASSUME TickInit PROVE CleanInv
  OBVIOUS
<1>1. chain = <<Genesis>> /\ meta.id = <<>> /\ pc = "sleep"
  BY DEF TickInit, InitNode, MetaDefault, ZeroId
<1> QED BY <1>1, EmptyIndex, ConsensusAssumption DEF CleanInv, ZeroId, WipesCleanly

LEMMA IndexInit == Init => IndexInv
<1> SUFFICES ASSUME Init PROVE IndexInv
  OBVIOUS
<1>1. meta.id = <<>> /\ db = EmptyDb /\ pc = "sleep"
  BY DEF Init, TickInit, MetaDefault, ZeroId
<1> QED BY <1>1, EmptyIndex, CleanInit DEF IndexInv, CurrentId, Init

\* What is on a valid chain is one.
LEMMA OnChainValid ==
  ASSUME chain \in Histories, ValidChain(chain), NEW id, OnChain(id)
  PROVE  ValidChain(id)
<1>1. Len(id) \in 0 .. Len(chain) /\ id = Stem(chain, Len(id))
  BY DEF OnChain, Stem
<1> QED BY <1>1, StemValid

\* A reorganisation of one block takes at most its last block off the checkpoint's
\* history, and that block orphans no spend of an HTLC below it.
LEMMA CleanNode ==
  ASSUME ~MidTick, MaxDepth <= 1, ReorgUntouched, TickInv, CleanInv, NodeStep
  PROVE  CleanInv'
<1>1. pc' = pc /\ meta' = meta /\ m' = m /\ NodeMoves
  BY DEF NodeStep, local
<1>2. /\ chain \in Histories /\ chain # <<>> /\ Len(chain) \in Nat /\ Len(chain) # 0
      /\ meta.id \in Histories /\ Len(meta.id) \in Nat
  BY LenProperties, EmptySeq DEF TickInv, TickTypeOK, Metas, Histories
<1>3. ValidChain(chain')
  BY <1>1 DEF NodeMoves, Mine, Reorg, ValidChains
<1>4. /\ Len(chain) <= Len(chain') /\ Len(chain') \in Nat
      /\ \A n \in 1 .. Len(chain) - 1 : SubSeq(chain', 1, n) = SubSeq(chain, 1, n)
  <2>1. chain' \in Histories
    BY <1>1, <1>2, NodeMovesType
  <2> QED BY <1>1, <1>2, <2>1, NodeKeepsStem, LenProperties DEF Histories
<1>5. ASSUME meta.id = ZeroId \/ LocksKeepTheirSpends(meta.id, Len(meta.id) - 1)
      PROVE  WipesCleanly(meta.id)'
  BY <1>1, <1>5 DEF WipesCleanly
<1>6. ASSUME OnChain(meta.id), Len(meta.id) < Len(chain)
      PROVE  WipesCleanly(meta.id)'
  <2>1. Len(meta.id) \in 1 .. Len(chain) - 1 /\ Len(meta.id) \in 1 .. Len(chain')
    BY <1>2, <1>4, <1>6 DEF OnChain
  <2>2. SubSeq(chain', 1, Len(meta.id)) = meta.id
    BY <1>4, <1>6, <2>1 DEF OnChain
  <2> QED BY <1>1, <2>1, <2>2 DEF OnChain, WipesCleanly
<1>7. ASSUME OnChain(meta.id), Len(meta.id) = Len(chain)
      PROVE  WipesCleanly(meta.id)'
  <2>1. meta.id = chain
    BY <1>2, <1>7, SubSeqFull DEF OnChain, Histories
  <2>2. CASE Mine
    <3>1. PICK b \in BlockBodies : chain' = Append(chain, b)
      BY <2>2 DEF Mine
    <3>2. b \in Bodies /\ <<b>> \in Seq(Bodies) /\ chain \in Seq(Bodies)
      BY <1>2 DEF Bodies, Histories
    <3>3. SubSeq(chain \o <<b>>, 1, Len(chain)) = SubSeq(chain, 1, Len(chain))
      <4>1. 1 \in 1 .. Len(chain) /\ Len(chain) \in 1 .. Len(chain)
        BY <1>2
      <4> QED BY <3>2, <4>1, SubSeqOfConcat1
    <3>4. SubSeq(chain', 1, Len(chain)) = chain /\ Len(chain) \in 1 .. Len(chain')
      BY <1>2, <1>4, <3>1, <3>2, <3>3, AppendIsConcat, SubSeqFull
    <3> QED BY <1>1, <2>1, <3>4 DEF OnChain, WipesCleanly
  <2>3. CASE Reorg
    <3>1. PICK k \in 1 .. MaxDepth : ReorgUntouched => LocksKeepTheirSpends(chain, Len(chain) - k)
      BY <2>3 DEF Reorg
    <3>2. k = 1
      BY <3>1, NodeAssumption
    <3> QED BY <1>1, <2>1, <3>1, <3>2 DEF WipesCleanly
  <2> QED BY <1>1, <2>2, <2>3 DEF NodeMoves
<1>8. WipesCleanly(meta.id)'
  <2>1. OnChain(meta.id) => Len(meta.id) < Len(chain) \/ Len(meta.id) = Len(chain)
    BY <1>2 DEF OnChain
  <2> QED BY <1>5, <1>6, <1>7, <2>1 DEF CleanInv, WipesCleanly
<1>9. pc' \notin {"ancestor", "wipe"}
  BY DEF NodeStep
<1> QED BY <1>1, <1>3, <1>8, <1>9 DEF CleanInv

LEMMA CleanTick ==
  ASSUME ~MidTick, MaxDepth <= 1, ReorgUntouched,
         TickInv, OneChain, CleanInv, [TickNext]_tickVars
  PROVE  CleanInv'
<1>1. chain \in Histories
  BY DEF TickInv, TickTypeOK
<1>2. CASE SaveReorg
  <2>1. pc = "save" /\ pc' = "plan" /\ meta' = m /\ UNCHANGED <<chain, m>>
    BY <1>2 DEF SaveReorg, local
  <2>2. OnChain(m.id) /\ ValidChain(m.id)
    BY <1>1, <2>1, OnChainValid DEF OneChain, CleanInv
  <2> QED BY <2>1, <2>2 DEF CleanInv, OnChain, WipesCleanly
<1>3. CASE CheckReorg
  <2>1. /\ pc = "check" /\ UNCHANGED <<chain, meta, m>> /\ NodeHas(m.last)
        /\ pc' = IF BlockIdAt(chain, m.last) # m.id THEN "ancestor" ELSE "plan"
    BY <1>3 DEF CheckReorg, local
  <2>2. /\ m = meta /\ meta.last > 0 /\ meta.last \in Nat /\ meta.id \in Histories
        /\ meta.id = ZeroId => meta.last = 0
        /\ meta.id # ZeroId => HeightOf(meta.id) = meta.last
    BY <2>1, NodeAssumption DEF TickInv, TickTypeOK, TickFitsCheckpoint, Metas, Heights
  <2>3. Len(meta.id) = meta.last + 1
    <3>1. Len(meta.id) \in Nat
      BY <2>2, LenProperties DEF Histories
    <3>2. HeightOf(meta.id) = meta.last
      BY <2>2
    <3> QED BY <2>2, <3>1, <3>2 DEF HeightOf
  <2>4. BlockIdAt(chain, m.last) # m.id => ~OnChain(meta.id)
    BY <2>2, <2>3 DEF BlockIdAt, OnChain
  <2> QED BY <2>1, <2>4 DEF CleanInv, OnChain, WipesCleanly
<1>4. CASE FindAncestor \/ Wipe
  <2>1. pc \in {"ancestor", "wipe"} /\ UNCHANGED <<chain, meta>>
    BY <1>4 DEF FindAncestor, Wipe
  <2> QED BY <2>1 DEF CleanInv, OnChain, WipesCleanly
<1>5. CASE ApplyBlock
  <2>1. OnChain(got) /\ ValidChain(got)
    BY <1>1, <1>5, ApplySteps, OnChainValid DEF CleanInv
  <2>2. chain' = chain /\ meta'.id = got /\ pc' \notin {"ancestor", "wipe"}
    BY <1>5 DEF ApplyBlock, AtRest
  <2> QED BY <2>1, <2>2 DEF CleanInv, OnChain, WipesCleanly
<1>6. CASE NodeStep
  BY <1>6, CleanNode
<1>7. CASE CaughtUp
  <2>1. m = meta /\ meta \in Metas
    BY <1>7 DEF CaughtUp, TickInv, TickTypeOK, TickFitsCheckpoint
  <2>2. chain' = chain /\ meta'.id = meta.id /\ pc' = "sleep"
    BY <1>7, <2>1 DEF CaughtUp, AtRest, Metas
  <2> QED BY <2>2 DEF CleanInv, OnChain, WipesCleanly
<1>8. CASE ReadTip \/ EnterLoop \/ FetchBlock \/ BlockMissing \/ AbortTick
  <2>1. UNCHANGED <<chain, meta>> /\ pc' \notin {"ancestor", "wipe"}
    BY <1>8 DEF ReadTip, EnterLoop, FetchBlock, BlockMissing, AbortTick, AtRest
  <2> QED BY <2>1 DEF CleanInv, OnChain, WipesCleanly
<1>9. CASE UNCHANGED tickVars
  BY <1>9 DEF tickVars, CleanInv, OnChain, WipesCleanly
<1> QED BY <1>2, <1>3, <1>4, <1>5, <1>6, <1>7, <1>8, <1>9 DEF TickNext, TickStep, QuietStep

\* A wipe takes off a last block that leaves no trace; an apply puts on a valid one.
LEMMA CleanWipe ==
  ASSUME TickInv, CleanInv, Wipe, meta.id # ZeroId
  PROVE  LocksKeepTheirSpends(meta.id, Len(meta.id) - 1) /\ ValidChain(meta.id)
BY DEF CleanInv, WipesCleanly, Wipe

LEMMA CleanApply ==
  ASSUME TickInv, OneChain, CleanInv, ApplyBlock
  PROVE  ValidChain(got)
BY ApplySteps, OnChainValid DEF CleanInv, TickInv, TickTypeOK

LEMMA IndexNext ==
  ASSUME ~MidTick, ~StopInRewind, MaxDepth <= 1, ReorgUntouched,
         IInv, OneChain, OneBack, IndexInv, [Next]_vars
  PROVE  IndexInv'
<1> USE DEF IInv
<1>1. CleanInv'
  BY StepsAreTickSteps, CleanTick DEF IndexInv
<1>2. CASE WipeTables
  <2> DEFINE n == Len(meta.id) - 1
  <2>1. /\ n \in 0 .. Len(meta.id) /\ m.last = n - 1 /\ meta.id \in Histories
        /\ m.id = Stem(meta.id, n) /\ CurrentId = meta.id /\ CurrentId' = m.id
        /\ LocksKeepTheirSpends(meta.id, n) /\ ValidChain(meta.id)
    BY <1>2, WipeSteps, CleanWipe DEF WipeTables, OneBack, IndexInv, Stem
  <2> HIDE DEF n
  <2>2. IndexOf(WipeAbove(db, n - 1)) = RefIndex(Stem(meta.id, n))
    BY <2>1, WipeIndex DEF IndexInv
  <2>3. db' = WipeAbove(db, n - 1)
    BY <1>2, <2>1 DEF WipeTables
  <2>4. IndexOf(db') = RefIndex(CurrentId')
    BY <2>1, <2>2, <2>3
  <2> QED BY <1>1, <2>4 DEF IndexInv
<1>3. CASE ApplyToTables
  <2>1. /\ got \in Histories /\ Len(got) # 0 /\ h = Len(got) - 1
        /\ CurrentId = Stem(got, h) /\ CurrentId' = got /\ ValidChain(got)
    BY <1>3, ApplySteps, CleanApply DEF ApplyToTables, IndexInv, Stem
  <2>0. PICK unread \in Unread : db' = ApplyBlockEvents(db, BlockEvents(db, got, h, unread))
    BY <1>3 DEF ApplyToTables
  <2>2. IndexOf(ApplyBlockEvents(db, BlockEvents(db, got, h, unread))) = RefIndex(got)
    BY <2>1, ApplyIndex DEF IndexInv
  <2>3. IndexOf(db') = RefIndex(CurrentId')
    BY <2>0, <2>1, <2>2
  <2> QED BY <1>1, <2>3 DEF IndexInv
<1>4. CASE LeaveTables
  <2>1. CurrentId' = CurrentId /\ db' = db
    BY <1>4, LeaveKeepsCurrent DEF LeaveTables
  <2> QED BY <1>1, <2>1 DEF IndexInv
<1>5. CASE UNCHANGED vars
  BY <1>1, <1>5 DEF vars, IndexInv, CurrentId
<1> QED BY <1>2, <1>3, <1>4, <1>5 DEF Next

(***************************************************************************)
(* The view of a reader is the history of the block the tables index.      *)
(***************************************************************************)
LEMMA TopOf ==
  ASSUME NEW k \in Nat, NEW S, S = 0 .. k
  PROVE  (CHOOSE x \in S : \A y \in S : y <= x) = k
OBVIOUS

LEMMA ViewIsCurrent ==
  ASSUME IInv, IndexInv
  PROVE  View = CurrentId /\ Index = RefIndex(CurrentId) /\ CurrentId \in Histories
<1>1. /\ CurrentId \in Histories /\ CurrentId \in Seq(Bodies) /\ Len(CurrentId) \in Nat
  <2>1. CurrentId \in Histories
    BY DEF IInv, TickInv, TickTypeOK, Metas, CurrentId
  <2> QED BY <2>1, LenProperties DEF Histories
<1>2. Index = IndexOf(db) /\ Index = RefIndex(CurrentId)
  BY DEF Index, IndexOf, IndexInv
<1> DEFINE id == CurrentId
           n == Len(id)
<1>3. db.blocks = [x \in 0 .. n - 1 |-> SubSeq(id, 1, x + 1)]
  <2>1. db.blocks = RefBlocks(id)
    BY IndexParts DEF IndexInv
  <2> QED BY <2>1 DEF RefBlocks, HeightOfChain, BlockIdAt
<1>4. id \in Seq(Bodies) /\ n \in Nat
  BY <1>1
<1> HIDE DEF id
<1>5. CASE n = 0
  <2>1. DOMAIN db.blocks = {}
    BY <1>3, <1>5
  <2>2. View = <<>>
    BY <2>1 DEF View
  <2> QED BY <1>1, <1>2, <1>4, <1>5, <2>2, EmptySeq DEF id
<1>6. CASE n # 0
  <2>1. DOMAIN db.blocks = 0 .. n - 1 /\ DOMAIN db.blocks # {}
    <3>1. DOMAIN db.blocks = 0 .. n - 1
      BY <1>3
    <3>2. n - 1 \in 0 .. n - 1
      BY <1>4, <1>6
    <3> QED BY <3>1, <3>2
  <2>2. (CHOOSE x \in DOMAIN db.blocks : \A y \in DOMAIN db.blocks : y <= x) = n - 1
    <3>1. n - 1 \in Nat
      BY <1>4, <1>6
    <3> QED BY <2>1, <3>1, TopOf
  <2>3. View = db.blocks[n - 1]
    BY <2>1, <2>2 DEF View
  <2>4. db.blocks[n - 1] = SubSeq(id, 1, n)
    BY <1>3, <1>4, <1>6
  <2> QED BY <1>1, <1>2, <1>4, <2>3, <2>4, SubSeqFull DEF id
<1> QED BY <1>5, <1>6

\* The view grows by a block, shrinks by one, or stays.
LEMMA ViewSteps ==
  ASSUME ~StopInRewind, IInv, OneChain, OneBack, IndexInv, [Next]_vars
  PROVE  \/ CurrentId' = CurrentId
         \/ \E b \in BlockBodies \cup {Genesis} : CurrentId' = Append(CurrentId, b)
         \/ CurrentId # <<>> /\ CurrentId' = SubSeq(CurrentId, 1, Len(CurrentId) - 1)
<1> USE DEF IInv
<1>1. CASE WipeTables
  <2>1. /\ m.id = SubSeq(meta.id, 1, Len(meta.id) - 1) /\ meta.id # ZeroId
        /\ CurrentId = meta.id /\ CurrentId' = m.id
    BY <1>1, WipeSteps DEF WipeTables, OneBack
  <2> QED BY <2>1 DEF ZeroId
<1>2. CASE ApplyToTables
  <2>1. /\ got \in Seq(Bodies) /\ Len(got) \in Nat /\ Len(got) # 0
        /\ CurrentId = SubSeq(got, 1, Len(got) - 1) /\ CurrentId' = got
    BY <1>2, ApplySteps DEF ApplyToTables, Histories
  <2>2. got[Len(got)] \in Bodies
    <3>1. Len(got) \in 1 .. Len(got)
      BY <2>1
    <3> QED BY <2>1, <3>1, ElementOfSeq
  <2>3. CurrentId \in Seq(Bodies)
    BY <1>2, ApplySteps DEF ApplyToTables, TickInv, TickTypeOK, Metas, Histories
  <2>4. got = Append(CurrentId, got[Len(got)])
    <3> DEFINE c == SubSeq(got, 1, Len(got) - 1)
               b == got[Len(got)]
    <3>1. 1 \in 1 .. Len(got) /\ Len(got) \in 1 .. Len(got)
      BY <2>1
    <3>2. got = c \o <<b>>
      BY <2>1, <3>1, SubSeqRecursiveSecond, SubSeqFull
    <3>3. c \in Seq(Bodies) /\ b \in Bodies
      BY <2>1, <2>2, <2>3
    <3> HIDE DEF c, b
    <3>4. got = Append(c, b)
      BY <3>2, <3>3, AppendIsConcat
    <3> QED BY <2>1, <3>4 DEF c, b
  <2> QED BY <2>1, <2>2, <2>4 DEF Bodies
<1>3. CASE LeaveTables
  BY <1>3, LeaveKeepsCurrent DEF LeaveTables
<1>4. CASE UNCHANGED vars
  BY <1>4 DEF vars, CurrentId
<1> QED BY <1>1, <1>2, <1>3, <1>4 DEF Next

(***************************************************************************)
(* The promise is stated in an instance of its module, whose operators on  *)
(* chains are those of this one.                                           *)
(***************************************************************************)
LEMMA PromiseChains ==
  /\ \A c : Promise!Positions(c) = Positions(c)
  /\ \A c, p : Promise!TxAt(c, p) = TxAt(c, p)
  /\ \A c : Promise!InputsOfChain(c) = InputsOfChain(c)
  /\ \A c, x : Promise!PrevOf(c, x) = PrevOf(c, x)
  /\ \A c : Promise!ValidChain(c) = ValidChain(c)
<1>1. \A c : Promise!Positions(c) = Positions(c)
  BY DEF Promise!Positions, Positions
<1>2. \A c, p : Promise!TxAt(c, p) = TxAt(c, p)
  BY DEF Promise!TxAt, TxAt
<1>3. \A t : Promise!Inputs(t) = Inputs(t)
  BY DEF Promise!Inputs, Inputs
<1>4. \A c : Promise!InputsOfChain(c) = InputsOfChain(c)
  BY <1>1, <1>2, <1>3 DEF Promise!InputsOfChain, InputsOfChain
<1>5. \A c, x : Promise!PrevOf(c, x) = PrevOf(c, x)
  BY <1>2 DEF Promise!PrevOf, PrevOf
<1>6. \A p, q : Promise!Earlier(p, q) = Earlier(p, q)
  BY DEF Promise!Earlier, Earlier
<1>7. \A t : Promise!OutpointsOf(t) = OutpointsOf(t)
  BY DEF Promise!OutpointsOf, OutpointsOf
<1>8. \A t, v : Promise!InputArm(t, v) = InputArm(t, v)
  <2>1. \A w : Promise!HasClaimPreimage(w) = HasClaimPreimage(w)
    BY DEF Promise!HasClaimPreimage, HasClaimPreimage, Promise!ClaimHeaderBytes, ClaimHeaderBytes
  <2>2. \A w : Promise!ClassifySpendArm(w) = ClassifySpendArm(w)
    BY <2>1 DEF Promise!ClassifySpendArm, ClassifySpendArm
  <2> QED BY <2>2 DEF Promise!InputArm, InputArm
<1>9. \A o : Promise!Out(o) = Out(o) /\ Promise!IsHtlc(o) = IsHtlc(o)
  BY DEF Promise!Out, Out, Promise!IsHtlc, IsHtlc
<1>10. \A c, x : Promise!HtlcYields(c, x) = HtlcYields(c, x)
  BY <1>2, <1>5, <1>8, <1>9 DEF Promise!HtlcYields, HtlcYields
<1>11. \A c : Promise!ValidChain(c) = ValidChain(c)
  BY <1>1, <1>2, <1>4, <1>5, <1>6, <1>7, <1>10 DEF Promise!ValidChain, ValidChain
<1> QED BY <1>1, <1>2, <1>4, <1>5, <1>11

LEMMA PromiseActivity == \A blocks : Promise!RefActivity(blocks) = RefActivity(blocks)
<1>1. \A o : Promise!Out(o) = Out(o) /\ Promise!IsPay(o) = IsPay(o)
  BY DEF Promise!Out, Out, Promise!IsPay, IsPay
<1>2. \A t, v : Promise!Prev(t, v) = Prev(t, v)
  BY DEF Promise!Prev, Prev
<1>3. \A t : Promise!Inputs(t) = Inputs(t)
  BY DEF Promise!Inputs, Inputs
<1>4. \A t, a : Promise!PayOutputs(t, a) = PayOutputs(t, a)
  BY <1>1 DEF Promise!PayOutputs, PayOutputs
<1>5. \A t, a : Promise!PayInputs(t, a) = PayInputs(t, a)
  BY <1>1, <1>2, <1>3 DEF Promise!PayInputs, PayInputs
<1>6. \A t, dir, a : Promise!Side(t, dir, a) = Side(t, dir, a)
  BY <1>4, <1>5 DEF Promise!Side, Side
<1>7. \A dir : Promise!Flip(dir) = Flip(dir)
  BY DEF Promise!Flip, Flip
<1>8. \A t, dir, a : Promise!Counterparties(t, dir, a) = Counterparties(t, dir, a)
  BY <1>6, <1>7 DEF Promise!Counterparties, Counterparties
<1>9. \A S : Promise!LastOf(S) = LastOf(S)
  BY DEF Promise!LastOf, LastOf
<1>10. \A t, dir, a : Promise!ActivityAmount(t, dir, a) = ActivityAmount(t, dir, a)
  BY <1>1, <1>2, <1>6, <1>9 DEF Promise!ActivityAmount, ActivityAmount
<1>11. \A t, dir, a : Promise!ActivityRow(t, dir, a) = ActivityRow(t, dir, a)
  BY <1>8, <1>10 DEF Promise!ActivityRow, ActivityRow
<1>12. \A b : Promise!TxsIn(b) = TxsIn(b)
  BY DEF Promise!TxsIn, TxsIn
<1>13. \A b, x : Promise!ActivityKeys(b, x) = ActivityKeys(b, x)
  BY <1>6, <1>12 DEF Promise!ActivityKeys, ActivityKeys
<1>14. \A id : Promise!BodyOf(id) = BodyOf(id)
  BY DEF Promise!BodyOf, BodyOf
<1> QED BY <1>11, <1>13, <1>14 DEF Promise!RefActivity, RefActivity

LEMMA PromiseIndex == \A c : Promise!RefIndex(c) = RefIndex(c)
<1>1. \A c, t : Promise!PositionOf(c, t) = PositionOf(c, t)
  BY PromiseChains DEF Promise!PositionOf, PositionOf
<1>2. \A c, t : Promise!HeightIn(c, t) = HeightIn(c, t)
  BY <1>1 DEF Promise!HeightIn, HeightIn
<1>3. \A c : Promise!TxsOf(c) = TxsOf(c)
  BY PromiseChains DEF Promise!TxsOf, TxsOf
<1>4. \A t : Promise!OutpointsOf(t) = OutpointsOf(t)
  BY DEF Promise!OutpointsOf, OutpointsOf
<1>5. \A c : Promise!OutpointsIn(c) = OutpointsIn(c)
  BY <1>3, <1>4 DEF Promise!OutpointsIn, OutpointsIn
<1>6. \A c, o : Promise!SpendersOf(c, o) = SpendersOf(c, o)
  BY PromiseChains DEF Promise!SpendersOf, SpendersOf
<1>7. \A o : Promise!Out(o) = Out(o) /\ Promise!IsHtlc(o) = IsHtlc(o)
  BY DEF Promise!Out, Out, Promise!IsHtlc, IsHtlc
<1>8. \A c, o : Promise!RefHtlcRecord(c, o) = RefHtlcRecord(c, o)
  <2> SUFFICES ASSUME NEW c, NEW o
               PROVE  Promise!RefHtlcRecord(c, o) = RefHtlcRecord(c, o)
    OBVIOUS
  <2> DEFINE Rec(out, height, settled, x, t) ==
               LET by == [tx |-> t, input |-> x[2], height |-> x[1][1] - 1]
                   claimed == [field \in DOMAIN by \cup {"preimage"} |->
                                 IF field \in DOMAIN by THEN by[field]
                                 ELSE Body[t].ins[x[2]].witness.preimage]
                   arm == Body[t].ins[x[2]].witness.tag
               IN  [params     |-> out.script,
                    amount     |-> out.value,
                    lockHeight |-> height,
                    state      |-> IF settled
                                   THEN IF arm = "left" THEN "Claimed" ELSE "Reclaimed"
                                   ELSE IF height > out.script.timeout THEN "LockedExpired"
                                   ELSE "Locked",
                    claim      |-> IF settled /\ arm = "left" THEN claimed ELSE None,
                    reclaim    |-> IF settled /\ arm = "right" THEN by ELSE None]
             X == CHOOSE y \in SpendersOf(c, o) : TRUE
             Y == CHOOSE y \in Promise!SpendersOf(c, o) : TRUE
  <2>1. RefHtlcRecord(c, o)
          = Rec(Out(o), HeightIn(c, o[1]), SpendersOf(c, o) # {}, X, TxAt(c, X[1]))
    BY DEF RefHtlcRecord
  <2>2. Promise!RefHtlcRecord(c, o)
          = Rec(Promise!Out(o), Promise!HeightIn(c, o[1]), Promise!SpendersOf(c, o) # {},
                Y, Promise!TxAt(c, Y[1]))
    BY DEF Promise!RefHtlcRecord
  <2>3. /\ Out(o) = Promise!Out(o) /\ HeightIn(c, o[1]) = Promise!HeightIn(c, o[1])
        /\ SpendersOf(c, o) = Promise!SpendersOf(c, o) /\ X = Y
        /\ TxAt(c, X[1]) = Promise!TxAt(c, Y[1])
    BY <1>2, <1>6, <1>7, PromiseChains
  <2> HIDE DEF Rec, X, Y
  <2> QED BY <2>1, <2>2, <2>3
<1>9. \A c : Promise!RefHtlcs(c) = RefHtlcs(c)
  BY <1>5, <1>7, <1>8 DEF Promise!RefHtlcs, RefHtlcs
<1>10. \A c : Promise!RefBlocks(c) = RefBlocks(c)
  BY DEF Promise!RefBlocks, RefBlocks, Promise!HeightOfChain, HeightOfChain,
         Promise!BlockIdAt, BlockIdAt
<1>11. \A c : Promise!RefSpentBy(c) = RefSpentBy(c)
  BY <1>6, PromiseChains DEF Promise!RefSpentBy, RefSpentBy
<1>12. \A c : Promise!RefDatums(c) = RefDatums(c)
  BY <1>2, <1>5, <1>7 DEF Promise!RefDatums, RefDatums
<1> QED BY <1>9, <1>10, <1>11, <1>12, PromiseActivity DEF Promise!RefIndex, RefIndex

(***************************************************************************)
(* The theorem.                                                            *)
(***************************************************************************)
LEMMA AlwaysIndexes ==
  ASSUME ~MidTick, ~StopInRewind, MaxDepth <= 1, ReorgUntouched
  PROVE  Spec => [](IInv /\ OneChain /\ OneBack /\ IndexInv)
<1>1. Init => NoGap /\ OneChain /\ OneBack /\ IndexInv
  BY NoGapInit, OneChainInit, OneBackInit, IndexInit
<1>2. IInv /\ NoGap /\ OneChain /\ OneBack /\ IndexInv /\ [Next]_vars
        => (NoGap /\ OneChain /\ OneBack /\ IndexInv)'
  BY NoGapNext, OneChainNext, OneBackNext, IndexNext
<1> QED BY <1>1, <1>2, Invariant, PTL DEF Spec

PromiseState ==
  View = CurrentId /\ Index = RefIndex(CurrentId) /\ ValidChain(CurrentId)

LEMMA PromiseHolds ==
  ASSUME IInv, OneChain, IndexInv
  PROVE  PromiseState
<1>1. ValidChain(CurrentId)
  <2>1. CASE pc = "save"
    BY <2>1, OnChainValid DEF OneChain, IndexInv, CleanInv, IInv, TickInv, TickTypeOK, CurrentId
  <2>2. CASE pc # "save"
    BY <2>2 DEF IndexInv, CleanInv, CurrentId
  <2> QED BY <2>1, <2>2
<1> QED BY <1>1, ViewIsCurrent DEF PromiseState

\* Where the node holds still during a tick, a tick never stops between the two
\* commits of its rewind, and reorganisations between ticks are a block deep and
\* orphan no spend of an HTLC they leave in place, the follower implements the
\* promise to its readers: at every moment, for every world of transactions, the
\* tables are exactly the index of one valid chain, which changes by a block at a
\* time at its tip (apply_block_events, wipe_above and the rewind of tick).
THEOREM FollowerKeepsPromise ==
  ASSUME ~MidTick, ~StopInRewind, MaxDepth <= 1, ReorgUntouched
  PROVE  Spec => KeepsPromise
<1>1. Init => Promise!AInit
  <2> SUFFICES ASSUME Init PROVE Promise!AInit
    OBVIOUS
  <2>1. db = EmptyDb /\ View = <<>> /\ Index = IndexOf(db)
    <3>1. db = EmptyDb /\ DOMAIN EmptyDb.blocks = {}
      BY DEF Init, EmptyDb, EmptyTable
    <3> QED BY <3>1 DEF View, Index, IndexOf
  <2> QED BY <2>1, EmptyIndex, PromiseIndex DEF Promise!AInit
<1>2. IInv /\ OneChain /\ OneBack /\ IndexInv /\ PromiseState /\ PromiseState' /\ [Next]_vars
        => [Promise!ANext]_<<View, Index>>
  <2> SUFFICES ASSUME IInv, OneChain, OneBack, IndexInv, PromiseState, PromiseState', [Next]_vars
               PROVE  [Promise!ANext]_<<View, Index>>
    OBVIOUS
  <2>1. /\ View = CurrentId /\ Index = RefIndex(View)
        /\ View' = CurrentId' /\ Index' = RefIndex(View') /\ ValidChain(View')
    BY DEF PromiseState
  <2>2. CASE CurrentId' = CurrentId
    BY <2>1, <2>2
  <2>3. CASE \E b \in BlockBodies \cup {Genesis} : CurrentId' = Append(CurrentId, b)
    BY <2>1, <2>3, PromiseIndex, PromiseChains DEF Promise!ANext, Promise!Extend
  <2>4. CASE CurrentId # <<>> /\ CurrentId' = SubSeq(CurrentId, 1, Len(CurrentId) - 1)
    BY <2>1, <2>4, PromiseIndex DEF Promise!ANext, Promise!Rewind
  <2> QED BY <2>2, <2>3, <2>4, ViewSteps
<1>3. IInv /\ OneChain /\ IndexInv => PromiseState
  BY PromiseHolds
<1>4. Spec => []PromiseState
  BY <1>3, AlwaysIndexes, PTL
<1> QED BY <1>1, <1>2, <1>4, AlwaysIndexes, PTL DEF Spec, KeepsPromise, Promise!ASpec

(***************************************************************************)
(* SETTLEMENT_BY_CONTRACT, where no peek fails.  Of the table that goes    *)
(* with a chain, each row is of a spend of an HTLC of an earlier block and *)
(* under a key of that spend, and each key of such a spend has a row.      *)
(***************************************************************************)
OutcomeOf(c, x) ==
  IF InputArm(TxAt(c, x[1]), x[2]) = "claim" THEN "Claimed" ELSE "Reclaimed"

SettlesEarlier(c, x) ==
  IsHtlc(PrevOf(c, x)) /\ HeightIn(c, PrevOf(c, x)[1]) < x[1][1] - 1

RowKey(c, x, side) ==
  <<Party(LockRecord(PrevOf(c, x), 0), side), x[1][1] - 1, PrevOf(c, x)[1]>>

SettlementsFit(rows, c) ==
  /\ \A x \in InputsOfChain(c) : SettlesEarlier(c, x) =>
       \A side \in {"sender", "receiver"} : RowKey(c, x, side) \in DOMAIN rows
  /\ \A k \in DOMAIN rows : \E x \in InputsOfChain(c) :
       /\ SettlesEarlier(c, x) /\ \E side \in {"sender", "receiver"} : k = RowKey(c, x, side)
       /\ rows[k].lock = PrevOf(c, x) /\ rows[k].outcome = OutcomeOf(c, x)

LEMMA StemSettles ==
  ASSUME NEW e \in Histories, ValidChain(e), NEW n \in 0 .. Len(e),
         NEW x \in InputsOfChain(Stem(e, n))
  PROVE  LET c == Stem(e, n)
         IN  /\ x \in InputsOfChain(e) /\ x[1][1] <= n
             /\ PrevOf(c, x) = PrevOf(e, x) /\ OutcomeOf(c, x) = OutcomeOf(e, x)
             /\ SettlesEarlier(c, x) <=> SettlesEarlier(e, x)
             /\ \A side : RowKey(c, x, side) = RowKey(e, x, side)
<1> DEFINE c == Stem(e, n)
<1>1. /\ x \in InputsOfChain(e) /\ x[1][1] <= n
      /\ TxAt(c, x[1]) = TxAt(e, x[1]) /\ PrevOf(c, x) = PrevOf(e, x)
      /\ c \in Histories /\ ValidChain(c)
  BY StemInputs, StemBlocks, StemValid
<1> DEFINE o == PrevOf(c, x)
<1>2. HeightIn(c, o[1]) = HeightIn(e, o[1])
  <2>1. x \in SpendersOf(c, o)
    BY DEF SpendersOf
  <2>2. o \in OutpointsIn(c)
    BY <1>1, <2>1, SpentWasThere
  <2> QED BY <2>2, StemOutpoints
<1> HIDE DEF c
<1> QED BY <1>1, <1>2 DEF OutcomeOf, SettlesEarlier, RowKey, c

\* The rows of the last block, made from the records of the chain before it.
LEMMA LastSettlements ==
  ASSUME NEW e \in Histories, ValidChain(e), Len(e) # 0, NEW n, n = Len(e) - 1,
         NEW full, full = RefHtlcs(Stem(e, n))
  PROVE  LET rows == BlockSettlements(BodyOf(e), n, full)
         IN  /\ \A x \in InputsOfChain(e) : x[1][1] > n /\ SettlesEarlier(e, x) =>
                  \A side \in {"sender", "receiver"} : RowKey(e, x, side) \in DOMAIN rows
             /\ \A k \in DOMAIN rows : \E x \in InputsOfChain(e) :
                  /\ SettlesEarlier(e, x) /\ x[1][1] - 1 = n
                  /\ \E side \in {"sender", "receiver"} : k = RowKey(e, x, side)
                  /\ rows[k].lock = PrevOf(e, x) /\ rows[k].outcome = OutcomeOf(e, x)
<1> DEFINE c == Stem(e, n)
           b == BodyOf(e)
           rows == BlockSettlements(b, n, full)
           key(w) == SettlementKey(full, w[1], w[2], n)
<1>1. /\ n \in 0 .. Len(e) /\ n \in Nat /\ c \in Histories /\ ValidChain(c) /\ b \in Seq(Tx)
  BY LastBlock, StemBlocks, StemValid
<1>2. /\ \A o : o \in OutpointsIn(c) <=> o \in OutpointsIn(e) /\ HeightIn(e, o[1]) < n
      /\ \A o \in OutpointsIn(c) : HeightIn(c, o[1]) = HeightIn(e, o[1])
  BY <1>1, StemOutpoints
<1>3. /\ DOMAIN full = {o \in OutpointsIn(c) : IsHtlc(o)}
      /\ \A o \in DOMAIN full : full[o] = RefHtlcRecord(c, o)
  BY DEF RefHtlcs
<1>4. /\ \A s \in BlockSpends(b) : \E x \in InputsOfChain(e) :
           x[1][1] = n + 1 /\ s = SpendAt(e, x)
      /\ \A x \in InputsOfChain(e) :
           x[1][1] > n /\ InputArm(TxAt(e, x[1]), x[2]) # None
             => SpendAt(e, x) \in BlockSpends(b)
  BY LastSpends
<1>5. \A x \in InputsOfChain(e) : x[1][1] > n => x[1][1] = n + 1
  BY LastInputs
<1>6. /\ DOMAIN rows = {key(w) : w \in Written(b, full)}
      /\ \A k \in DOMAIN rows :
           LET W == {w \in Written(b, full) : key(w) = k}
               w == CHOOSE v \in W : \A y \in W \ {v} : WrittenBefore(b, y, v)
           IN  rows[k] = SettlementRow(w[1].out, Peeked(full, w[1]), w[2])
  BY DEF BlockSettlements
<1> HIDE DEF c, b, rows
\* The record a spend of the block finds is the lock's, unspent so far.
<1>7. ASSUME NEW x \in InputsOfChain(e), x[1][1] > n, PrevOf(e, x) \in DOMAIN full
      PROVE  LET o == PrevOf(e, x)
             IN  /\ IsHtlc(o) /\ full[o] = LockRecord(o, HeightIn(e, o[1]))
                 /\ \A side : SettlementKey(full, SpendAt(e, x), side, n) = RowKey(e, x, side)
                 /\ \A side : SettlementRow(o, Peeked(full, SpendAt(e, x)), side).lock = o
                 /\ \A side : SettlementRow(o, Peeked(full, SpendAt(e, x)), side).outcome
                                 = OutcomeOf(e, x)
  <2> DEFINE o == PrevOf(e, x)
             s == SpendAt(e, x)
  <2>1. o \in OutpointsIn(c) /\ IsHtlc(o) /\ full[o] = RefHtlcRecord(c, o)
    BY <1>3, <1>7
  <2>2. x \in SpendersOf(e, o)
    BY DEF SpendersOf
  <2>3. SpendersOf(c, o) = {}
    <3>1. /\ SpendersOf(c, o) = {y \in SpendersOf(e, o) : y[1][1] <= n}
          /\ \A y, z \in SpendersOf(e, o) : y = z
      BY <1>1, StemSpenders DEF c
    <3>2. x[1][1] = n + 1
      BY <1>5, <1>7
    <3>3. ~(x[1][1] <= n)
      BY <1>1, <3>2
    <3> QED BY <2>2, <3>1, <3>3
  <2>4. full[o] = LockRecord(o, HeightIn(e, o[1]))
    BY <1>2, <2>1, <2>3, RefHtlcOpen
  <2>5. /\ full[o].claim = None /\ full[o].reclaim = None
        /\ full[o].params = Out(o).script
    BY <2>4 DEF LockRecord
  <2>6. s.out = o /\ s.arm = InputArm(TxAt(e, x[1]), x[2])
    BY DEF SpendAt
  <2>7. SettledTxId(o, full[o]) = o[1]
    BY <2>5 DEF SettledTxId
  <2>8. \A side : Party(full[o], side) = Party(LockRecord(o, 0), side)
    BY <2>5 DEF Party, LockRecord
  <2>9. x[1][1] - 1 = n
    <3>1. x[1][1] = n + 1
      BY <1>5, <1>7
    <3> QED BY <1>1, <3>1
  <2>10. Peeked(full, s).state = OutcomeOf(e, x)
    <3>1. Peeked(full, s)
            = [LockRecord(o, HeightIn(e, o[1])) EXCEPT !.state =
                 IF s.arm = "claim" THEN "Claimed" ELSE "Reclaimed"]
      BY <2>4, <2>6 DEF Peeked
    <3> QED BY <2>6, <3>1 DEF LockRecord, OutcomeOf
  <2> HIDE DEF o, s
  <2>11. \A side : SettlementKey(full, s, side, n) = <<Party(LockRecord(o, 0), side), n, o[1]>>
    BY <2>6, <2>7, <2>8 DEF SettlementKey
  <2>12. \A side : /\ SettlementRow(o, Peeked(full, s), side).lock = o
                    /\ SettlementRow(o, Peeked(full, s), side).outcome = OutcomeOf(e, x)
    BY <2>10 DEF SettlementRow
  <2>13. \A side : RowKey(e, x, side) = <<Party(LockRecord(o, 0), side), n, o[1]>>
    BY <2>9 DEF RowKey, o
  <2> QED BY <2>1, <2>4, <2>11, <2>12, <2>13 DEF o, s
<1>8. ASSUME NEW x \in InputsOfChain(e), x[1][1] > n, SettlesEarlier(e, x),
             NEW side \in {"sender", "receiver"}
      PROVE  RowKey(e, x, side) \in DOMAIN rows
  <2> DEFINE o == PrevOf(e, x)
             w == <<SpendAt(e, x), side>>
  <2>1. x \in SpendersOf(e, o) /\ IsHtlc(o) /\ HeightIn(e, o[1]) < n
    <3>1. x[1][1] = n + 1
      BY <1>5, <1>8
    <3>2. x[1][1] - 1 = n
      BY <1>1, <3>1
    <3> QED BY <1>8, <3>2 DEF SettlesEarlier, SpendersOf
  <2>2. o \in OutpointsIn(e) /\ InputArm(TxAt(e, x[1]), x[2]) \in {"claim", "reclaim"}
    BY <2>1, SpentWasThere
  <2>3. o \in DOMAIN full
    BY <1>2, <1>3, <2>1, <2>2
  <2>4. SpendAt(e, x) \in BlockSpends(b) /\ SpendAt(e, x).out = o
    BY <1>4, <1>8, <2>2, ExtractAssumption DEF SpendAt
  <2>5. w \in Written(b, full)
    BY <2>3, <2>4 DEF Written
  <2>6. key(w) = RowKey(e, x, side)
    BY <1>7, <1>8, <2>3
  <2> HIDE DEF w
  <2> QED BY <1>6, <2>5, <2>6
<1>9. ASSUME NEW k \in DOMAIN rows
      PROVE  \E x \in InputsOfChain(e) :
                  /\ SettlesEarlier(e, x) /\ x[1][1] - 1 = n
                  /\ \E side \in {"sender", "receiver"} : k = RowKey(e, x, side)
                  /\ rows[k].lock = PrevOf(e, x) /\ rows[k].outcome = OutcomeOf(e, x)
  <2> DEFINE W == {v \in Written(b, full) : key(v) = k}
             w == CHOOSE v \in W : \A y \in W \ {v} : WrittenBefore(b, y, v)
  <2>1. W # {} /\ W \subseteq BlockSpends(b) \X {"sender", "receiver"}
    BY <1>6 DEF Written
  <2>2. rows[k] = SettlementRow(w[1].out, Peeked(full, w[1]), w[2])
    BY <1>6
  <2>3. \E v \in W : \A y \in W \ {v} : WrittenBefore(b, y, v)
    <3> HIDE DEF W
    <3> QED BY <1>1, <2>1, LastWriterExists
  <2>4. w \in W
    <3> HIDE DEF W
    <3> QED BY <2>3
  <2> HIDE DEF w
  <2>5. w \in Written(b, full) /\ key(w) = k
    BY <2>4
  <2>6. w[1] \in BlockSpends(b) /\ w[1].out \in DOMAIN full
    BY <2>5 DEF Written
  <2>7. PICK x \in InputsOfChain(e) : x[1][1] = n + 1 /\ w[1] = SpendAt(e, x)
    BY <1>4, <2>6
  <2>8. x[1][1] > n /\ x[1][1] - 1 = n
    BY <1>1, <2>7
  <2>9. w[1].out = PrevOf(e, x) /\ PrevOf(e, x) \in DOMAIN full
    BY <2>6, <2>7 DEF SpendAt
  <2>10. /\ IsHtlc(PrevOf(e, x))
         /\ \A side : SettlementKey(full, w[1], side, n) = RowKey(e, x, side)
         /\ \A side : /\ SettlementRow(w[1].out, Peeked(full, w[1]), side).lock = PrevOf(e, x)
                       /\ SettlementRow(w[1].out, Peeked(full, w[1]), side).outcome
                            = OutcomeOf(e, x)
    BY <1>7, <2>7, <2>8, <2>9
  <2>11. w[2] \in {"sender", "receiver"} /\ k = RowKey(e, x, w[2])
    BY <2>5, <2>10 DEF Written
  <2>12. SettlesEarlier(e, x)
    BY <1>2, <1>3, <2>8, <2>9, <2>10 DEF SettlesEarlier
  <2> QED BY <2>2, <2>8, <2>10, <2>11, <2>12
<1> QED BY <1>8, <1>9 DEF rows, b

LEMMA ApplySettlements ==
  ASSUME NEW e \in Histories, ValidChain(e), Len(e) # 0, NEW n, n = Len(e) - 1,
         NEW d, d.htlc.full = RefHtlcs(Stem(e, n)),
         SettlementsFit(d.settlement.byContract, Stem(e, n))
  PROVE  SettlementsFit(ApplyBlockEvents(d, BlockEvents(d, e, n, {})).settlement.byContract, e)
<1> DEFINE c == Stem(e, n)
           old == d.settlement.byContract
           new == BlockSettlements(BodyOf(e), n, d.htlc.full)
           both == ApplyBlockEvents(d, BlockEvents(d, e, n, {})).settlement.byContract
<1>1. n \in 0 .. Len(e) /\ n \in Nat
  BY LastBlock
<1>2. both = Insert(old, new)
  <2>1. PeekHtlcs(d.htlc.full, {}) = d.htlc.full
    <3> DEFINE S == {o \in OutpointsIn(c) : IsHtlc(o)}
    <3>1. d.htlc.full = [o \in S |-> RefHtlcRecord(c, o)]
      BY DEF RefHtlcs
    <3> HIDE DEF S, c
    <3> QED BY <3>1 DEF PeekHtlcs, Keep
  <2> QED BY <2>1 DEF ApplyBlockEvents, BlockEvents, WriteSettlements
<1>3. /\ \A x \in InputsOfChain(e) : x[1][1] > n /\ SettlesEarlier(e, x) =>
           \A side \in {"sender", "receiver"} : RowKey(e, x, side) \in DOMAIN new
      /\ \A k \in DOMAIN new : \E x \in InputsOfChain(e) :
           /\ SettlesEarlier(e, x) /\ x[1][1] - 1 = n
           /\ \E side \in {"sender", "receiver"} : k = RowKey(e, x, side)
           /\ new[k].lock = PrevOf(e, x) /\ new[k].outcome = OutcomeOf(e, x)
  BY LastSettlements
<1>4. SettlementsFit(old, c)
  OBVIOUS
<1>5. /\ InputsOfChain(c) = {x \in InputsOfChain(e) : x[1][1] <= n}
      /\ \A x \in InputsOfChain(e) : x[1][1] \in Nat
  BY <1>1, StemInputs, InputPlace
<1>6. \A x \in InputsOfChain(c) :
        /\ PrevOf(c, x) = PrevOf(e, x) /\ OutcomeOf(c, x) = OutcomeOf(e, x)
        /\ SettlesEarlier(c, x) <=> SettlesEarlier(e, x)
        /\ \A side : RowKey(c, x, side) = RowKey(e, x, side)
  BY <1>1, StemSettles
<1> HIDE DEF c, old, new, both
<1>7. /\ DOMAIN both = DOMAIN old \cup DOMAIN new
      /\ \A k \in DOMAIN new : both[k] = new[k]
      /\ \A k \in DOMAIN old \ DOMAIN new : both[k] = old[k]
  BY <1>2 DEF Insert
<1>8. ASSUME NEW x \in InputsOfChain(e), SettlesEarlier(e, x),
             NEW side \in {"sender", "receiver"}
      PROVE  RowKey(e, x, side) \in DOMAIN both
  <2>1. CASE x[1][1] > n
    BY <1>3, <1>7, <1>8, <2>1
  <2>2. CASE ~(x[1][1] > n)
    <3>1. x \in InputsOfChain(c)
      BY <1>1, <1>5, <2>2
    <3>2. RowKey(c, x, side) \in DOMAIN old
      BY <1>4, <1>6, <1>8, <3>1 DEF SettlementsFit
    <3> QED BY <1>6, <1>7, <3>1, <3>2
  <2> QED BY <2>1, <2>2
<1>9. ASSUME NEW k \in DOMAIN both
      PROVE  \E x \in InputsOfChain(e) :
                /\ SettlesEarlier(e, x)
                /\ \E side \in {"sender", "receiver"} : k = RowKey(e, x, side)
                /\ both[k].lock = PrevOf(e, x) /\ both[k].outcome = OutcomeOf(e, x)
  <2>1. CASE k \in DOMAIN new
    BY <1>3, <1>7, <2>1
  <2>2. CASE k \in DOMAIN old \ DOMAIN new
    <3>1. PICK x \in InputsOfChain(c) :
            /\ SettlesEarlier(c, x)
            /\ \E side \in {"sender", "receiver"} : k = RowKey(c, x, side)
            /\ old[k].lock = PrevOf(c, x) /\ old[k].outcome = OutcomeOf(c, x)
      BY <1>4, <2>2 DEF SettlementsFit
    <3>2. x \in InputsOfChain(e) /\ both[k] = old[k]
      BY <1>5, <1>7, <2>2, <3>1
    <3> QED BY <1>6, <3>1, <3>2
  <2> QED BY <1>7, <2>1, <2>2
<1>10. SettlementsFit(both, e)
  BY <1>8, <1>9 DEF SettlementsFit
<1> QED BY <1>10 DEF both

LEMMA WipeSettlements ==
  ASSUME NEW e \in Histories, ValidChain(e), NEW n \in 0 .. Len(e),
         NEW d, SettlementsFit(d.settlement.byContract, e)
  PROVE  SettlementsFit(WipeAbove(d, n - 1).settlement.byContract, Stem(e, n))
<1> DEFINE c == Stem(e, n)
           old == d.settlement.byContract
           rest == WipeAbove(d, n - 1).settlement.byContract
<1>1. n \in Nat
  BY LenProperties DEF Histories
<1>2. /\ DOMAIN rest = {k \in DOMAIN old : k[2] <= n - 1}
      /\ \A k \in DOMAIN rest : rest[k] = old[k]
  BY DEF WipeAbove, WipeSettlementsAbove, Keep
<1>3. /\ InputsOfChain(c) = {x \in InputsOfChain(e) : x[1][1] <= n}
      /\ \A x \in InputsOfChain(e) : x[1][1] \in Nat
  BY StemInputs, InputPlace
<1>4. \A x \in InputsOfChain(c) :
        /\ PrevOf(c, x) = PrevOf(e, x) /\ OutcomeOf(c, x) = OutcomeOf(e, x)
        /\ SettlesEarlier(c, x) <=> SettlesEarlier(e, x)
        /\ \A side : RowKey(c, x, side) = RowKey(e, x, side)
  BY StemSettles
<1>5. SettlementsFit(old, e)
  OBVIOUS
<1> HIDE DEF c, old, rest
<1>6. ASSUME NEW x \in InputsOfChain(c), SettlesEarlier(c, x),
             NEW side \in {"sender", "receiver"}
      PROVE  RowKey(c, x, side) \in DOMAIN rest
  <2>1. RowKey(e, x, side) \in DOMAIN old
    BY <1>3, <1>4, <1>5, <1>6 DEF SettlementsFit
  <2>2. x[1][1] - 1 <= n - 1
    BY <1>1, <1>3
  <2>3. RowKey(e, x, side)[2] = x[1][1] - 1
    BY DEF RowKey
  <2> QED BY <1>2, <1>4, <2>1, <2>2, <2>3
<1>7. ASSUME NEW k \in DOMAIN rest
      PROVE  \E x \in InputsOfChain(c) :
                /\ SettlesEarlier(c, x)
                /\ \E side \in {"sender", "receiver"} : k = RowKey(c, x, side)
                /\ rest[k].lock = PrevOf(c, x) /\ rest[k].outcome = OutcomeOf(c, x)
  <2>1. k \in DOMAIN old /\ k[2] <= n - 1 /\ rest[k] = old[k]
    BY <1>2
  <2>2. PICK x \in InputsOfChain(e) :
            /\ SettlesEarlier(e, x)
            /\ \E side \in {"sender", "receiver"} : k = RowKey(e, x, side)
            /\ old[k].lock = PrevOf(e, x) /\ old[k].outcome = OutcomeOf(e, x)
    BY <1>5, <2>1 DEF SettlementsFit
  <2>3. x[1][1] <= n
    <3>1. x[1][1] - 1 <= n - 1
      BY <2>1, <2>2 DEF RowKey
    <3> QED BY <1>1, <1>3, <3>1
  <2>4. x \in InputsOfChain(c)
    BY <1>3, <2>3
  <2> QED BY <1>4, <2>1, <2>2, <2>4
<1>8. SettlementsFit(rest, c)
  BY <1>6, <1>7 DEF SettlementsFit
<1> QED BY <1>8 DEF rest, c

SettlementInv == SettlementsFit(db.settlement.byContract, CurrentId)

LEMMA SettlementInit == Init => SettlementInv
<1> SUFFICES ASSUME Init PROVE SettlementInv
  OBVIOUS
<1>1. CurrentId = <<>> /\ DOMAIN db.settlement.byContract = {}
  BY DEF Init, TickInit, MetaDefault, ZeroId, CurrentId, EmptyDb, EmptyTable
<1>2. InputsOfChain(<<>>) = {}
  <2>1. Positions(<<>>) = {}
    BY DEF Positions
  <2> QED BY <2>1 DEF InputsOfChain
<1> QED BY <1>1, <1>2 DEF SettlementInv, SettlementsFit

LEMMA SettlementNext ==
  ASSUME ~StopInRewind, ~PeekFails, IInv, OneChain, OneBack, IndexInv, SettlementInv,
         [Next]_vars
  PROVE  SettlementInv'
<1> USE DEF IInv
<1>1. CASE WipeTables
  <2> DEFINE n == Len(meta.id) - 1
  <2>1. /\ n \in 0 .. Len(meta.id) /\ m.last = n - 1 /\ meta.id \in Histories
        /\ m.id = Stem(meta.id, n) /\ CurrentId = meta.id /\ CurrentId' = m.id
        /\ ValidChain(meta.id)
    BY <1>1, WipeSteps DEF WipeTables, OneBack, IndexInv, CleanInv, Stem
  <2> HIDE DEF n
  <2>2. SettlementsFit(WipeAbove(db, n - 1).settlement.byContract, Stem(meta.id, n))
    BY <2>1, WipeSettlements DEF SettlementInv
  <2>3. db' = WipeAbove(db, n - 1)
    BY <1>1, <2>1 DEF WipeTables
  <2> QED BY <2>1, <2>2, <2>3 DEF SettlementInv
<1>2. CASE ApplyToTables
  <2>1. /\ got \in Histories /\ Len(got) # 0 /\ h = Len(got) - 1
        /\ CurrentId = Stem(got, h) /\ CurrentId' = got /\ ValidChain(got)
    BY <1>2, ApplySteps, CleanApply DEF ApplyToTables, IndexInv, Stem
  <2>2. /\ SettlementsFit(db.settlement.byContract, Stem(got, h))
        /\ db.htlc.full = RefHtlcs(Stem(got, h))
    BY <2>1, IndexParts DEF SettlementInv, IndexInv
  <2>3. SettlementsFit(
          ApplyBlockEvents(db, BlockEvents(db, got, h, {})).settlement.byContract, got)
    BY <2>1, <2>2, ApplySettlements
  <2>4. db' = ApplyBlockEvents(db, BlockEvents(db, got, h, {}))
    BY <1>2 DEF ApplyToTables, Unread
  <2> QED BY <2>1, <2>3, <2>4 DEF SettlementInv
<1>3. CASE LeaveTables
  BY <1>3, LeaveKeepsCurrent DEF LeaveTables, SettlementInv
<1>4. CASE UNCHANGED vars
  BY <1>4 DEF vars, SettlementInv, CurrentId
<1> QED BY <1>1, <1>2, <1>3, <1>4 DEF Next

LEMMA SettlementsTell ==
  ASSUME IInv, OneChain, IndexInv, SettlementInv
  PROVE  SettlementsTellTheHtlcs
<1> DEFINE c == CurrentId
           full == db.htlc.full
           rows == db.settlement.byContract
<1>1. c \in Histories /\ ValidChain(c) /\ full = RefHtlcs(c) /\ SettlementsFit(rows, c)
  BY PromiseHolds, ViewIsCurrent, IndexParts DEF PromiseState, IndexInv, SettlementInv
<1>2. /\ DOMAIN full = {o \in OutpointsIn(c) : IsHtlc(o)}
      /\ \A o \in DOMAIN full : full[o] = RefHtlcRecord(c, o)
  BY <1>1 DEF RefHtlcs
<1> HIDE DEF c
\* A spent HTLC is settled at its spend's height, by the spend's arm.
<1>3. ASSUME NEW o, IsHtlc(o), NEW x \in SpendersOf(c, o)
      PROVE  /\ o \in DOMAIN full /\ full[o].state = OutcomeOf(c, x)
             /\ SettledAt(full[o]) = x[1][1] - 1
             /\ full[o].lockHeight = HeightIn(c, o[1])
             /\ full[o].params = Out(o).script
  <2>1. o \in OutpointsIn(c) /\ InputArm(TxAt(c, x[1]), x[2]) \in {"claim", "reclaim"}
    BY <1>1, <1>3, SpentWasThere
  <2>2. full[o] = SettledRecord(LockRecord(o, HeightIn(c, o[1])), SpendAt(c, x), x[1][1] - 1)
    BY <1>1, <1>2, <1>3, <2>1, RefHtlcSettled
  <2>3. CASE InputArm(TxAt(c, x[1]), x[2]) = "claim"
    BY <1>2, <1>3, <2>1, <2>2, <2>3
    DEF SettledRecord, LockRecord, SpendAt, SettledAt, OutcomeOf
  <2>4. CASE InputArm(TxAt(c, x[1]), x[2]) = "reclaim"
    BY <1>2, <1>3, <2>1, <2>2, <2>4
    DEF SettledRecord, LockRecord, SpendAt, SettledAt, OutcomeOf
  <2> QED BY <2>1, <2>3, <2>4
\* Its parties are those its script names, whatever the record's state.
<1>4. ASSUME NEW o, IsHtlc(o), NEW x \in SpendersOf(c, o), NEW side
      PROVE  /\ Party(full[o], side) = RowKey(c, x, side)[1]
             /\ RowKey(c, x, side)[2] = SettledAt(full[o])
             /\ RowKey(c, x, side)[3] = o[1]
  <2>1. full[o].params = Out(o).script /\ SettledAt(full[o]) = x[1][1] - 1 /\ PrevOf(c, x) = o
    BY <1>3, <1>4 DEF SpendersOf
  <2>2. Party(full[o], side) = Party(LockRecord(o, 0), side)
    BY <2>1 DEF Party, LockRecord
  <2> QED BY <2>1, <2>2 DEF RowKey
\* A spend of a later block than the lock's settles the HTLC later.
<1>5. ASSUME NEW x \in InputsOfChain(c), SettlesEarlier(c, x)
      PROVE  /\ IsHtlc(PrevOf(c, x)) /\ x \in SpendersOf(c, PrevOf(c, x))
             /\ PrevOf(c, x) \in SettledLater
  <2> DEFINE o == PrevOf(c, x)
  <2>1. IsHtlc(o) /\ x \in SpendersOf(c, o) /\ HeightIn(c, o[1]) < x[1][1] - 1
    BY <1>5 DEF SettlesEarlier, SpendersOf
  <2> HIDE DEF o
  <2>2. /\ o \in DOMAIN full /\ full[o].state = OutcomeOf(c, x)
        /\ SettledAt(full[o]) = x[1][1] - 1 /\ full[o].lockHeight = HeightIn(c, o[1])
    BY <1>3, <2>1
  <2>3. HeightIn(c, o[1]) \in Nat /\ x[1][1] \in Nat
    <3>1. o \in OutpointsIn(c)
      BY <1>2, <2>2
    <3> QED BY <1>1, <1>5, <3>1, InputPlace, StemOutpoints, LenProperties DEF Histories
  <2>4. full[o].state \in Settled /\ SettledAt(full[o]) > full[o].lockHeight
    BY <2>1, <2>2, <2>3 DEF OutcomeOf, Settled
  <2> QED BY <2>1, <2>2, <2>4 DEF SettledLater, o
\* And an HTLC settled later has such a spend.
<1>6. ASSUME NEW o \in SettledLater
      PROVE  \E x \in InputsOfChain(c) : PrevOf(c, x) = o /\ SettlesEarlier(c, x)
  <2>1. /\ IsHtlc(o) /\ full[o] = RefHtlcRecord(c, o) /\ o \in DOMAIN full
        /\ full[o].state \in Settled /\ SettledAt(full[o]) > full[o].lockHeight
    BY <1>2 DEF SettledLater
  <2>2. SpendersOf(c, o) # {}
    BY <2>1, RefHtlcOpen DEF LockRecord, Settled
  <2>3. PICK x \in SpendersOf(c, o) : TRUE
    BY <2>2
  <2>4. x \in InputsOfChain(c) /\ PrevOf(c, x) = o
    BY DEF SpendersOf
  <2>5. SettledAt(full[o]) = x[1][1] - 1 /\ full[o].lockHeight = HeightIn(c, o[1])
    BY <1>3, <2>1
  <2>6. HeightIn(c, o[1]) \in Nat /\ x[1][1] \in Nat
    <3>1. o \in OutpointsIn(c)
      BY <1>2, <2>1
    <3> QED BY <1>1, <2>3, <3>1, SpentWasThere, StemOutpoints, LenProperties DEF Histories
  <2>7. SettlesEarlier(c, x)
    BY <2>1, <2>4, <2>5, <2>6 DEF SettlesEarlier
  <2> QED BY <2>4, <2>7
\* What a row says of the HTLC it is of.
<1>7. ASSUME NEW k \in DOMAIN rows
      PROVE  \E p \in SettledLater :
               /\ rows[k].lock = p /\ TellsOf(k, p) /\ k[1] \in Parties(full[p])
               /\ k[3] = p[1]
  <2>1. PICK x \in InputsOfChain(c) :
          /\ SettlesEarlier(c, x)
          /\ \E side \in {"sender", "receiver"} : k = RowKey(c, x, side)
          /\ rows[k].lock = PrevOf(c, x) /\ rows[k].outcome = OutcomeOf(c, x)
    BY <1>1 DEF SettlementsFit
  <2>2. PICK side \in {"sender", "receiver"} : k = RowKey(c, x, side)
    BY <2>1
  <2> DEFINE p == PrevOf(c, x)
  <2>3. IsHtlc(p) /\ x \in SpendersOf(c, p) /\ p \in SettledLater
    BY <1>5, <2>1
  <2>4. full[p].state = OutcomeOf(c, x)
    BY <1>3, <2>3
  <2>5. k[1] = Party(full[p], side) /\ k[2] = SettledAt(full[p]) /\ k[3] = p[1]
    BY <1>4, <2>2, <2>3
  <2>6. rows[k].lock = p /\ rows[k].outcome = OutcomeOf(c, x)
    BY <2>1
  <2> HIDE DEF p
  <2>7. TellsOf(k, p)
    BY <2>4, <2>5, <2>6 DEF TellsOf
  <2>8. k[1] \in Parties(full[p])
    BY <2>5 DEF Parties
  <2> QED BY <2>3, <2>5, <2>6, <2>7, <2>8
<1>8. ASSUME NEW o \in SettledLater, NEW a \in Parties(full[o])
      PROVE  \E k \in DOMAIN rows :
               /\ k[1] = a
               /\ TellsOf(k, o) \/ \E p \in SettledLater : MeetFor(a, o, p) /\ TellsOf(k, p)
  <2>1. PICK side \in {"sender", "receiver"} : a = Party(full[o], side)
    BY DEF Parties
  <2>2. PICK x \in InputsOfChain(c) : PrevOf(c, x) = o /\ SettlesEarlier(c, x)
    BY <1>6
  <2>3. IsHtlc(o) /\ x \in SpendersOf(c, o)
    BY <1>5, <2>2
  <2> DEFINE k == RowKey(c, x, side)
  <2>4. k \in DOMAIN rows
    BY <1>1, <2>2 DEF SettlementsFit
  <2>5. k[1] = a /\ k[2] = SettledAt(full[o]) /\ k[3] = o[1]
    BY <1>4, <2>1, <2>3
  <2> HIDE DEF k
  <2>6. PICK p \in SettledLater :
          TellsOf(k, p) /\ k[1] \in Parties(full[p]) /\ k[3] = p[1]
    BY <1>7, <2>4
  <2>7. p # o => MeetFor(a, o, p)
    BY <2>5, <2>6 DEF MeetFor, TellsOf
  <2> QED BY <2>4, <2>5, <2>6, <2>7
<1>9. ASSUME NEW k \in DOMAIN rows
      PROVE  LET o == rows[k].lock
             IN  o \in SettledLater /\ k[1] \in Parties(full[o]) /\ TellsOf(k, o)
  BY <1>7, <1>9
<1> QED BY <1>8, <1>9 DEF SettlementsTellTheHtlcs

\* In the same environment, and where no peek fails, the settlements a reader
\* finds are those of the HTLC records: an HTLC settled after the block of its
\* lock is listed for each party at the height it was settled, by a row of its
\* own or of another HTLC of its transaction that it meets under the key, and
\* every row listed is of an HTLC settled so, for one of its parties
\* (process_block writes the rows from the records before the block,
\* apply_block_events the records after it).
THEOREM SettlementsAlwaysTellTheHtlcs ==
  ASSUME ~MidTick, ~StopInRewind, MaxDepth <= 1, ReorgUntouched, ~PeekFails
  PROVE  Spec => []SettlementsTellTheHtlcs
<1>1. Init => SettlementInv
  BY SettlementInit
<1>2. IInv /\ OneChain /\ OneBack /\ IndexInv /\ SettlementInv /\ [Next]_vars
        => SettlementInv'
  BY SettlementNext
<1>3. IInv /\ OneChain /\ IndexInv /\ SettlementInv => SettlementsTellTheHtlcs
  BY SettlementsTell
<1> QED BY <1>1, <1>2, <1>3, AlwaysIndexes, PTL DEF Spec

(***************************************************************************)
(* A settlement stays with its block, in every environment: a rewind that  *)
(* keeps the block keeps the lock's, which is not above it, and a block    *)
(* that descends from it cannot carry the lock again.                      *)
(***************************************************************************)
SettledAfterLock(full) ==
  \A o \in DOMAIN full : full[o].state \in Settled =>
     SettledAt(full[o]) \in Nat /\ full[o].lockHeight <= SettledAt(full[o])

StayInv ==
  /\ ValidChain(chain)
  /\ pc = "apply" => ValidChain(got)
  /\ \A x \in DOMAIN db.blocks : Len(db.blocks[x]) = x + 1
  /\ SettledAfterLock(db.htlc.full)

LEMMA SettledRecordAt ==
  ASSUME NEW rec \in HtlcRecords, NEW s, NEW height
  PROVE  SettledAt(SettledRecord(rec, s, height)) = height
<1>1. CASE s.arm = "claim"
  BY <1>1 DEF SettledRecord, SettledAt, HtlcRecords
<1>2. CASE s.arm # "claim"
  BY <1>2 DEF SettledRecord, SettledAt, HtlcRecords
<1> QED BY <1>1, <1>2

\* What a block settles, it settles at its own height.
LEMMA ApplySettledAfterLock ==
  ASSUME NEW d, NEW ev, TablesOK(d), EventsOK(ev), ev.height \in Nat,
         SettledAfterLock(d.htlc.full),
         \A o \in DOMAIN d.htlc.full : d.htlc.full[o].lockHeight <= ev.height,
         \A o \in DOMAIN ev.locks : ev.locks[o].state \notin Settled
  PROVE  SettledAfterLock(ApplyBlockEvents(d, ev).htlc.full)
<1> DEFINE u == UpsertHtlcs(d.htlc, ev.locks)
           full == ApplyBlockEvents(d, ev).htlc.full
<1>1. /\ DOMAIN u.full = DOMAIN d.htlc.full \cup DOMAIN ev.locks
      /\ \A o \in DOMAIN ev.locks : u.full[o] = ev.locks[o]
      /\ \A o \in DOMAIN d.htlc.full \ DOMAIN ev.locks : u.full[o] = d.htlc.full[o]
  BY UpsertFull
<1>2. full = AdvanceHtlcs(u, ev.spends, ev.height).full
  BY DEF ApplyBlockEvents
<1> HIDE DEF u, full
<1>3. \A o \in DOMAIN u.full :
        /\ u.full[o] \in HtlcRecords /\ u.full[o].lockHeight <= ev.height
        /\ u.full[o].state \in Settled =>
             SettledAt(u.full[o]) \in Nat /\ u.full[o].lockHeight <= SettledAt(u.full[o])
  BY <1>1 DEF SettledAfterLock, TablesOK, EventsOK
<1>4. /\ DOMAIN full = DOMAIN u.full
      /\ \A o \in DOMAIN full :
           \/ full[o] = u.full[o]
           \/ \E s \in ev.spends :
                s.out = o /\ full[o] = SettledRecord(u.full[o], s, ev.height)
  BY <1>2, AdvanceFull
<1>5. ASSUME NEW o \in DOMAIN full, full[o].state \in Settled
      PROVE  SettledAt(full[o]) \in Nat /\ full[o].lockHeight <= SettledAt(full[o])
  <2>1. CASE full[o] = u.full[o]
    BY <1>3, <1>4, <1>5, <2>1
  <2>2. ASSUME NEW s \in ev.spends, full[o] = SettledRecord(u.full[o], s, ev.height)
        PROVE  SettledAt(full[o]) = ev.height /\ full[o].lockHeight <= ev.height
    <3>1. SettledAt(full[o]) = ev.height
      BY <1>3, <1>4, <2>2, SettledRecordAt
    <3>2. full[o].lockHeight = u.full[o].lockHeight
      BY <1>3, <1>4, <2>2, SettledRecordType DEF EventsOK
    <3> QED BY <1>3, <1>4, <3>1, <3>2
  <2> QED BY <1>4, <2>1, <2>2
<1> QED BY <1>5 DEF SettledAfterLock, full

LEMMA StayInit == Init => StayInv
<1> SUFFICES ASSUME Init PROVE StayInv
  OBVIOUS
<1>1. chain = <<Genesis>> /\ pc = "sleep" /\ db = EmptyDb
  BY DEF Init, TickInit, InitNode
<1>2. DOMAIN EmptyTable = {}
  BY DEF EmptyTable
<1> HIDE DEF EmptyTable
<1> QED BY <1>1, <1>2, ConsensusAssumption DEF StayInv, SettledAfterLock, EmptyDb

\* The tables of an apply.
LEMMA StayApply ==
  ASSUME IInv, StayInv, ApplyToTables
  PROVE  /\ \A x \in DOMAIN db'.blocks : Len(db'.blocks[x]) = x + 1
         /\ SettledAfterLock(db'.htlc.full)
<1>0. PICK unread \in Unread : db' = ApplyBlockEvents(db, BlockEvents(db, got, h, unread))
  BY DEF ApplyToTables
<1> DEFINE ev == BlockEvents(db, got, h, unread)
<1>1. got \in Histories /\ h \in Nat /\ HeightOf(got) = h /\ HeightOf(meta.id) = h - 1
  BY NextHeight DEF ApplyToTables, ApplyBlock, IInv, TickInv, TickTypeOK
<1>2. Len(got) = h + 1 /\ Len(got) # 0
  <2>1. Len(got) \in Nat
    BY <1>1, LenProperties DEF Histories
  <2> QED BY <1>1, <2>1 DEF HeightOf
<1>3. EventsOK(ev) /\ ev.height = h
  BY <1>1, <1>2, BlockEventsOK DEF IInv
<1>4. \A o \in DOMAIN ev.locks : ev.locks[o].state \notin Settled
  <2>1. ev.locks = BlockLocks(BodyOf(got), h)
    BY DEF BlockEvents
  <2> HIDE DEF ev
  <2> QED BY <2>1 DEF BlockLocks, LockRecord, Settled
<1>5. \A o \in DOMAIN db.htlc.full : db.htlc.full[o].lockHeight <= ev.height
  <2>1. \A o \in DOMAIN db.htlc.full :
          db.htlc.full[o].lockHeight \in Nat /\ db.htlc.full[o].lockHeight <= h - 1
    BY <1>1 DEF IInv, NothingAboveCheckpoint, RowsUpTo, TablesOK, HtlcRecords
  <2> HIDE DEF ev
  <2> QED BY <1>1, <1>3, <2>1
<1>6. SettledAfterLock(db'.htlc.full)
  <2> HIDE DEF ev
  <2>1. SettledAfterLock(ApplyBlockEvents(db, ev).htlc.full)
    BY <1>1, <1>3, <1>4, <1>5, ApplySettledAfterLock DEF IInv, StayInv
  <2> QED BY <1>0, <2>1 DEF ev
<1>7. \A x \in DOMAIN db'.blocks : Len(db'.blocks[x]) = x + 1
  BY <1>2, ApplyListsBlock DEF StayInv
<1> QED BY <1>6, <1>7

LEMMA StayNext == IInv /\ StayInv /\ [Next]_vars => StayInv'
<1> SUFFICES ASSUME IInv, StayInv, [Next]_vars PROVE StayInv'
  OBVIOUS
<1>1. ValidChain(chain')
  <2>1. CASE NodeStep
    BY <2>1 DEF NodeStep, NodeMoves, Mine, Reorg, ValidChains
  <2>2. CASE ~NodeStep
    <3>1. chain' = chain
      BY <2>2 DEF Next, vars, WipeTables, ApplyToTables, ApplyBlock, LeaveTables, QuietStep,
                  Wipe, ReadTip, CheckReorg, FindAncestor, SaveReorg, CaughtUp, EnterLoop,
                  FetchBlock, BlockMissing, AbortTick
    <3> QED BY <3>1 DEF StayInv
  <2> QED BY <2>1, <2>2
<1>2. ASSUME pc' = "apply"
      PROVE  ValidChain(got')
  <2>1. CASE FetchBlock
    <3>1. got' = Stem(chain, h + 1) /\ h <= HeightOfChain(chain) /\ chain \in Histories
      BY <2>1 DEF FetchBlock, NodeHas, BlockIdAt, Stem, IInv, TickInv, TickTypeOK
    <3>2. Len(chain) \in Nat /\ h \in Nat
      BY <3>1, LenProperties, NodeAssumption
      DEF Histories, IInv, TickInv, TickTypeOK, Heights
    <3>3. h + 1 \in 0 .. Len(chain)
      BY <3>1, <3>2 DEF HeightOfChain
    <3> QED BY <3>1, <3>3, StemValid DEF StayInv
  <2>2. CASE ~FetchBlock
    <3>1. pc = "apply" /\ got' = got
      BY <1>2, <2>2 DEF Next, vars, local, WipeTables, ApplyToTables, ApplyBlock, LeaveTables,
                  QuietStep, Wipe, ReadTip, CheckReorg, FindAncestor, SaveReorg, CaughtUp,
                  EnterLoop, BlockMissing, AbortTick, NodeStep, AtRest
    <3> QED BY <3>1 DEF StayInv
  <2> QED BY <2>1, <2>2
<1>3. /\ \A x \in DOMAIN db'.blocks : Len(db'.blocks[x]) = x + 1
      /\ SettledAfterLock(db'.htlc.full)
  <2>1. CASE WipeTables
    <3>1. db' = WipeAbove(db, m.last)
      BY <2>1 DEF WipeTables
    <3> QED BY <3>1, WipeSubtables DEF StayInv, SettledAfterLock
  <2>2. CASE ApplyToTables
    BY <2>2, StayApply
  <2>3. CASE db' = db
    BY <2>3 DEF StayInv
  <2> QED BY <2>1, <2>2, <2>3 DEF Next, LeaveTables, vars
<1> QED BY <1>1, <1>2, <1>3 DEF StayInv

\* The highest listed block is the view; its height is its own.
TopBlock(blocks) == CHOOSE x \in DOMAIN blocks : \A y \in DOMAIN blocks : y <= x

LEMMA ViewIsListed ==
  ASSUME NEW blocks, DOMAIN blocks \subseteq Nat, NEW n \in Nat,
         \A x \in DOMAIN blocks : x <= n,
         \A x \in DOMAIN blocks : Len(blocks[x]) = x + 1,
         NEW v, v = IF DOMAIN blocks = {} THEN <<>> ELSE blocks[TopBlock(blocks)],
         NEW k \in Nat, k <= HeightOfChain(v)
  PROVE  HeightOfChain(v) \in DOMAIN blocks
<1>1. DOMAIN blocks # {}
  <2> SUFFICES ASSUME DOMAIN blocks = {} PROVE FALSE
    OBVIOUS
  <2>1. Len(v) = 0
    BY EmptySeq
  <2> QED BY <2>1 DEF HeightOfChain
<1>2. TopBlock(blocks) \in DOMAIN blocks
  <2>1. \E x \in DOMAIN blocks : \A y \in DOMAIN blocks : y <= x
    BY <1>1, Greatest
  <2> QED BY <2>1 DEF TopBlock
<1>3. v = blocks[TopBlock(blocks)]
  BY <1>1
<1>4. HeightOfChain(v) = TopBlock(blocks)
  BY <1>2, <1>3 DEF HeightOfChain
<1> QED BY <1>2, <1>4

\* The lock of what a block of a valid chain spends is not in a later block.
LEMMA SpentIsNotLocked ==
  ASSUME NEW e \in Histories, ValidChain(e), Len(e) # 0,
         NEW k \in 1 .. Len(e) - 1, NEW s \in BlockSpends(e[k])
  PROVE  s.out \notin LockedIn(BodyOf(e))
<1>1. /\ DOMAIN e = 1 .. Len(e) /\ Len(e) \in Nat /\ k \in DOMAIN e /\ Len(e) \in DOMAIN e
      /\ k < Len(e)
  BY LenProperties DEF Histories
<1>2. PICK t \in TxsIn(e[k]) : s \in SpendsOf(t)
  BY DEF BlockSpends
<1>3. PICK v \in Inputs(t) : s.out = Body[t].ins[v].prev
  BY <1>2 DEF SpendsOf
<1>4. PICK i \in DOMAIN e[k] : t = e[k][i]
  BY DEF TxsIn
<1> DEFINE x == <<<<k, i>>, v>>
<1>5. <<k, i>> \in Positions(e) /\ TxAt(e, <<k, i>>) = t
  BY <1>1, <1>4 DEF Positions, TxAt
<1>6. x \in InputsOfChain(e) /\ PrevOf(e, x) = s.out /\ x[1] = <<k, i>>
  BY <1>3, <1>5 DEF InputsOfChain, PrevOf
<1> HIDE DEF x
<1>7. PICK p \in Positions(e) : Earlier(p, x[1]) /\ PrevOf(e, x) \in OutpointsOf(TxAt(e, p))
  BY <1>6 DEF ValidChain
<1>8. p[1] < Len(e)
  <2>1. p[1] \in Nat /\ p[1] <= k
    BY <1>1, <1>6, <1>7, PositionBlock DEF Earlier
  <2> QED BY <1>1, <2>1
<1>9. s.out[1] = TxAt(e, p)
  BY <1>6, <1>7 DEF OutpointsOf
<1> SUFFICES ASSUME s.out \in LockedIn(BodyOf(e)) PROVE FALSE
  OBVIOUS
<1>10. PICK u \in TxsIn(e[Len(e)]) : s.out \in OutpointsOf(u)
  BY DEF LockedIn, BodyOf
<1>11. PICK j \in DOMAIN e[Len(e)] : u = e[Len(e)][j]
  BY DEF TxsIn
<1>12. <<Len(e), j>> \in Positions(e) /\ TxAt(e, <<Len(e), j>>) = u
  BY <1>1, <1>11 DEF Positions, TxAt
<1>13. u = TxAt(e, p)
  BY <1>9, <1>10 DEF OutpointsOf
<1>14. p = <<Len(e), j>>
  BY <1>12, <1>13 DEF ValidChain
<1> QED BY <1>1, <1>8, <1>14

LEMMA StepKeepsSettled ==
  ASSUME IInv, StayInv, IInv', StayInv', [Next]_vars, NEW o \in DOMAIN db.htlc.full,
         db.htlc.full[o].state \in Settled, SettlementListed(o, db.htlc.full[o]),
         SettledAt(db.htlc.full[o]) <= HeightOfChain(View'),
         BlockIdAt(View', SettledAt(db.htlc.full[o])) = db.blocks[SettledAt(db.htlc.full[o])]
  PROVE  o \in DOMAIN db'.htlc.full /\ db'.htlc.full[o] = db.htlc.full[o]
<1> DEFINE rec == db.htlc.full[o]
           at == SettledAt(rec)
<1>1. /\ at \in Nat /\ rec.lockHeight <= at /\ rec.lockHeight \in Nat
      /\ at \in DOMAIN db.blocks
  BY DEF StayInv, SettledAfterLock, SettlementListed, IInv, TablesOK, HtlcRecords
<1>2. CASE WipeTables
  <2>1. db' = WipeAbove(db, m.last) /\ m.last \in Nat
    BY <1>2, NodeAssumption DEF WipeTables, IInv, TickInv, TickTypeOK, Metas, Heights
  <2>2. DOMAIN db'.blocks = {x \in DOMAIN db.blocks : x <= m.last}
    BY <2>1, WipeSubtables
  <2>3. HeightOfChain(View') \in DOMAIN db'.blocks
    <3>1. DOMAIN db'.blocks \subseteq Nat /\ \A x \in DOMAIN db'.blocks : x <= m.last
      BY <2>2 DEF IInv, TablesOK
    <3>2. \A x \in DOMAIN db'.blocks : Len(db'.blocks[x]) = x + 1
      BY DEF StayInv
    <3>3. View' = IF DOMAIN db'.blocks = {} THEN <<>> ELSE db'.blocks[TopBlock(db'.blocks)]
      BY DEF View, TopBlock
    <3>4. at <= HeightOfChain(View')
      OBVIOUS
    <3> HIDE DEF at
    <3> QED BY <1>1, <2>1, <3>1, <3>2, <3>3, <3>4, ViewIsListed
  <2>4. at <= m.last
    <3>1. HeightOfChain(View') \in Nat /\ HeightOfChain(View') <= m.last
      BY <2>2, <2>3 DEF IInv, TablesOK
    <3> QED BY <1>1, <2>1, <3>1
  <2>5. ~(rec.lockHeight > m.last)
    BY <1>1, <2>1, <2>4
  <2> QED BY <2>1, <2>5, WipeSubtables
<1>3. CASE ApplyToTables
  <2>0. PICK unread \in Unread : db' = ApplyBlockEvents(db, BlockEvents(db, got, h, unread))
    BY <1>3 DEF ApplyToTables
  <2>1. /\ got \in Histories /\ h \in Nat /\ HeightOf(got) = h /\ HeightOf(meta.id) = h - 1
        /\ ValidChain(got) /\ Len(got) \in Nat /\ Len(got) = h + 1
    <3>1. /\ got \in Histories /\ h \in Nat /\ HeightOf(got) = h /\ HeightOf(meta.id) = h - 1
          /\ ValidChain(got)
      BY <1>3, NextHeight DEF ApplyToTables, ApplyBlock, IInv, TickInv, TickTypeOK, StayInv
    <3>2. Len(got) \in Nat
      BY <3>1, LenProperties DEF Histories
    <3> QED BY <3>1, <3>2 DEF HeightOf
  <2>2. /\ DOMAIN db'.blocks = DOMAIN db.blocks \cup {h} /\ db'.blocks[h] = got
        /\ h \notin DOMAIN db.blocks
        /\ \A x \in DOMAIN db.blocks : x \in Nat /\ x < h
    <3>1. \A x \in DOMAIN db.blocks : x \in Nat /\ x <= h - 1
      BY <2>1 DEF IInv, NothingAboveCheckpoint, RowsUpTo, TablesOK
    <3> QED BY <1>3, <2>1, <3>1, ApplyListsBlock
  <2>3. View' = got
    <3>1. (CHOOSE x \in DOMAIN db'.blocks : \A y \in DOMAIN db'.blocks : y <= x) = h
      <4> DEFINE S == DOMAIN db'.blocks
      <4>1. h \in S /\ \A y \in S : y \in Nat /\ y <= h
        BY <2>1, <2>2
      <4> HIDE DEF S
      <4>2. \A x \in S : (\A y \in S : y <= x) => x = h
        BY <2>1, <4>1
      <4>3. (CHOOSE x \in S : \A y \in S : y <= x) = h
        BY <4>1, <4>2
      <4> QED BY <4>3 DEF S
    <3>2. DOMAIN db'.blocks # {}
      BY <2>2
    <3> QED BY <2>2, <3>1, <3>2 DEF View
  <2>4. at + 1 \in 1 .. Len(got) - 1
    BY <1>1, <2>1, <2>2
  <2>5. BodyOf(db.blocks[at]) = got[at + 1]
    <3>1. db.blocks[at] = Stem(got, at + 1)
      BY <2>3 DEF BlockIdAt, Stem
    <3>2. at + 1 \in 0 .. Len(got) /\ at + 1 \in 1 .. at + 1
      BY <1>1, <2>1, <2>4
    <3>3. Len(Stem(got, at + 1)) = at + 1 /\ Stem(got, at + 1)[at + 1] = got[at + 1]
      BY <2>1, <3>2, StemBlocks
    <3> QED BY <3>1, <3>3 DEF BodyOf
  <2>6. PICK s \in BlockSpends(BodyOf(db.blocks[at])) : s.out = o
    BY DEF SettlementListed
  <2>7. o \notin LockedIn(BodyOf(got))
    BY <2>1, <2>4, <2>5, <2>6, SpentIsNotLocked
  <2> DEFINE ev == BlockEvents(db, got, h, unread)
  <2>8. o \notin DOMAIN ev.locks
    BY <2>7 DEF BlockEvents, BlockLocks
  <2> HIDE DEF ev
  <2>9. /\ o \in DOMAIN ApplyBlockEvents(db, ev).htlc.full
        /\ ApplyBlockEvents(db, ev).htlc.full[o] = db.htlc.full[o]
    BY <2>8, ApplyKeepsSettled
  <2> QED BY <2>0, <2>9 DEF ev
<1>4. CASE db' = db
  BY <1>4
<1> QED BY <1>2, <1>3, <1>4 DEF Next, LeaveTables, vars

\* Whatever the node does, wherever ticks stop and whatever a peek fails to read,
\* a settled record stays as it is for as long as the block that settled it is
\* listed and the highest listed block descends from it.
THEOREM SettlementAlwaysStaysWithItsBlock == Spec => SettlementStaysWithItsBlock
<1>1. Init => StayInv
  BY StayInit
<1>2. IInv /\ StayInv /\ [Next]_vars => StayInv'
  BY StayNext
<1>3. IInv /\ StayInv /\ IInv' /\ StayInv' /\ [Next]_vars =>
        (\A o \in DOMAIN db.htlc.full :
           LET rec == db.htlc.full[o]
           IN  /\ rec.state \in Settled
               /\ SettlementListed(o, rec)
               /\ SettledAt(rec) <= HeightOfChain(View')
               /\ BlockIdAt(View', SettledAt(rec)) = db.blocks[SettledAt(rec)]
               => o \in DOMAIN db'.htlc.full /\ db'.htlc.full[o] = rec)
  BY StepKeepsSettled
<1> QED BY <1>1, <1>2, <1>3, Invariant, PTL DEF Spec, SettlementStaysWithItsBlock
=============================================================================
