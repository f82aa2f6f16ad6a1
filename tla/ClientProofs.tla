---------------------------- MODULE ClientProofs ---------------------------
(***************************************************************************)
(* What clients may rely on, for every world of transactions: the pages of *)
(* a walk, whatever the follower does between two of them; and the answers *)
(* to a POST.                                                              *)
(***************************************************************************)
EXTENDS ApiSafety, ReadersSafety, IndexProofs, FiniteSetTheorems

(***************************************************************************)
(* The order of a listing.                                                 *)
(***************************************************************************)
Places == Int \X Int \X Int
Marks(q) == IF q.method = "htlc_list" THEN Places ELSE Int \X Int

LEMMA LessOfThree ==
  ASSUME NEW a \in Places, NEW b \in Places
  PROVE  LexLess(a, b) <=>
           \/ a[1] < b[1]
           \/ a[1] = b[1] /\ a[2] < b[2]
           \/ a[1] = b[1] /\ a[2] = b[2] /\ a[3] < b[3]
<1>1. DOMAIN a = {1, 2, 3}
  BY DEF Places
<1>2. 1 .. 1 - 1 = {} /\ 1 .. 2 - 1 = {1} /\ 1 .. 3 - 1 = {1, 2}
  OBVIOUS
<1> QED BY <1>1, <1>2 DEF LexLess

LEMMA LessOfTwo ==
  ASSUME NEW a \in Int \X Int, NEW b \in Int \X Int
  PROVE  LexLess(a, b) <=> a[1] < b[1] \/ (a[1] = b[1] /\ a[2] < b[2])
<1>1. DOMAIN a = {1, 2}
  OBVIOUS
<1>2. 1 .. 1 - 1 = {} /\ 1 .. 2 - 1 = {1}
  OBVIOUS
<1> QED BY <1>1, <1>2 DEF LexLess

LEMMA MarkOf ==
  ASSUME NEW q, NEW r \in Places
  PROVE  /\ q.method = "htlc_list" => Mark(q, r) = r
         /\ q.method # "htlc_list" => Mark(q, r) = <<r[1], r[2]>>
         /\ Mark(q, r) \in Marks(q)
<1>1. r = <<r[1], r[2], r[3]>> /\ r[1] \in Int /\ r[2] \in Int /\ r[3] \in Int
  BY DEF Places
<1>2. <<r[1], r[2], r[3]>> \in Seq(Int) /\ Len(<<r[1], r[2], r[3]>>) = 3
  BY <1>1
<1>3. CASE q.method = "htlc_list"
  <2>1. SubSeq(r, 1, 3) = r
    <3>1. SubSeq(<<r[1], r[2], r[3]>>, 1, 3) = <<r[1], r[2], r[3]>>
      BY <1>2, SubSeqFull
    <3> QED BY <1>1, <3>1
  <2> QED BY <1>3, <2>1 DEF Mark, CursorWidth, Marks
<1>4. CASE q.method # "htlc_list"
  <2>1. SubSeq(r, 1, 2) = <<r[1], r[2]>>
    <3> DEFINE cut == SubSeq(r, 1, 2)
    <3>1. \A i \in 1 .. 2 : r[i] \in Int
      BY <1>1
    <3>2. /\ cut \in Seq(Int)
          /\ Len(cut) = IF 1 <= 2 THEN 2 - 1 + 1 ELSE 0
          /\ \A i \in 1 .. 2 - 1 + 1 : cut[i] = r[1 + i - 1]
      BY <3>1, SubSeqProperties
    <3>3. Len(cut) = 2 /\ cut[1] = r[1] /\ cut[2] = r[2]
      BY <3>2
    <3>4. <<r[1], r[2]>> \in Seq(Int) /\ Len(<<r[1], r[2]>>) = 2
      BY <1>1
    <3> HIDE DEF cut
    <3>5. \A i \in 1 .. Len(cut) : cut[i] = <<r[1], r[2]>>[i]
      BY <3>3
    <3>6. cut = <<r[1], r[2]>>
      BY <3>2, <3>3, <3>4, <3>5, SeqEqual
    <3> QED BY <3>6 DEF cut
  <2> QED BY <1>1, <1>4, <2>1 DEF Mark, CursorWidth, Marks
<1> QED BY <1>3, <1>4

\* Marks are in a strict total order.
LEMMA MarkOrder ==
  ASSUME NEW q, NEW a \in Marks(q), NEW b \in Marks(q), NEW c \in Marks(q)
  PROVE  /\ ~MarkLess(q, a, a)
         /\ MarkLess(q, a, b) /\ MarkLess(q, b, c) => MarkLess(q, a, c)
         /\ a = b \/ MarkLess(q, a, b) \/ MarkLess(q, b, a)
<1>1. CASE q.method = "htlc_list"
  <2>1. \A x, y \in {a, b, c} :
          /\ x \in Places /\ y \in Places
          /\ LexLess(x, y) <=>
               \/ x[1] < y[1]
               \/ x[1] = y[1] /\ x[2] < y[2]
               \/ x[1] = y[1] /\ x[2] = y[2] /\ x[3] < y[3]
    BY <1>1, LessOfThree DEF Marks
  <2>2. \A x \in {a, b, c} : x = <<x[1], x[2], x[3]>> /\ x[1] \in Int /\ x[2] \in Int /\ x[3] \in Int
    BY <2>1 DEF Places
  <2> QED BY <2>1, <2>2 DEF MarkLess
<1>2. CASE q.method # "htlc_list"
  <2>1. \A x, y \in {a, b, c} :
          /\ x \in Int \X Int /\ y \in Int \X Int
          /\ LexLess(x, y) <=> x[1] < y[1] \/ (x[1] = y[1] /\ x[2] < y[2])
    BY <1>2, LessOfTwo DEF Marks
  <2>2. \A x \in {a, b, c} : x = <<x[1], x[2]>> /\ x[1] \in Int /\ x[2] \in Int
    BY <2>1
  <2> QED BY <2>1, <2>2 DEF MarkLess
<1> QED BY <1>1, <1>2

\* So are the rows.
LEMMA RowOrder ==
  ASSUME NEW q, NEW r \in Places, NEW s \in Places, NEW t \in Places
  PROVE  /\ ~RowLess(q, r, r)
         /\ RowLess(q, r, s) /\ RowLess(q, s, t) => RowLess(q, r, t)
         /\ r = s \/ RowLess(q, r, s) \/ RowLess(q, s, r)
<1> DEFINE M(x) == Mark(q, x)
<1>1. \A x \in {r, s, t} : M(x) \in Marks(q)
  BY MarkOf
<1>2. \A x, y, z \in {r, s, t} :
        /\ ~MarkLess(q, M(x), M(x))
        /\ MarkLess(q, M(x), M(y)) /\ MarkLess(q, M(y), M(z)) => MarkLess(q, M(x), M(z))
        /\ M(x) = M(y) \/ MarkLess(q, M(x), M(y)) \/ MarkLess(q, M(y), M(x))
  BY <1>1, MarkOrder
<1>3. \A x, y, z \in {r, s, t} :
        /\ ~LexLess(x, x)
        /\ LexLess(x, y) /\ LexLess(y, z) => LexLess(x, z)
        /\ x = y \/ LexLess(x, y) \/ LexLess(y, x)
  <2>1. \A x, y \in {r, s, t} :
          LexLess(x, y) <=>
               \/ x[1] < y[1]
               \/ x[1] = y[1] /\ x[2] < y[2]
               \/ x[1] = y[1] /\ x[2] = y[2] /\ x[3] < y[3]
    BY LessOfThree
  <2>2. \A x \in {r, s, t} : x = <<x[1], x[2], x[3]>> /\ x[1] \in Int /\ x[2] \in Int /\ x[3] \in Int
    BY DEF Places
  <2> QED BY <2>1, <2>2
<1> HIDE DEF M
<1>4. \A x, y \in {r, s, t} :
        RowLess(q, x, y) <=> MarkLess(q, M(x), M(y)) \/ (M(x) = M(y) /\ LexLess(x, y))
  BY DEF RowLess, M
<1> QED BY <1>2, <1>3, <1>4

(***************************************************************************)
(* The first rows of a listing.  A row's rank is the number of rows before *)
(* it; ranks are the numbers below the number of rows, so a page has as    *)
(* many rows as it has room for, and no row it leaves comes before one it  *)
(* shows.                                                                  *)
(***************************************************************************)
Below(S, q, r) == {s \in S : RowLess(q, s, r)}

LEMMA Ranks ==
  ASSUME NEW q, NEW S \in SUBSET Places, IsFiniteSet(S), NEW r \in S, NEW s \in S
  PROVE  /\ Cardinality(Below(S, q, r)) \in Nat
         /\ Cardinality(Below(S, q, r)) < Cardinality(S)
         /\ RowLess(q, r, s) => Cardinality(Below(S, q, r)) < Cardinality(Below(S, q, s))
<1>1. \A x \in S : IsFiniteSet(Below(S, q, x)) /\ Cardinality(Below(S, q, x)) \in Nat
  BY FS_Subset, FS_CardinalityType DEF Below
<1>2. Cardinality(S) \in Nat
  BY FS_CardinalityType
<1>3. Below(S, q, r) \in SUBSET S /\ r \notin Below(S, q, r)
  BY RowOrder DEF Below
<1>4. Cardinality(Below(S, q, r)) < Cardinality(S)
  BY <1>1, <1>2, <1>3, FS_Subset
<1>5. ASSUME RowLess(q, r, s)
      PROVE  Cardinality(Below(S, q, r)) < Cardinality(Below(S, q, s))
  <2>1. Below(S, q, r) \in SUBSET Below(S, q, s)
    BY <1>5, RowOrder DEF Below
  <2>2. r \in Below(S, q, s)
    BY <1>5 DEF Below
  <2> QED BY <1>1, <1>3, <2>1, <2>2, FS_Subset
<1> QED BY <1>1, <1>4, <1>5

LEMMA LastExists ==
  ASSUME NEW q, NEW S \in SUBSET Places, IsFiniteSet(S), S # {}
  PROVE  LastRow(S, q) \in S /\ \A s \in S \ {LastRow(S, q)} : RowLess(q, s, LastRow(S, q))
<1> DEFINE T == {Cardinality(Below(S, q, r)) : r \in S}
<1>1. Cardinality(S) \in Nat
  BY FS_CardinalityType
<1>2. \A r \in S : Cardinality(Below(S, q, r)) \in Nat /\ Cardinality(Below(S, q, r)) < Cardinality(S)
  BY Ranks
<1>3. T \in SUBSET Nat /\ T # {} /\ \A x \in T : x <= Cardinality(S)
  BY <1>1, <1>2
<1> HIDE DEF T
<1>4. PICK x \in T : \A y \in T : y <= x
  BY <1>1, <1>3, Greatest
<1>5. PICK r \in S : x = Cardinality(Below(S, q, r))
  BY <1>4 DEF T
<1>6. \A s \in S \ {r} : RowLess(q, s, r)
  <2> SUFFICES ASSUME NEW s \in S \ {r}, ~RowLess(q, s, r) PROVE FALSE
    OBVIOUS
  <2>1. RowLess(q, r, s)
    BY RowOrder
  <2>2. x < Cardinality(Below(S, q, s))
    BY <1>5, <2>1, Ranks
  <2>3. Cardinality(Below(S, q, s)) \in T
    BY DEF T
  <2> QED BY <1>2, <1>4, <1>5, <2>2, <2>3
<1> QED BY <1>6 DEF LastRow

LEMMA PageOf ==
  ASSUME NEW q, q.limit \in Nat, NEW S \in SUBSET Places, IsFiniteSet(S)
  PROVE  /\ Page(S, q) \subseteq S
         /\ IsFiniteSet(Page(S, q))
         /\ \A p \in Page(S, q), r \in S \ Page(S, q) : RowLess(q, p, r)
         /\ Cardinality(S) <= q.limit => Page(S, q) = S
         /\ Cardinality(S) > q.limit => Cardinality(Page(S, q)) = q.limit
<1> DEFINE n == Cardinality(S)
           P == Page(S, q)
           rank == [r \in S |-> Cardinality(Below(S, q, r))]
<1>1. n \in Nat
  BY FS_CardinalityType
<1>2. \A r \in S : rank[r] \in 0 .. n - 1
  <2>1. \A r \in S : rank[r] \in Nat /\ rank[r] < n
    BY Ranks
  <2> HIDE DEF rank, n
  <2> QED BY <1>1, <2>1
<1>3. \A r, s \in S : RowLess(q, r, s) => rank[r] < rank[s]
  BY Ranks
<1>4. \A r, s \in S : r = s \/ RowLess(q, r, s) \/ RowLess(q, s, r)
  BY RowOrder
<1>5. P = {r \in S : rank[r] < q.limit}
  BY DEF Page, Below
<1>6. DOMAIN rank = S /\ rank = [r \in S |-> rank[r]]
  OBVIOUS
<1> HIDE DEF rank, P, n
<1>7. P \in SUBSET S /\ IsFiniteSet(P)
  BY <1>5, FS_Subset
<1>8. \A p \in P, r \in S \ P : RowLess(q, p, r)
  BY <1>1, <1>2, <1>3, <1>4, <1>5
<1>9. n <= q.limit => P = S
  BY <1>1, <1>2, <1>5
<1>10. ASSUME n > q.limit PROVE Cardinality(P) = q.limit
  <2>1. rank \in Injection(S, 0 .. n - 1)
    <3>1. rank \in [S -> 0 .. n - 1]
      BY <1>2, <1>6
    <3>2. \A r, s \in S : rank[r] = rank[s] => r = s
      BY <1>1, <1>2, <1>3, <1>4
    <3> QED BY <3>1, <3>2 DEF Injection, IsInjective
  <2>2. IsFiniteSet(0 .. n - 1) /\ Cardinality(0 .. n - 1) = n
    BY <1>1, FS_Interval
  <2>3. rank \in Surjection(S, 0 .. n - 1)
    BY <2>1, <2>2, FS_Injection DEF n
  <2> DEFINE g == [r \in P |-> rank[r]]
  <2>4. g \in Bijection(P, 0 .. q.limit - 1)
    <3>1. g \in [P -> 0 .. q.limit - 1]
      BY <1>1, <1>2, <1>5
    <3>2. \A r, s \in P : g[r] = g[s] => r = s
      BY <1>1, <1>2, <1>3, <1>4, <1>5
    <3>3. \A x \in 0 .. q.limit - 1 : \E r \in P : g[r] = x
      <4> SUFFICES ASSUME NEW x \in 0 .. q.limit - 1 PROVE \E r \in P : g[r] = x
        OBVIOUS
      <4>1. x \in 0 .. n - 1 /\ x < q.limit
        BY <1>1, <1>10
      <4>2. PICK r \in S : rank[r] = x
        BY <2>3, <4>1 DEF Surjection
      <4> QED BY <1>5, <4>1, <4>2
    <3> QED BY <3>1, <3>2, <3>3 DEF Bijection, Injection, Surjection, IsInjective
  <2>5. Cardinality(0 .. q.limit - 1) = q.limit
    BY FS_Interval
  <2>6. ExistsBijection(P, 0 .. q.limit - 1)
    BY <2>4 DEF ExistsBijection
  <2> QED BY <1>7, <2>5, <2>6, FS_Bijection
<1> QED BY <1>7, <1>8, <1>9, <1>10 DEF P, n

\* A page's cursor is the mark of one of its rows, that no row of the page is past
\* and every row it leaves is past or has as its own; and there is none when the
\* page is the rest.
LEMMA NextOf ==
  ASSUME NEW q, q.limit \in Nat, NEW S \in SUBSET Places, IsFiniteSet(S),
         q.limit > 0 \/ S = {}, NEW n, n = NextCursor(S, q)
  PROVE  \/ n = None /\ Page(S, q) = S
         \/ /\ Cardinality(Page(S, q)) = q.limit
            /\ \E last \in Page(S, q) : n = Mark(q, last)
            /\ n \in Marks(q)
            /\ \A p \in Page(S, q) : ~MarkLess(q, n, Mark(q, p))
            /\ \A r \in S \ Page(S, q) : n = Mark(q, r) \/ MarkLess(q, n, Mark(q, r))
<1>1. Cardinality(S) \in Nat
  BY FS_CardinalityType
<1>2. CASE Cardinality(S) <= q.limit
  BY <1>1, <1>2, PageOf DEF NextCursor
<1>3. CASE Cardinality(S) > q.limit
  <2> DEFINE P == Page(S, q)
             last == LastRow(P, q)
  <2>1. /\ P \in SUBSET S /\ P \in SUBSET Places /\ IsFiniteSet(P) /\ Cardinality(P) = q.limit
        /\ \A p \in P, r \in S \ P : RowLess(q, p, r)
    BY <1>3, PageOf
  <2>2. q.limit > 0
    BY <1>3, FS_EmptySet
  <2>3. P # {}
    BY <2>1, <2>2, FS_EmptySet
  <2>4. n = Mark(q, last)
    BY <1>3 DEF NextCursor
  <2> HIDE DEF P
  <2>5. last \in P /\ \A s \in P \ {last} : RowLess(q, s, last)
    BY <2>1, <2>3, LastExists
  <2> HIDE DEF last
  <2>6. \A x \in S : Mark(q, x) \in Marks(q)
    BY MarkOf
  <2>7. \A p \in P : ~MarkLess(q, n, Mark(q, p))
    <3> SUFFICES ASSUME NEW p \in P PROVE ~MarkLess(q, n, Mark(q, p))
      OBVIOUS
    <3>1. p = last \/ RowLess(q, p, last)
      BY <2>5
    <3>2. Mark(q, p) = n \/ MarkLess(q, Mark(q, p), n)
      BY <2>4, <3>1 DEF RowLess
    <3>3. Mark(q, p) \in Marks(q) /\ n \in Marks(q)
      BY <2>1, <2>4, <2>5, <2>6
    <3> QED BY <3>2, <3>3, MarkOrder
  <2>8. \A r \in S \ P : n = Mark(q, r) \/ MarkLess(q, n, Mark(q, r))
    BY <2>1, <2>4, <2>5 DEF RowLess
  <2> QED BY <2>1, <2>4, <2>5, <2>6, <2>7, <2>8 DEF P
<1> QED BY <1>1, <1>2, <1>3

(***************************************************************************)
(* A listing's rows are places, and finitely many: ids and addresses are,  *)
(* and no row is above the checkpoint.                                     *)
(***************************************************************************)
LEMMA FiniteImage ==
  ASSUME NEW S, IsFiniteSet(S), NEW f
  PROVE  IsFiniteSet({f[x] : x \in S})
<1> DEFINE g == [x \in S |-> f[x]]
<1>1. g \in Surjection(S, {f[x] : x \in S})
  BY DEF Surjection
<1> QED BY <1>1, FS_Surjection

LEMMA FiniteOutpoints == IsFiniteSet(Outpoint)
<1> DEFINE f == [t \in Tx |-> OutpointsOf(t)]
<1>1. IsFiniteSet({f[t] : t \in Tx})
  <2> HIDE DEF f
  <2> QED BY QueriesAssumption, FiniteImage
<1>2. {f[t] : t \in Tx} = {OutpointsOf(t) : t \in Tx}
  OBVIOUS
<1>3. \A t \in Tx : IsFiniteSet(OutpointsOf(t))
  <2> SUFFICES ASSUME NEW t \in Tx PROVE IsFiniteSet(OutpointsOf(t))
    OBVIOUS
  <2>1. Len(Body[t].outs) \in Nat /\ DOMAIN Body[t].outs = 1 .. Len(Body[t].outs)
    BY ExtractAssumption, LenProperties
  <2>2. IsFiniteSet({t} \X (1 .. Len(Body[t].outs)))
    <3>1. 1 \in Int /\ Len(Body[t].outs) \in Int
      BY <2>1
    <3>2. IsFiniteSet(1 .. Len(Body[t].outs))
      BY <3>1, FS_Interval
    <3>3. IsFiniteSet({t})
      BY FS_Singleton
    <3> QED BY <3>2, <3>3, FS_Product
  <2>3. OutpointsOf(t) \in SUBSET ({t} \X (1 .. Len(Body[t].outs)))
    BY <2>1 DEF OutpointsOf
  <2> QED BY <2>2, <2>3, FS_Subset
<1> QED BY <1>1, <1>2, <1>3, FS_UNION DEF Outpoint

LEMMA FiniteTables ==
  ASSUME NEW d, TablesOK(d), NEW k \in Int, RowsUpTo(d, k)
  PROVE  /\ IsFiniteSet(DOMAIN d.htlc.full)
         /\ IsFiniteSet(DOMAIN d.settlement.byContract)
         /\ IsFiniteSet(DOMAIN d.activity)
<1>1. IsFiniteSet(DOMAIN d.htlc.full)
  BY FiniteOutpoints, FS_Subset DEF TablesOK
<1>2. IsFiniteSet(0 .. k)
  BY FS_Interval
<1>3. IsFiniteSet(DOMAIN d.settlement.byContract)
  <2>1. IsFiniteSet((Address \X (0 .. k)) \X Tx)
    BY <1>2, QueriesAssumption, FS_Product
  <2> DEFINE f == [x \in (Address \X (0 .. k)) \X Tx |-> <<x[1][1], x[1][2], x[2]>>]
  <2>2. IsFiniteSet({f[x] : x \in (Address \X (0 .. k)) \X Tx})
    <3> HIDE DEF f
    <3> QED BY <2>1, FiniteImage
  <2>3. DOMAIN d.settlement.byContract \in SUBSET {f[x] : x \in (Address \X (0 .. k)) \X Tx}
    <3> SUFFICES ASSUME NEW key \in DOMAIN d.settlement.byContract
                 PROVE  \E x \in (Address \X (0 .. k)) \X Tx : key = f[x]
      OBVIOUS
    <3>1. key \in SettlementKeys /\ key[2] <= k
      BY DEF TablesOK, RowsUpTo
    <3>2. /\ key = <<key[1], key[2], key[3]>> /\ key[1] \in Address
          /\ key[2] \in 0 .. k /\ key[3] \in Tx
      BY <3>1 DEF SettlementKeys
    <3>3. /\ <<<<key[1], key[2]>>, key[3]>> \in (Address \X (0 .. k)) \X Tx
          /\ f[<<<<key[1], key[2]>>, key[3]>>] = key
      BY <3>2
    <3> QED BY <3>3
  <2> QED BY <2>2, <2>3, FS_Subset
<1>4. IsFiniteSet(DOMAIN d.activity)
  <2> DEFINE D == ((Address \X (0 .. k)) \X Tx) \X {"in", "out"}
             f == [x \in D |-> <<x[1][1][1], x[1][1][2], x[1][2], x[2]>>]
  <2>1. IsFiniteSet(D)
    <3>1. IsFiniteSet({"in"} \cup {"out"}) /\ {"in"} \cup {"out"} = {"in", "out"}
      BY FS_Singleton, FS_Union
    <3> QED BY <1>2, <3>1, QueriesAssumption, FS_Product
  <2>2. IsFiniteSet({f[x] : x \in D})
    <3> HIDE DEF f, D
    <3> QED BY <2>1, FiniteImage
  <2>3. DOMAIN d.activity \in SUBSET {f[x] : x \in D}
    <3> SUFFICES ASSUME NEW key \in DOMAIN d.activity PROVE \E x \in D : key = f[x]
      OBVIOUS
    <3>1. key \in AllActivityKeys /\ key[2] <= k
      BY DEF TablesOK, RowsUpTo
    <3>2. /\ key = <<key[1], key[2], key[3], key[4]>> /\ key[1] \in Address
          /\ key[2] \in 0 .. k /\ key[3] \in Tx /\ key[4] \in {"in", "out"}
      BY <3>1 DEF AllActivityKeys
    <3>3. /\ <<<<<<key[1], key[2]>>, key[3]>>, key[4]>> \in D
          /\ f[<<<<<<key[1], key[2]>>, key[3]>>, key[4]>>] = key
      BY <3>2
    <3> QED BY <3>3
  <2> QED BY <2>2, <2>3, FS_Subset
<1> QED BY <1>1, <1>3, <1>4

LEMMA FiniteRows ==
  ASSUME NEW d, TablesOK(d), NEW k \in Int, RowsUpTo(d, k), NEW q
  PROVE  Rows(d, q) \in SUBSET Places /\ IsFiniteSet(Rows(d, q))
<1>1. ListedHtlcs(d, q) \in SUBSET Places /\ IsFiniteSet(ListedHtlcs(d, q))
  <2> DEFINE full == d.htlc.full
             S == {x \in HtlcsOf(d.htlc, q.address) : FilterMatches(full[x], q)}
             f == [o \in S |-> <<full[o].lockHeight, ByteOrder[o[1]], o[2]>>]
  <2>1. S \in SUBSET DOMAIN full
    BY DEF HtlcsOf
  <2>2. ListedHtlcs(d, q) = {f[o] : o \in S}
    BY DEF ListedHtlcs
  <2>3. \A o \in S : f[o] \in Places
    <3> SUFFICES ASSUME NEW o \in S PROVE f[o] \in Places
      OBVIOUS
    <3>1. full[o].lockHeight \in Nat
      BY <2>1 DEF TablesOK, HtlcRecords
    <3>2. PICK t \in Tx : o \in OutpointsOf(t)
      BY <2>1 DEF TablesOK, Outpoint
    <3>3. DOMAIN Body[t].outs \subseteq Nat
      BY ExtractAssumption, LenProperties
    <3>4. o[1] = t /\ o[2] \in Int
      BY <3>2, <3>3 DEF OutpointsOf
    <3>5. ByteOrder[o[1]] \in Int /\ full[o].lockHeight \in Int
      BY <3>1, <3>4, QueriesAssumption
    <3> QED BY <3>4, <3>5 DEF Places
  <2>4. IsFiniteSet(S)
    BY <2>1, FiniteTables, FS_Subset
  <2> HIDE DEF f, S
  <2>5. IsFiniteSet({f[o] : o \in S})
    BY <2>4, FiniteImage
  <2> QED BY <2>2, <2>3, <2>5
<1>2. ListedSettlements(d, q) \in SUBSET Places /\ IsFiniteSet(ListedSettlements(d, q))
  <2> DEFINE S == SettlementsOf(d, q)
             f == [x \in S |-> <<x[2], ByteOrder[x[3]], 0>>]
  <2>1. S \in SUBSET DOMAIN d.settlement.byContract
    BY DEF SettlementsOf
  <2>2. ListedSettlements(d, q) = {f[x] : x \in S}
    BY DEF ListedSettlements
  <2>3. \A x \in S : f[x] \in Places
    <3>1. \A x \in S : x[2] \in Int /\ x[3] \in Tx
      BY <2>1 DEF TablesOK, SettlementKeys
    <3> QED BY <3>1, QueriesAssumption DEF Places
  <2>4. IsFiniteSet(S)
    BY <2>1, FiniteTables, FS_Subset
  <2> HIDE DEF f, S
  <2>5. IsFiniteSet({f[x] : x \in S})
    BY <2>4, FiniteImage
  <2> QED BY <2>2, <2>3, <2>5
<1>3. ListedHistory(d, q) \in SUBSET Places /\ IsFiniteSet(ListedHistory(d, q))
  <2> DEFINE S == {x \in DOMAIN d.activity : x[1] = q.address /\ x[2] >= q.since}
             f == [x \in S |-> <<x[2], ByteOrder[x[3]], DirByte(x[4])>>]
  <2>1. S \in SUBSET DOMAIN d.activity
    OBVIOUS
  <2>2. ListedHistory(d, q) = {f[x] : x \in S}
    BY DEF ListedHistory
  <2>3. \A x \in S : f[x] \in Places
    <3>1. \A x \in S : x[2] \in Int /\ x[3] \in Tx /\ DirByte(x[4]) \in Int
      BY <2>1 DEF TablesOK, AllActivityKeys, DirByte
    <3> QED BY <3>1, QueriesAssumption DEF Places
  <2>4. IsFiniteSet(S)
    BY <2>1, FiniteTables, FS_Subset
  <2> HIDE DEF f, S
  <2>5. IsFiniteSet({f[x] : x \in S})
    BY <2>4, FiniteImage
  <2> QED BY <2>2, <2>3, <2>5
<1> QED BY <1>1, <1>2, <1>3 DEF Rows

(***************************************************************************)
(* A walk.  A row that was there all along has been met, or is past the    *)
(* cursor; a row that has been shown is not.                               *)
(***************************************************************************)
WalkFits(w, rows) ==
  /\ w = [query |-> w.query, cursor |-> w.cursor, seen |-> w.seen,
          stayed |-> w.stayed, over |-> w.over]
  /\ w.query \in Asked
  /\ w.cursor = None \/ w.cursor \in Marks(w.query)
  /\ w.seen \in SUBSET Places /\ IsFiniteSet(w.seen)
  /\ w.stayed \subseteq rows
  /\ \A r \in w.stayed :
       \/ \E s \in w.seen : Mark(w.query, s) = Mark(w.query, r)
       \/ ~w.over /\ r \in After(rows, w.query, w.cursor)
  /\ ~w.over /\ w.cursor = None => w.seen = {}
  /\ w.cursor # None => \A s \in w.seen : ~MarkLess(w.query, w.cursor, Mark(w.query, s))

LEMMA MarksAreNotNone ==
  ASSUME NEW q
  PROVE  None \notin Marks(q)
BY QueriesAssumption DEF Marks, Places

\* Reading a page keeps that, and a page that gives a cursor shows limit new rows.
LEMMA PageFits ==
  ASSUME NEW rows \in SUBSET Places, IsFiniteSet(rows),
         NEW w, WalkFits(w, rows), ~w.over,
         NEW q, q = w.query,
         NEW rest, rest = After(rows, q, w.cursor),
         q.limit > 0 \/ rest = {},
         NEW n, n = NextCursor(rest, q),
         NEW v, v = [query |-> q, cursor |-> n, seen |-> w.seen \cup Page(rest, q),
                     stayed |-> w.stayed, over |-> n = None]
  PROVE  /\ WalkFits(v, rows)
         /\ n # None => Cardinality(v.seen) = Cardinality(w.seen) + q.limit
<1>1. q.limit \in Nat
  BY AskedAssumption DEF WalkFits
<1>2. rest \in SUBSET rows /\ rest \in SUBSET Places /\ IsFiniteSet(rest)
  <2>1. rest \in SUBSET rows
    BY DEF After
  <2> QED BY <2>1, FS_Subset
<1>3. Page(rest, q) \subseteq rest /\ IsFiniteSet(Page(rest, q))
  BY <1>1, <1>2, PageOf
<1>4. None \notin Marks(q)
  BY MarksAreNotNone
<1>5. \/ n = None /\ Page(rest, q) = rest
      \/ /\ Cardinality(Page(rest, q)) = q.limit
         /\ \E last \in Page(rest, q) : n = Mark(q, last)
         /\ n \in Marks(q)
         /\ \A p \in Page(rest, q) : ~MarkLess(q, n, Mark(q, p))
         /\ \A r \in rest \ Page(rest, q) : n = Mark(q, r) \/ MarkLess(q, n, Mark(q, r))
  BY <1>1, <1>2, NextOf
<1>6. /\ v.query = q /\ v.cursor = n /\ v.seen = w.seen \cup Page(rest, q)
      /\ v.stayed = w.stayed /\ v.over = (n = None)
      /\ v = [query |-> v.query, cursor |-> v.cursor, seen |-> v.seen,
              stayed |-> v.stayed, over |-> v.over]
  OBVIOUS
<1>7. v.seen \in SUBSET Places /\ IsFiniteSet(v.seen)
  <2>1. v.seen \in SUBSET Places
    BY <1>2, <1>3, <1>6 DEF WalkFits
  <2> QED BY <1>3, <1>6, <2>1, FS_Union DEF WalkFits
<1>8. \A r \in w.stayed :
        \/ \E s \in w.seen : Mark(q, s) = Mark(q, r)
        \/ r \in rest
  BY DEF WalkFits
<1>9. \A r \in rows : r \in After(rows, q, n) <=> n = None \/ MarkLess(q, n, Mark(q, r))
  BY DEF After
<1>10. \A r \in v.stayed :
        \/ \E s \in v.seen : Mark(v.query, s) = Mark(v.query, r)
        \/ ~v.over /\ r \in After(rows, v.query, v.cursor)
  <2> SUFFICES ASSUME NEW r \in w.stayed, r \in rest, r \notin Page(rest, q)
               PROVE  \/ \E s \in v.seen : Mark(q, s) = Mark(q, r)
                      \/ n # None /\ r \in After(rows, q, n)
    BY <1>6, <1>8
  <2> QED BY <1>2, <1>4, <1>5, <1>6, <1>9
<1>11. ~v.over /\ v.cursor = None => v.seen = {}
  BY <1>6
<1>12. \A p \in Page(rest, q) : w.cursor = None \/ MarkLess(q, w.cursor, Mark(q, p))
  BY <1>3 DEF After
<1>13. ASSUME n # None, NEW s \in v.seen PROVE ~MarkLess(q, n, Mark(q, s))
  <2>1. CASE s \in Page(rest, q)
    BY <1>5, <1>13, <2>1
  <2>2. CASE s \in w.seen
    <3>1. w.cursor # None /\ w.cursor \in Marks(q) /\ ~MarkLess(q, w.cursor, Mark(q, s))
      BY <2>2 DEF WalkFits
    <3>2. PICK last \in Page(rest, q) : n = Mark(q, last)
      BY <1>5, <1>13
    <3>3. MarkLess(q, w.cursor, n)
      BY <1>12, <3>1, <3>2
    <3>4. Mark(q, s) \in Marks(q) /\ n \in Marks(q)
      BY <1>5, <1>7, <1>13, MarkOf
    <3> QED BY <3>1, <3>3, <3>4, MarkOrder
  <2> QED BY <1>6, <2>1, <2>2
<1>14. WalkFits(v, rows)
  <2>1. v.query \in Asked /\ v.stayed \subseteq rows
    BY <1>6 DEF WalkFits
  <2>2. v.cursor = None \/ v.cursor \in Marks(v.query)
    BY <1>5, <1>6
  <2> QED BY <1>6, <1>7, <1>10, <1>11, <1>13, <2>1, <2>2 DEF WalkFits
<1>15. ASSUME n # None PROVE Cardinality(v.seen) = Cardinality(w.seen) + q.limit
  <2>1. w.seen \cap Page(rest, q) = {}
    <3> SUFFICES ASSUME NEW s \in w.seen, s \in Page(rest, q) PROVE FALSE
      OBVIOUS
    <3> QED BY <1>12 DEF WalkFits
  <2>2. IsFiniteSet(w.seen) /\ Cardinality(w.seen) \in Nat
    BY FS_CardinalityType DEF WalkFits
  <2>3. Cardinality(w.seen \cup Page(rest, q))
          = Cardinality(w.seen) + Cardinality(Page(rest, q)) - Cardinality({})
    BY <1>3, <2>1, <2>2, FS_Union
  <2>4. Cardinality({}) = 0 /\ Cardinality(Page(rest, q)) = q.limit
    BY <1>5, <1>15, FS_EmptySet
  <2> QED BY <1>1, <1>6, <2>2, <2>3, <2>4
<1> QED BY <1>14, <1>15

(***************************************************************************)
(* The client beside the follower, in any environment.                     *)
(***************************************************************************)
WalkInv ==
  /\ IInv
  /\ walk = Idle \/ WalkFits(walk, Rows(db, walk.query))

LEMMA ListedRows ==
  ASSUME IInv, NEW q
  PROVE  Rows(db, q) \in SUBSET Places /\ IsFiniteSet(Rows(db, q))
<1>1. HeightOf(meta.id) \in Int
  BY LenProperties DEF IInv, TickInv, TickTypeOK, Metas, Histories, HeightOf
<1> QED BY <1>1, FiniteRows DEF IInv, NothingAboveCheckpoint

LEMMA AskFits ==
  ASSUME NEW q \in Asked, NEW rows, NEW w, w = [Idle EXCEPT !.query = q, !.stayed = rows]
  PROVE  WalkFits(w, rows)
<1>1. /\ w.query = q /\ w.cursor = None /\ w.seen = {} /\ w.stayed = rows /\ w.over = FALSE
      /\ w = [query |-> w.query, cursor |-> w.cursor, seen |-> w.seen,
              stayed |-> w.stayed, over |-> w.over]
  BY DEF Idle
<1>2. \A r \in rows : r \in After(rows, q, None)
  BY DEF After
<1> QED BY <1>1, <1>2, FS_EmptySet DEF WalkFits

\* Rows that go away are no longer to be met.
LEMMA RowsChangeFits ==
  ASSUME NEW w, NEW rows, WalkFits(w, rows), NEW new,
         NEW v, v = [w EXCEPT !.stayed = @ \cap new]
  PROVE  WalkFits(v, new)
<1>1. /\ v.query = w.query /\ v.cursor = w.cursor /\ v.seen = w.seen /\ v.over = w.over
      /\ v.stayed = w.stayed \cap new
      /\ v = [query |-> v.query, cursor |-> v.cursor, seen |-> v.seen,
              stayed |-> v.stayed, over |-> v.over]
  BY DEF WalkFits
<1>2. \A r \in rows \cap new :
        r \in After(rows, w.query, w.cursor) => r \in After(new, w.query, w.cursor)
  BY DEF After
<1> QED BY <1>1, <1>2 DEF WalkFits

LEMMA ReadPageStep ==
  ASSUME WalkInv, ReadPage
  PROVE  /\ walk # Idle /\ walk'.query = walk.query
         /\ WalkFits(walk', Rows(db, walk.query))
         /\ walk'.cursor # None =>
              Cardinality(walk'.seen) = Cardinality(walk.seen) + walk.query.limit
<1> DEFINE q == walk.query
           n == NextCursor(Rest, q)
<1>1. walk # Idle /\ ~walk.over /\ WalkFits(walk, Rows(db, q))
  BY DEF ReadPage, Walking, WalkInv
<1>2. Rows(db, q) \in SUBSET Places /\ IsFiniteSet(Rows(db, q))
  BY ListedRows DEF WalkInv
<1>3. Rest = After(Rows(db, q), q, walk.cursor) /\ (q.limit > 0 \/ Rest = {})
  BY DEF Rest, ReadPage
<1>4. walk' = [query |-> q, cursor |-> n, seen |-> walk.seen \cup Page(Rest, q),
               stayed |-> walk.stayed, over |-> n = None]
  <2>1. walk' = [walk EXCEPT !.cursor = n, !.seen = @ \cup Page(Rest, q), !.over = n = None]
    BY DEF ReadPage
  <2>2. walk = [query |-> walk.query, cursor |-> walk.cursor, seen |-> walk.seen,
                stayed |-> walk.stayed, over |-> walk.over]
    BY <1>1 DEF WalkFits
  <2> HIDE DEF n
  <2> QED BY <2>1, <2>2
<1>5. walk'.query = q /\ walk'.cursor = n
  BY <1>4
<1> HIDE DEF n, q
<1>6. /\ WalkFits(walk', Rows(db, q))
      /\ n # None => Cardinality(walk'.seen) = Cardinality(walk.seen) + q.limit
  BY <1>1, <1>2, <1>3, <1>4, PageFits DEF n, q
<1> QED BY <1>1, <1>5, <1>6 DEF q

LEMMA WalkStart == InitReaders => WalkInv
BY InitInv DEF InitReaders, WalkInv

LEMMA WalkStep == WalkInv /\ [ReadersNext]_readerVars => WalkInv'
<1> SUFFICES ASSUME WalkInv, [ReadersNext]_readerVars PROVE WalkInv'
  OBVIOUS
<1>1. IInv'
  <2>1. [Next]_vars
    BY DEF ReadersNext, readerVars, Ask, ReadPage, RefusePage, LeaveOff, FollowerMoves
  <2> QED BY <2>1, NextInv DEF WalkInv
<1>2. (walk = Idle \/ WalkFits(walk, Rows(db, walk.query)))'
  <2>1. CASE Ask
    <3>1. PICK q \in Asked : walk' = [Idle EXCEPT !.query = q, !.stayed = Rows(db, q)]
      BY <2>1 DEF Ask
    <3>2. WalkFits(walk', Rows(db, q)) /\ walk'.query = q
      BY <3>1, AskFits DEF Idle
    <3>3. db' = db
      BY <2>1 DEF Ask, vars
    <3> QED BY <3>2, <3>3
  <2>2. CASE ReadPage
    <3>1. db' = db
      BY <2>2 DEF ReadPage, vars
    <3> QED BY <2>2, <3>1, ReadPageStep
  <2>3. CASE RefusePage \/ LeaveOff
    BY <2>3 DEF RefusePage, LeaveOff
  <2>4. CASE FollowerMoves
    <3>1. CASE walk = Idle
      BY <2>4, <3>1 DEF FollowerMoves
    <3>2. CASE walk # Idle
      <4>1. walk' = [walk EXCEPT !.stayed = @ \cap Rows(db', walk.query)]
        BY <2>4, <3>2 DEF FollowerMoves
      <4>2. WalkFits(walk, Rows(db, walk.query))
        BY <3>2 DEF WalkInv
      <4>3. walk'.query = walk.query
        BY <4>1, <4>2 DEF WalkFits
      <4>4. WalkFits(walk', Rows(db', walk.query))
        BY <4>1, <4>2, RowsChangeFits
      <4> QED BY <4>3, <4>4
    <3> QED BY <3>1, <3>2
  <2>5. CASE UNCHANGED readerVars
    BY <2>5 DEF readerVars, vars, WalkInv
  <2> QED BY <2>1, <2>2, <2>3, <2>4, <2>5 DEF ReadersNext
<1> QED BY <1>1, <1>2 DEF WalkInv

\* Whatever the follower does between two pages, a walk over a listing that has
\* come to its end has shown every HTLC, settlement and transaction that was
\* listed all the time (list_htlcs, list_settlements, list_address_history and
\* their cursors), for every listing, page size and environment.
THEOREM WalksMeetEveryKey == ReadersSpec => []WalkMeetsEveryKey
<1>1. WalkInv => WalkMeetsEveryKey
  <2>1. Idle.over = FALSE
    BY DEF Idle
  <2> QED BY <2>1 DEF WalkInv, WalkFits, WalkMeetsEveryKey
<1> QED BY <1>1, WalkStart, WalkStep, PTL DEF ReadersSpec

\* And every page that gives a cursor shows as many rows as it has room for, none
\* of which the walk has shown before.
THEOREM PagesAreFull == ReadersSpec => FullPages
<1>1. WalkInv /\ [ReadersNext]_readerVars =>
        [walk.query = walk'.query /\ walk'.cursor # walk.cursor /\ walk'.cursor # None =>
           Cardinality(walk'.seen) = Cardinality(walk.seen) + walk.query.limit]_walk
  <2> SUFFICES ASSUME WalkInv, [ReadersNext]_readerVars,
                      walk'.cursor # walk.cursor, walk'.cursor # None
               PROVE  Cardinality(walk'.seen) = Cardinality(walk.seen) + walk.query.limit
    OBVIOUS
  <2>1. CASE ReadPage
    BY <2>1, ReadPageStep
  <2>2. CASE ~ReadPage
    <3>1. Idle.cursor = None /\ \A q, rows : [Idle EXCEPT !.query = q, !.stayed = rows].cursor = None
      BY DEF Idle
    <3>2. ~Ask /\ ~RefusePage /\ ~LeaveOff
      BY <3>1 DEF Ask, RefusePage, LeaveOff
    <3>3. CASE FollowerMoves
      <4>1. walk' = walk \/ walk' = [walk EXCEPT !.stayed = @ \cap Rows(db', walk.query)]
        BY <3>3 DEF FollowerMoves
      <4>2. walk # Idle => [walk EXCEPT !.stayed = @ \cap Rows(db', walk.query)].cursor = walk.cursor
        BY DEF WalkInv, WalkFits
      <4>3. walk = Idle => walk' = walk
        BY <3>3 DEF FollowerMoves
      <4> QED BY <4>1, <4>2, <4>3
    <3> QED BY <2>2, <3>2, <3>3 DEF ReadersNext, readerVars
  <2> QED BY <2>1, <2>2
<1> QED BY <1>1, WalkStart, WalkStep, PTL DEF ReadersSpec, FullPages

(***************************************************************************)
(* Statistics.  A settlement row tells of a claim or of a reclaim.         *)
(***************************************************************************)
OutcomesTold(rows) == \A k \in DOMAIN rows : rows[k].outcome \in Settled

OutcomeInv == WalkInv /\ OutcomesTold(db.settlement.byContract)

LEMMA OutcomesStart == InitReaders => OutcomeInv
<1> SUFFICES ASSUME InitReaders PROVE OutcomeInv
  OBVIOUS
<1>1. DOMAIN db.settlement.byContract = {}
  BY DEF InitReaders, Init, EmptyDb, EmptyTable
<1> QED BY <1>1, WalkStart DEF OutcomeInv, OutcomesTold

LEMMA OutcomesStep == OutcomeInv /\ [ReadersNext]_readerVars => OutcomeInv'
<1> SUFFICES ASSUME OutcomeInv, [ReadersNext]_readerVars PROVE OutcomeInv'
  OBVIOUS
<1>1. IInv /\ OutcomesTold(db.settlement.byContract) /\ WalkInv'
  BY WalkStep DEF OutcomeInv, WalkInv
<1>2. [Next]_vars
  BY DEF ReadersNext, readerVars, Ask, ReadPage, RefusePage, LeaveOff, FollowerMoves
<1>3. OutcomesTold(db'.settlement.byContract)
  <2>1. CASE WipeTables
    <3>1. db'.settlement.byContract =
            Keep(db.settlement.byContract, {x \in DOMAIN db.settlement.byContract : x[2] <= m.last})
      BY <2>1 DEF WipeTables, WipeAbove, WipeSettlementsAbove
    <3> QED BY <1>1, <3>1 DEF OutcomesTold, Keep
  <2>2. CASE ApplyToTables
    <3> DEFINE b == BodyOf(got)
               old == db.settlement.byContract
    <3>0. PICK unread \in Unread : db' = ApplyBlockEvents(db, BlockEvents(db, got, h, unread))
      BY <2>2 DEF ApplyToTables
    <3> DEFINE full == PeekHtlcs(db.htlc.full, unread)
               rows == BlockSettlements(b, h, full)
    <3>1. /\ pc = "apply" /\ db' = ApplyBlockEvents(db, BlockEvents(db, got, h, unread))
          /\ got \in Histories /\ HeightOf(got) = h /\ h \in Nat
      BY <1>1, <2>2, <3>0, NodeAssumption
         DEF ApplyToTables, ApplyBlock, IInv, TickInv, TickTypeOK, TickFitsCheckpoint, Heights
    <3>2. Len(got) # 0
      <4>1. Len(got) \in Nat
        BY <3>1, LenProperties DEF Histories
      <4> QED BY <3>1, <4>1 DEF HeightOf
    <3>3. b \in Seq(Tx)
      BY <3>1, <3>2, BodyOfType
    <3>4. \A o \in DOMAIN full : full[o] \in HtlcRecords
      BY <1>1 DEF IInv, TablesOK, PeekHtlcs, Keep
    <3>5. db'.settlement.byContract = Insert(old, rows)
      BY <3>1 DEF ApplyBlockEvents, BlockEvents, WriteSettlements
    <3> HIDE DEF b, old, full, rows
    <3>6. OutcomesTold(rows)
      BY <3>3, <3>4, BlockSettlementsTellSpends DEF OutcomesTold, Settled, rows
    <3>7. OutcomesTold(old)
      BY <1>1 DEF old
    <3> QED BY <3>5, <3>6, <3>7 DEF OutcomesTold, Insert
  <2>3. CASE db' = db
    BY <1>1, <2>3
  <2> QED BY <1>2, <2>1, <2>2, <2>3 DEF Next, LeaveTables, vars
<1> QED BY <1>1, <1>3 DEF OutcomeInv

\* The keys the aggregates count are those of the rows listed.
LEMMA MirroredAreListed ==
  ASSUME OutcomeInv, NEW a \in Address
  PROVE  /\ ListedOf(a) = Cardinality(MirroredOf(db, a))
         /\ MirroredOf(db, a) \subseteq DOMAIN db.settlement.byContract
         /\ IsFiniteSet(MirroredOf(db, a))
<1> DEFINE rows == db.settlement.byContract
           K == MirroredOf(db, a)
<1>1. IInv
  BY DEF OutcomeInv, WalkInv
<1>2. /\ db.settlement.byAddress = DOMAIN rows
      /\ DOMAIN rows \subseteq SettlementKeys
  BY <1>1 DEF IInv, MirrorsHold, TablesOK
<1>3. ListedOf(a) = Cardinality(K)
  <2>1. \A k \in DOMAIN rows : k[2] >= 0
    BY <1>2 DEF SettlementKeys
  <2>2. SettlementsOf(db, [method |-> "list_settlements", address |-> a, since |-> 0])
          = {k \in DOMAIN rows : k[1] = a /\ k[2] >= 0}
    BY DEF SettlementsOf
  <2>3. K = {k \in DOMAIN rows : k[1] = a}
    BY <1>2 DEF MirroredOf
  <2> QED BY <2>1, <2>2, <2>3 DEF ListedOf
<1>4. HeightOf(meta.id) \in Int
  BY <1>1, LenProperties DEF IInv, TickInv, TickTypeOK, Metas, Histories, HeightOf
<1>5. IsFiniteSet(DOMAIN rows)
  BY <1>1, <1>4, FiniteTables DEF IInv, NothingAboveCheckpoint
<1>6. K \in SUBSET DOMAIN rows
  BY DEF MirroredOf
<1> QED BY <1>3, <1>5, <1>6, FS_Subset

\* In every environment an address' statistics, which are counted through the
\* mirror table, are of exactly the settlements list_settlements lists for it, each
\* counted once as claimed or as reclaimed (contract_stats).
THEOREM StatsAlwaysCountListed == ReadersSpec => []StatsCountListed
<1>1. OutcomeInv => StatsCountListed
  <2> SUFFICES ASSUME OutcomeInv, NEW a \in Address, NEW s \in ContractStats(db, a)
               PROVE  s.total = ListedOf(a) /\ s.succeeded + s.refunded = ListedOf(a)
    BY DEF StatsCountListed
  <2> DEFINE rows == db.settlement.byContract
             K == MirroredOf(db, a)
             with(outcome) == {k \in K : rows[k].outcome = outcome}
  <2>1. s = Tally(db, K)
    BY DEF ContractStats
  <2>2. /\ s.total = Cardinality(K)
        /\ s.succeeded = Cardinality(with("Claimed"))
        /\ s.refunded = Cardinality(with("Reclaimed"))
    BY <2>1 DEF Tally
  <2>3. ListedOf(a) = Cardinality(K) /\ K \subseteq DOMAIN rows /\ IsFiniteSet(K)
    BY MirroredAreListed
  <2>4. /\ with("Claimed") \cup with("Reclaimed") = K
        /\ with("Claimed") \cap with("Reclaimed") = {}
    BY <2>3 DEF OutcomeInv, OutcomesTold, Settled
  <2> HIDE DEF K, rows
  <2>5. IsFiniteSet(with("Claimed")) /\ IsFiniteSet(with("Reclaimed"))
    BY <2>3, FS_Subset
  <2> HIDE DEF with
  <2>6. Cardinality(K) = Cardinality(with("Claimed")) + Cardinality(with("Reclaimed"))
                           - Cardinality({})
    BY <2>4, <2>5, FS_Union
  <2>7. /\ Cardinality(with("Claimed")) \in Nat /\ Cardinality(with("Reclaimed")) \in Nat
        /\ Cardinality({}) = 0
    BY <2>5, FS_CardinalityType, FS_EmptySet
  <2> QED BY <2>2, <2>3, <2>6, <2>7
<1> QED BY <1>1, OutcomesStart, OutcomesStep, PTL DEF ReadersSpec

(***************************************************************************)
(* Folds over finite sets.  The library's induction takes an operator, so  *)
(* induction is over a set of naturals here.                               *)
(***************************************************************************)
LEMMA AllNaturals ==
  ASSUME NEW X, 0 \in X, \A n \in Nat : n \in X => n + 1 \in X
  PROVE  \A n \in Nat : n \in X
<1> SUFFICES ASSUME NEW n \in Nat, n \notin X PROVE FALSE
  OBVIOUS
<1> DEFINE D == {i \in Nat : i \notin X}
<1>1. D \in SUBSET Nat /\ D # {}
  OBVIOUS
<1>2. PICK d \in D : \A e \in D : d <= e
  <2> HIDE DEF D
  <2> QED BY <1>1, Least
<1>3. d \in Nat /\ d \notin X /\ d # 0
  BY <1>2
<1>4. d - 1 \in Nat /\ d - 1 \notin D
  BY <1>2, <1>3
<1> QED BY <1>3, <1>4

\* The sum of e[x].total over the sets that are left.
SumStep(e, f, s) ==
  IF s = {} THEN 0
  ELSE e[CHOOSE x \in s : TRUE].total + f[s \ {CHOOSE x \in s : TRUE}]

Sums(e, S) == CHOOSE iter : iter = [s \in SUBSET S |-> SumStep(e, iter, s)]

LEMMA ChosenLeft ==
  ASSUME NEW S, IsFiniteSet(S), NEW s \in SUBSET S, s # {}, NEW x \in s
  PROVE  /\ s \ {x} \in SUBSET S /\ IsFiniteSet(s) /\ Cardinality(s) \in Nat
         /\ Cardinality(s \ {x}) \in Nat
         /\ Cardinality(s \ {x}) = Cardinality(s) - 1
<1>1. IsFiniteSet(s)
  BY FS_Subset
<1> QED BY <1>1, FS_RemoveElement, FS_CardinalityType

LEMMA SumsExist ==
  ASSUME NEW e, NEW S, IsFiniteSet(S)
  PROVE  \A s \in SUBSET S : Sums(e, S)[s] = SumStep(e, Sums(e, S), s)
<1> DEFINE Fits(f, n) == /\ f = [s \in SUBSET S |-> f[s]]
                         /\ \A s \in SUBSET S : Cardinality(s) <= n => f[s] = SumStep(e, f, s)
           X == {n \in Nat : \E f : Fits(f, n)}
<1>1. \A s \in SUBSET S : Cardinality(s) \in Nat
  BY FS_Subset, FS_CardinalityType
<1>2. ASSUME NEW f, NEW n \in Nat, NEW g, \A s \in SUBSET S : Cardinality(s) <= n => g[s] = f[s],
             NEW s \in SUBSET S, Cardinality(s) <= n + 1
      PROVE  SumStep(e, f, s) = SumStep(e, g, s)
  <2>1. CASE s = {}
    BY <2>1 DEF SumStep
  <2>2. CASE s # {}
    <3> DEFINE x == CHOOSE y \in s : TRUE
    <3>1. x \in s
      BY <2>2
    <3> HIDE DEF x
    <3>2. s \ {x} \in SUBSET S /\ Cardinality(s \ {x}) <= n
      BY <1>2, <2>2, <3>1, ChosenLeft
    <3>3. f[s \ {x}] = g[s \ {x}]
      BY <1>2, <3>2
    <3> QED BY <2>2, <3>3 DEF SumStep, x
  <2> QED BY <2>1, <2>2
<1>3. 0 \in X
  <2> DEFINE f == [s \in SUBSET S |-> 0]
  <2>1. \A s \in SUBSET S : Cardinality(s) <= 0 => s = {}
    BY FS_Subset, FS_EmptySet, <1>1
  <2>2. Fits(f, 0)
    BY <2>1 DEF SumStep
  <2> QED BY <2>2
<1>4. ASSUME NEW n \in Nat, n \in X PROVE n + 1 \in X
  <2>1. PICK f : Fits(f, n)
    BY <1>4
  <2> DEFINE g == [s \in SUBSET S |-> SumStep(e, f, s)]
  <2>2. \A s \in SUBSET S : Cardinality(s) <= n => g[s] = f[s]
    BY <2>1
  <2>3. g = [s \in SUBSET S |-> g[s]]
    OBVIOUS
  <2>4. \A s \in SUBSET S : Cardinality(s) <= n + 1 => g[s] = SumStep(e, g, s)
    <3> SUFFICES ASSUME NEW s \in SUBSET S, Cardinality(s) <= n + 1
                 PROVE  g[s] = SumStep(e, g, s)
      OBVIOUS
    <3>1. g[s] = SumStep(e, f, s)
      OBVIOUS
    <3> HIDE DEF g
    <3> QED BY <1>2, <2>2, <3>1
  <2> HIDE DEF g
  <2>5. Fits(g, n + 1)
    BY <2>3, <2>4
  <2> HIDE DEF Fits
  <2> QED BY <2>5
<1> HIDE DEF X
<1>5. Cardinality(S) \in X
  BY <1>1, <1>3, <1>4, AllNaturals
<1> USE DEF X
<1>6. PICK f : Fits(f, Cardinality(S))
  BY <1>5
<1>7. \A s \in SUBSET S : f[s] = SumStep(e, f, s)
  BY <1>6, FS_Subset
<1>8. f = [s \in SUBSET S |-> SumStep(e, f, s)]
  BY <1>6, <1>7
<1> DEFINE F == Sums(e, S)
<1>9. F = [s \in SUBSET S |-> SumStep(e, F, s)]
  BY <1>8 DEF Sums
<1> HIDE DEF F
<1>10. \A s \in SUBSET S : F[s] = SumStep(e, F, s)
  BY <1>9
<1> QED BY <1>10 DEF F

Fibre(K, p, c) == {k \in K : p[k] = c}

\* A sum of the sizes of fibres is the size of what they are fibres of.
LEMMA SumsCount ==
  ASSUME NEW e, NEW S, IsFiniteSet(S), NEW K, IsFiniteSet(K), NEW p,
         \A c \in S : e[c].total = Cardinality(Fibre(K, p, c)),
         \A k \in K : p[k] \in S
  PROVE  Sums(e, S)[S] = Cardinality(K)
<1> DEFINE f == Sums(e, S)
           part(s) == {k \in K : p[k] \in s}
           X == {n \in Nat : \A s \in SUBSET S : Cardinality(s) = n => f[s] = Cardinality(part(s))}
<1>2. \A s \in SUBSET S : f[s] = SumStep(e, f, s)
  BY SumsExist
<1> HIDE DEF f
<1>3. \A s \in SUBSET S : IsFiniteSet(s) /\ Cardinality(s) \in Nat
  BY FS_Subset, FS_CardinalityType
<1>4. \A s : IsFiniteSet(part(s)) /\ Cardinality(part(s)) \in Nat
  <2>1. \A s : part(s) \in SUBSET K
    OBVIOUS
  <2> HIDE DEF part
  <2> QED BY <2>1, FS_Subset, FS_CardinalityType
<1>5. 0 \in X
  <2> SUFFICES ASSUME NEW s \in SUBSET S, Cardinality(s) = 0 PROVE f[s] = Cardinality(part(s))
    OBVIOUS
  <2>1. s = {}
    BY <1>3, FS_EmptySet
  <2>2. part(s) = {}
    BY <2>1
  <2> QED BY <1>2, <2>1, <2>2, FS_EmptySet DEF SumStep
<1>6. ASSUME NEW n \in Nat, n \in X PROVE n + 1 \in X
  <2> SUFFICES ASSUME NEW s \in SUBSET S, Cardinality(s) = n + 1 PROVE f[s] = Cardinality(part(s))
    OBVIOUS
  <2> DEFINE x == CHOOSE y \in s : TRUE
             r == s \ {x}
             one == {k \in K : p[k] = x}
  <2>1. s # {}
    <3>1. n + 1 # 0
      OBVIOUS
    <3> HIDE DEF X
    <3> QED BY <3>1, FS_EmptySet
  <2>2. x \in s
    BY <2>1
  <2>3. f[s] = e[x].total + f[r]
    BY <1>2, <2>1 DEF SumStep
  <2> HIDE DEF x
  <2>4. r \in SUBSET S /\ Cardinality(r) = n
    BY <2>1, <2>2, ChosenLeft
  <2>5. f[r] = Cardinality(part(r))
    BY <1>6, <2>4
  <2>6. e[x].total = Cardinality(one)
    BY <2>2 DEF Fibre
  <2>7. one \cup part(r) = part(s) /\ one \cap part(r) = {}
    BY <2>2
  <2>8. IsFiniteSet(one)
    <3>1. one \in SUBSET K
      OBVIOUS
    <3> QED BY <3>1, FS_Subset
  <2>9. IsFiniteSet(part(r)) /\ Cardinality(part(r)) \in Nat
    BY <1>4
  <2> HIDE DEF part, one, r
  <2>10. Cardinality(part(s)) = Cardinality(one) + Cardinality(part(r)) - Cardinality({})
    BY <2>7, <2>8, <2>9, FS_Union
  <2>11. Cardinality({}) = 0 /\ Cardinality(one) \in Nat
    BY <2>8, FS_EmptySet, FS_CardinalityType
  <2> QED BY <2>3, <2>5, <2>6, <2>9, <2>10, <2>11
<1> HIDE DEF X
<1>7. Cardinality(S) \in X
  BY <1>3, <1>5, <1>6, AllNaturals
<1> USE DEF X
<1>8. part(S) = K
  OBVIOUS
<1> QED BY <1>7, <1>8 DEF f

\* In every environment the edges of an address share the same settlements out:
\* their totals add up to the number of rows listed, no row twice and none left out
\* (attestation_edges).
THEOREM EdgesAlwaysCountListed == ReadersSpec => []EdgesCountListed
<1>1. OutcomeInv => EdgesCountListed
  <2> SUFFICES ASSUME OutcomeInv, NEW a \in Address
               PROVE  Sums(AttestationEdges(db, a), DOMAIN AttestationEdges(db, a))
                              [DOMAIN AttestationEdges(db, a)] = ListedOf(a)
    BY DEF EdgesCountListed, MapThenSumSet, MapThenFoldSet, Sums, SumStep
  <2> DEFINE e == AttestationEdges(db, a)
             K == MirroredOf(db, a)
             p == [k \in K |-> db.settlement.byContract[k].counterparty]
             S == {p[k] : k \in K}
  <2>1. ListedOf(a) = Cardinality(K) /\ IsFiniteSet(K)
    BY MirroredAreListed
  <2>2. S = {db.settlement.byContract[k].counterparty : k \in K}
    OBVIOUS
  <2>3. DOMAIN e = S
    BY <2>2 DEF AttestationEdges
  <2>4. ASSUME NEW c \in S PROVE e[c].total = Cardinality(Fibre(K, p, c))
    <3>1. e[c] = Tally(db, {k \in K : db.settlement.byContract[k].counterparty = c})
      BY <2>2 DEF AttestationEdges
    <3>2. {k \in K : db.settlement.byContract[k].counterparty = c} = Fibre(K, p, c)
      BY DEF Fibre
    <3>3. \A keys : Tally(db, keys).total = Cardinality(keys)
      BY DEF Tally
    <3> HIDE DEF e, K, p
    <3> QED BY <3>1, <3>2, <3>3
  <2>5. \A k \in K : p[k] \in S
    OBVIOUS
  <2>6. IsFiniteSet(S)
    <3> HIDE DEF K, p
    <3> QED BY <2>1, FiniteImage
  <2> HIDE DEF e, K, p, S
  <2>7. Sums(e, S)[S] = Cardinality(K)
    BY <2>1, <2>4, <2>5, <2>6, SumsCount
  <2> QED BY <2>1, <2>3, <2>7 DEF e
<1> QED BY <1>1, OutcomesStart, OutcomesStep, PTL DEF ReadersSpec

(***************************************************************************)
(* Sequences of anything.                                                  *)
(***************************************************************************)
Sequence(s) == \E S : s \in Seq(S)

LEMMA AppendAny ==
  ASSUME NEW s, Sequence(s), NEW e
  PROVE  /\ Len(s) \in Nat
         /\ Sequence(Append(s, e))
         /\ Len(Append(s, e)) = Len(s) + 1
         /\ Append(s, e)[Len(s) + 1] = e
<1>1. PICK S : s \in Seq(S)
  BY DEF Sequence
<1> DEFINE T == S \cup {e}
<1>2. s \in Seq(T) /\ e \in T
  BY <1>1, SeqMonotonic
<1> HIDE DEF T
<1>3. Append(s, e) \in Seq(T)
  BY <1>2, AppendProperties
<1>4. /\ Len(s) \in Nat /\ Len(Append(s, e)) = Len(s) + 1
      /\ Append(s, e)[Len(s) + 1] = e
  BY <1>2, AppendProperties, LenProperties
<1> QED BY <1>3, <1>4 DEF Sequence

LEMMA EmptyAny == Sequence(<<>>) /\ Len(<<>>) = 0
<1>1. <<>> \in Seq({})
  BY EmptySeq
<1> QED BY <1>1, EmptySeq DEF Sequence

(***************************************************************************)
(* The scan of HTLC_BY_HASHLOCK.  First the order of its keys.             *)
(***************************************************************************)
ScanKeys == Hashlocks \X Outpoint

Place(k) == <<ByteOrder[k[1]], ByteOrder[k[2][1]], k[2][2]>>

LEMMA KeyPlace ==
  ASSUME NEW k \in ScanKeys
  PROVE  /\ k = <<k[1], k[2]>> /\ k[2] = <<k[2][1], k[2][2]>>
         /\ k[1] \in Hashlocks /\ k[2][1] \in Tx
         /\ Place(k) \in Places
<1>1. k = <<k[1], k[2]>> /\ k[1] \in Hashlocks /\ k[2] \in Outpoint
  BY DEF ScanKeys
<1>2. PICK t \in Tx : k[2] \in OutpointsOf(t)
  BY <1>1 DEF Outpoint
<1>3. PICK i \in DOMAIN Body[t].outs : k[2] = <<t, i>>
  BY <1>2 DEF OutpointsOf
<1>4. DOMAIN Body[t].outs = 1 .. Len(Body[t].outs) /\ Len(Body[t].outs) \in Nat
  BY ExtractAssumption, LenProperties
<1>5. i \in Int /\ t \in Tx /\ k[2][1] = t /\ k[2][2] = i
  BY <1>3, <1>4
<1>6. ByteOrder[k[1]] \in Int /\ ByteOrder[t] \in Int
  BY <1>1, <1>5, QueriesAssumption
<1> QED BY <1>1, <1>3, <1>5, <1>6 DEF Place, Places

LEMMA KeyOrder ==
  ASSUME NEW x \in ScanKeys, NEW y \in ScanKeys
  PROVE  /\ HashlockKeyLess(x, y) <=>
              \/ Place(x)[1] < Place(y)[1]
              \/ Place(x)[1] = Place(y)[1] /\ Place(x)[2] < Place(y)[2]
              \/ Place(x)[1] = Place(y)[1] /\ Place(x)[2] = Place(y)[2]
                   /\ Place(x)[3] < Place(y)[3]
         /\ \A i \in {1, 2, 3} : Place(x)[i] \in Int
         /\ Place(x) = Place(y) => x = y
         /\ Place(x)[1] = ByteOrder[x[1]]
         /\ Place(x)[1] = Place(y)[1] <=> x[1] = y[1]
<1>1. Place(x) \in Places /\ Place(y) \in Places
  BY KeyPlace
<1>2. HashlockKeyLess(x, y) <=> LexLess(Place(x), Place(y))
  BY DEF HashlockKeyLess, Place
<1>3. \A i \in {1, 2, 3} : Place(x)[i] \in Int
  BY <1>1 DEF Places
<1>4. /\ Place(x)[1] = ByteOrder[x[1]] /\ Place(y)[1] = ByteOrder[y[1]]
      /\ Place(x)[2] = ByteOrder[x[2][1]] /\ Place(y)[2] = ByteOrder[y[2][1]]
      /\ Place(x)[3] = x[2][2] /\ Place(y)[3] = y[2][2]
  BY DEF Place
<1>5. Place(x)[1] = Place(y)[1] <=> x[1] = y[1]
  BY <1>4, KeyPlace, QueriesAssumption
<1>6. ASSUME Place(x) = Place(y) PROVE x = y
  <2>1. x[1] = y[1]
    BY <1>5, <1>6
  <2>2. ByteOrder[x[2][1]] = ByteOrder[y[2][1]] /\ x[2][2] = y[2][2]
    BY <1>4, <1>6
  <2>3. x[2][1] = y[2][1]
    BY <2>2, KeyPlace, QueriesAssumption
  <2>4. x[2] = y[2]
    BY <2>2, <2>3, KeyPlace
  <2> QED BY <2>1, <2>4, KeyPlace
<1> QED BY <1>1, <1>2, <1>3, <1>4, <1>5, <1>6, LessOfThree

LEMMA KeysOrdered ==
  ASSUME NEW x \in ScanKeys, NEW y \in ScanKeys
  PROVE  /\ ~HashlockKeyLess(x, x)
         /\ x = y \/ HashlockKeyLess(x, y) \/ HashlockKeyLess(y, x)
         /\ \A z \in ScanKeys : HashlockKeyLess(x, y) /\ HashlockKeyLess(y, z)
                                  => HashlockKeyLess(x, z)
         /\ HashlockKeyLess(x, y) => ByteOrder[x[1]] <= ByteOrder[y[1]]
<1> DEFINE p == Place(x)
           q == Place(y)
<1>1. p \in Places /\ q \in Places /\ (p = q => x = y)
  BY KeyPlace, KeyOrder
<1>2. /\ p[1] \in Int /\ p[2] \in Int /\ p[3] \in Int
      /\ q[1] \in Int /\ q[2] \in Int /\ q[3] \in Int
      /\ (p[1] = q[1] /\ p[2] = q[2] /\ p[3] = q[3]) => p = q
  BY <1>1 DEF Places
<1>3. /\ HashlockKeyLess(x, y) <=> \/ p[1] < q[1]
                                   \/ p[1] = q[1] /\ p[2] < q[2]
                                   \/ p[1] = q[1] /\ p[2] = q[2] /\ p[3] < q[3]
      /\ HashlockKeyLess(y, x) <=> \/ q[1] < p[1]
                                   \/ q[1] = p[1] /\ q[2] < p[2]
                                   \/ q[1] = p[1] /\ q[2] = p[2] /\ q[3] < p[3]
      /\ HashlockKeyLess(x, x) <=> \/ p[1] < p[1]
                                   \/ p[1] = p[1] /\ p[2] < p[2]
                                   \/ p[1] = p[1] /\ p[2] = p[2] /\ p[3] < p[3]
      /\ p[1] = ByteOrder[x[1]] /\ q[1] = ByteOrder[y[1]]
  BY KeyOrder
<1>4. ASSUME NEW z \in ScanKeys, HashlockKeyLess(x, y), HashlockKeyLess(y, z)
      PROVE  HashlockKeyLess(x, z)
  <2> DEFINE r == Place(z)
  <2>1. r[1] \in Int /\ r[2] \in Int /\ r[3] \in Int
    BY KeyOrder
  <2>2. HashlockKeyLess(y, z) <=> \/ q[1] < r[1]
                                  \/ q[1] = r[1] /\ q[2] < r[2]
                                  \/ q[1] = r[1] /\ q[2] = r[2] /\ q[3] < r[3]
    BY KeyOrder
  <2>3. HashlockKeyLess(x, z) <=> \/ p[1] < r[1]
                                  \/ p[1] = r[1] /\ p[2] < r[2]
                                  \/ p[1] = r[1] /\ p[2] = r[2] /\ p[3] < r[3]
    BY KeyOrder
  <2> HIDE DEF p, q, r
  <2> QED BY <1>2, <1>3, <1>4, <2>1, <2>2, <2>3
<1> HIDE DEF p, q
<1>5. HashlockKeyLess(x, y) => p[1] <= q[1]
  BY <1>2, <1>3
<1>6. x = y \/ HashlockKeyLess(x, y) \/ HashlockKeyLess(y, x)
  BY <1>1, <1>2, <1>3
<1>7. ~HashlockKeyLess(x, x)
  BY <1>2, <1>3
<1> QED BY <1>3, <1>4, <1>5, <1>6, <1>7

LowerKeys(K, k) == {x \in K : HashlockKeyLess(x, k)}

\* The scan meets every key once, in their order.
LEMMA SortedKeys ==
  ASSUME NEW K \in SUBSET ScanKeys, IsFiniteSet(K), NEW f, f = KeysInOrder(K)
  PROVE  /\ Cardinality(K) \in Nat /\ DOMAIN f = 1 .. Cardinality(K)
         /\ \A i \in DOMAIN f : f[i] \in K
         /\ \A k \in K : \E i \in DOMAIN f : f[i] = k
         /\ \A i, j \in DOMAIN f : i < j => HashlockKeyLess(f[i], f[j])
<1> DEFINE n == Cardinality(K)
           rank == [k \in K |-> Cardinality(LowerKeys(K, k))]
<1>1. n \in Nat
  BY FS_CardinalityType
<1>2. \A k \in K : IsFiniteSet(LowerKeys(K, k)) /\ Cardinality(LowerKeys(K, k)) \in Nat
  BY FS_Subset, FS_CardinalityType DEF LowerKeys
<1>3. \A k \in K : rank[k] \in 0 .. n - 1
  <2> SUFFICES ASSUME NEW k \in K PROVE rank[k] \in 0 .. n - 1
    OBVIOUS
  <2>1. LowerKeys(K, k) \in SUBSET K /\ k \notin LowerKeys(K, k)
    BY KeysOrdered DEF LowerKeys
  <2>2. LowerKeys(K, k) # K
    BY <2>1
  <2>3. Cardinality(LowerKeys(K, k)) < Cardinality(K)
    <3>1. Cardinality(LowerKeys(K, k)) \in Nat
      BY <1>2
    <3>2. Cardinality(K) \in Nat
      BY <1>1
    <3> QED BY <2>1, <2>2, <3>1, <3>2, FS_Subset
  <2> HIDE DEF LowerKeys
  <2> QED BY <1>1, <1>2, <2>3
<1>4. ASSUME NEW x \in K, NEW y \in K, HashlockKeyLess(x, y) PROVE rank[x] < rank[y]
  <2>1. LowerKeys(K, x) \in SUBSET LowerKeys(K, y)
    BY <1>4, KeysOrdered DEF LowerKeys
  <2>2. x \in LowerKeys(K, y) /\ x \notin LowerKeys(K, x)
    BY <1>4, KeysOrdered DEF LowerKeys
  <2>3. Cardinality(LowerKeys(K, x)) < Cardinality(LowerKeys(K, y))
    BY <1>2, <2>1, <2>2, FS_Subset
  <2> QED BY <2>3
<1>5. \A x, y \in K : x = y \/ HashlockKeyLess(x, y) \/ HashlockKeyLess(y, x)
  BY KeysOrdered
<1>6. rank = [k \in K |-> rank[k]]
  OBVIOUS
<1>7. /\ DOMAIN f = 1 .. n
      /\ \A i \in 1 .. n :
           f[i] = CHOOSE k \in K : Cardinality(LowerKeys(K, k)) = i - 1
  BY DEF KeysInOrder, LowerKeys
<1> HIDE DEF rank, n
<1>8. rank \in Surjection(K, 0 .. n - 1)
  <2>1. rank \in Injection(K, 0 .. n - 1)
    <3>1. rank \in [K -> 0 .. n - 1]
      BY <1>3, <1>6
    <3>2. \A x, y \in K : rank[x] = rank[y] => x = y
      BY <1>1, <1>3, <1>4, <1>5
    <3> QED BY <3>1, <3>2 DEF Injection, IsInjective
  <2>2. IsFiniteSet(0 .. n - 1) /\ Cardinality(0 .. n - 1) = n
    BY <1>1, FS_Interval
  <2> QED BY <2>1, <2>2, FS_Injection DEF n
<1>9. \A i \in 1 .. n : f[i] \in K /\ rank[f[i]] = i - 1
  <2> SUFFICES ASSUME NEW i \in 1 .. n PROVE f[i] \in K /\ rank[f[i]] = i - 1
    OBVIOUS
  <2>1. i - 1 \in 0 .. n - 1
    BY <1>1
  <2>2. \E k \in K : rank[k] = i - 1
    BY <1>8, <2>1 DEF Surjection
  <2>3. \A k \in K : rank[k] = Cardinality(LowerKeys(K, k))
    BY DEF rank
  <2>4. f[i] \in K /\ Cardinality(LowerKeys(K, f[i])) = i - 1
    BY <1>7, <2>2, <2>3
  <2> QED BY <2>3, <2>4
<1>10. DOMAIN f = 1 .. n
  BY <1>7
<1> HIDE DEF KeysInOrder
<1>11. ASSUME NEW k \in K PROVE \E i \in 1 .. n : f[i] = k
  <2>1. rank[k] + 1 \in 1 .. n
    BY <1>1, <1>3
  <2>2. rank[f[rank[k] + 1]] = rank[k] /\ f[rank[k] + 1] \in K
    BY <1>1, <1>3, <1>9, <2>1
  <2>3. f[rank[k] + 1] = k
    BY <1>1, <1>3, <1>4, <1>5, <2>2
  <2> QED BY <2>1, <2>3
<1>12. ASSUME NEW i \in 1 .. n, NEW j \in 1 .. n, i < j PROVE HashlockKeyLess(f[i], f[j])
  <2>1. f[i] \in K /\ f[j] \in K /\ rank[f[i]] = i - 1 /\ rank[f[j]] = j - 1
    BY <1>9
  <2>2. rank[f[i]] < rank[f[j]]
    BY <1>1, <1>12, <2>1
  <2>3. f[i] # f[j]
    BY <1>1, <1>12, <2>1
  <2>4. ~HashlockKeyLess(f[j], f[i])
    BY <1>1, <1>4, <2>1, <2>2
  <2> QED BY <1>5, <2>1, <2>3, <2>4
<1> QED BY <1>1, <1>9, <1>10, <1>11, <1>12 DEF n

(***************************************************************************)
(* What the scan has made of the first i keys.                             *)
(***************************************************************************)
ScanStep(f, keys, limit, i) == IF i = 0 THEN NoScan ELSE ScanKey(f[i - 1], keys[i], limit)

ScanOf(K, limit) ==
  CHOOSE scan : scan = [i \in 0 .. Cardinality(K) |-> ScanStep(scan, KeysInOrder(K), limit, i)]

LEMMA ScanExists ==
  ASSUME NEW K, Cardinality(K) \in Nat, NEW limit
  PROVE  /\ ScanOf(K, limit)[0] = NoScan
         /\ \A i \in 1 .. Cardinality(K) :
              ScanOf(K, limit)[i] = ScanKey(ScanOf(K, limit)[i - 1], KeysInOrder(K)[i], limit)
         /\ Scanned(K, limit) = ScanOf(K, limit)[Cardinality(K)]
<1> DEFINE n == Cardinality(K)
           keys == KeysInOrder(K)
           Fits(f, x) == \A i \in 0 .. x : f[i] = ScanStep(f, keys, limit, i)
           X == {x \in Nat : \E f : Fits(f, x)}
<1> HIDE DEF keys
<1>1. 0 \in X
  <2> DEFINE f == [i \in {0} |-> NoScan]
  <2>1. \A i \in 0 .. 0 : i = 0
    OBVIOUS
  <2>2. Fits(f, 0)
    BY <2>1 DEF ScanStep
  <2> HIDE DEF f
  <2> QED BY <2>2
<1>2. ASSUME NEW x \in Nat, x \in X PROVE x + 1 \in X
  <2>1. PICK f : Fits(f, x)
    BY <1>2
  <2> DEFINE g == [i \in 0 .. x + 1 |-> IF i = x + 1 THEN ScanStep(f, keys, limit, i) ELSE f[i]]
  <2>2. ASSUME NEW i \in 0 .. x + 1 PROVE g[i] = ScanStep(g, keys, limit, i)
    <3>1. i # 0 => i - 1 \in 0 .. x + 1 /\ i - 1 # x + 1
      OBVIOUS
    <3>2. i # 0 => g[i - 1] = f[i - 1]
      BY <3>1
    <3>3. ScanStep(g, keys, limit, i) = ScanStep(f, keys, limit, i)
      BY <3>2 DEF ScanStep
    <3>4. i # x + 1 => i \in 0 .. x
      OBVIOUS
    <3> QED BY <2>1, <3>3, <3>4
  <2> HIDE DEF g
  <2> QED BY <2>2
<1> HIDE DEF X
<1>3. n \in X
  BY <1>1, <1>2, AllNaturals
<1> USE DEF X
<1>4. PICK f : Fits(f, n)
  BY <1>3
<1> DEFINE g == [i \in 0 .. n |-> f[i]]
<1>5. ASSUME NEW i \in 0 .. n PROVE g[i] = ScanStep(g, keys, limit, i)
  <2>1. i # 0 => i - 1 \in 0 .. n
    OBVIOUS
  <2> QED BY <1>4, <2>1 DEF ScanStep
<1>6. g = [i \in 0 .. n |-> g[i]]
  OBVIOUS
<1> HIDE DEF g
<1>7. g = [i \in 0 .. n |-> ScanStep(g, keys, limit, i)]
  BY <1>5, <1>6
<1> DEFINE F == ScanOf(K, limit)
<1>8. F = [i \in 0 .. n |-> ScanStep(F, keys, limit, i)]
  BY <1>7 DEF ScanOf, keys
<1> HIDE DEF F
<1>9. \A i \in 0 .. n : F[i] = ScanStep(F, keys, limit, i)
  BY <1>8
<1>10. F[0] = NoScan
  <2>1. 0 \in 0 .. n
    OBVIOUS
  <2> QED BY <1>9, <2>1 DEF ScanStep
<1>11. \A i \in 1 .. n : F[i] = ScanKey(F[i - 1], keys[i], limit)
  <2>1. \A i \in 1 .. n : i \in 0 .. n /\ i # 0
    OBVIOUS
  <2> HIDE DEF n
  <2> QED BY <1>9, <2>1 DEF ScanStep
<1>12. Scanned(K, limit) = ScanOf(K, limit)[n]
  BY DEF Scanned, ScanOf, ScanStep
<1> QED BY <1>10, <1>11, <1>12 DEF F, keys

(***************************************************************************)
(* The groups of a set of keys: those of the hashlocks two keys have.      *)
(***************************************************************************)
Under(K, hash) == {o \in Outpoint : <<hash, o>> \in K}
SharedOf(K) == {hash \in Hashlocks : Cardinality(Under(K, hash)) > 1}

IsGroup(g) ==
  g = [hash |-> g.hash, outs |-> g.outs] /\ Sequence(g.outs) /\ Len(g.outs) > 1

GroupsFit(K, groups, D) ==
  /\ Sequence(groups) /\ IsFiniteSet(D) /\ Len(groups) = Cardinality(D)
  /\ \A i \in 1 .. Len(groups) :
       /\ groups[i].hash \in D /\ ToSet(groups[i].outs) = Under(K, groups[i].hash)
       /\ IsGroup(groups[i])
  /\ \A hash \in D : \E i \in 1 .. Len(groups) : groups[i].hash = hash
  /\ \A i, j \in 1 .. Len(groups) :
       i < j => ByteOrder[groups[i].hash] < ByteOrder[groups[j].hash]

GroupFits(group, hash, outs) ==
  /\ group.hash = hash /\ Sequence(group.outs)
  /\ IsFiniteSet(outs)
  /\ ToSet(group.outs) = outs /\ Len(group.outs) = Cardinality(outs)

LEMMA AppendedTo ==
  ASSUME NEW s, Sequence(s), NEW e
  PROVE  /\ DOMAIN Append(s, e) = 1 .. Len(s) + 1
         /\ \A i \in 1 .. Len(s) : Append(s, e)[i] = s[i]
         /\ ToSet(Append(s, e)) = ToSet(s) \cup {e}
<1>1. PICK S : s \in Seq(S)
  BY DEF Sequence
<1> DEFINE T == S \cup {e}
           a == Append(s, e)
<1>2. s \in Seq(T) /\ e \in T
  BY <1>1, SeqMonotonic
<1> HIDE DEF T
<1>3. /\ Len(s) \in Nat /\ DOMAIN s = 1 .. Len(s)
      /\ DOMAIN a = 1 .. Len(s) + 1
      /\ \A i \in 1 .. Len(s) : a[i] = s[i]
      /\ a[Len(s) + 1] = e
  BY <1>2, AppendProperties, LenProperties
<1> HIDE DEF a
<1>4. \A i : i \in DOMAIN a <=> i \in 1 .. Len(s) \/ i = Len(s) + 1
  BY <1>3
<1>5. ToSet(a) = ToSet(s) \cup {e}
  <2>1. ASSUME NEW x \in ToSet(a) PROVE x \in ToSet(s) \cup {e}
    BY <1>3, <1>4, <2>1 DEF ToSet
  <2>2. ASSUME NEW x \in ToSet(s) \cup {e} PROVE x \in ToSet(a)
    BY <1>3, <1>4, <2>2 DEF ToSet
  <2> QED BY <2>1, <2>2
<1> QED BY <1>3, <1>5 DEF a

LEMMA GroupGrows ==
  ASSUME NEW group, NEW hash, NEW outs, GroupFits(group, hash, outs), NEW o, o \notin outs,
         group = [hash |-> group.hash, outs |-> group.outs]
  PROVE  GroupFits([hash |-> group.hash, outs |-> Append(group.outs, o)], hash, outs \cup {o})
<1>1. /\ Sequence(Append(group.outs, o)) /\ Len(Append(group.outs, o)) = Len(group.outs) + 1
      /\ ToSet(Append(group.outs, o)) = outs \cup {o}
  BY AppendAny, AppendedTo DEF GroupFits
<1>2. IsFiniteSet(outs \cup {o}) /\ Cardinality(outs \cup {o}) = Cardinality(outs) + 1
  BY FS_AddElement DEF GroupFits
<1> QED BY <1>1, <1>2 DEF GroupFits

LEMMA GroupBegins == \A hash, o : GroupFits([hash |-> hash, outs |-> <<o>>], hash, {o})
<1> SUFFICES ASSUME NEW hash, NEW o PROVE GroupFits([hash |-> hash, outs |-> <<o>>], hash, {o})
  OBVIOUS
<1>1. <<o>> \in Seq({o}) /\ Len(<<o>>) = 1 /\ DOMAIN <<o>> = {1} /\ <<o>>[1] = o
  OBVIOUS
<1>2. ToSet(<<o>>) = {o}
  BY <1>1 DEF ToSet
<1>3. IsFiniteSet({o}) /\ Cardinality({o}) = 1
  BY FS_Singleton
<1> QED BY <1>1, <1>2, <1>3 DEF GroupFits, Sequence

\* A group that is complete joins those before it if it is one.
LEMMA FlushFits ==
  ASSUME NEW K, NEW s, NEW D \in SUBSET Hashlocks, GroupsFit(K, s.groups, D),
         NEW hash \in Hashlocks, GroupFits(s.current, hash, Under(K, hash)),
         s.current = [hash |-> s.current.hash, outs |-> s.current.outs],
         \A x \in D : ByteOrder[x] < ByteOrder[hash]
  PROVE  /\ GroupsFit(K, Flush(s), D \cup ({hash} \cap SharedOf(K)))
         /\ Flush(s) = s.groups \/ Len(Flush(s)) = Len(s.groups) + 1
<1>1. Len(s.current.outs) > 1 <=> hash \in SharedOf(K)
  BY DEF GroupFits, SharedOf
<1>2. CASE hash \notin SharedOf(K)
  <2>1. Flush(s) = s.groups
    BY <1>1, <1>2 DEF Flush
  <2>2. D \cup ({hash} \cap SharedOf(K)) = D
    BY <1>2
  <2> QED BY <2>1, <2>2
<1>3. CASE hash \in SharedOf(K)
  <2> DEFINE g == s.groups
             a == Append(g, s.current)
             E == D \cup {hash}
  <2>1. Flush(s) = a /\ E = D \cup ({hash} \cap SharedOf(K))
    BY <1>1, <1>3 DEF Flush
  <2>2. /\ Len(g) \in Nat /\ Sequence(a) /\ Len(a) = Len(g) + 1
        /\ a[Len(g) + 1] = s.current /\ \A i \in 1 .. Len(g) : a[i] = g[i]
    BY AppendAny, AppendedTo DEF GroupsFit
  <2>3. /\ IsFiniteSet(D) /\ Len(g) = Cardinality(D)
        /\ \A i \in 1 .. Len(g) :
             g[i].hash \in D /\ ToSet(g[i].outs) = Under(K, g[i].hash) /\ IsGroup(g[i])
        /\ \A x \in D : \E i \in 1 .. Len(g) : g[i].hash = x
        /\ \A i, j \in 1 .. Len(g) : i < j => ByteOrder[g[i].hash] < ByteOrder[g[j].hash]
    BY DEF GroupsFit
  <2>4. /\ s.current.hash = hash /\ ToSet(s.current.outs) = Under(K, hash)
        /\ IsGroup(s.current)
    BY <1>1, <1>3 DEF GroupFits, IsGroup
  <2>5. hash \notin D
    BY QueriesAssumption
  <2>6. IsFiniteSet(E) /\ Cardinality(E) = Cardinality(D) + 1
    BY <2>3, <2>5, FS_AddElement
  <2> HIDE DEF g, a
  <2>7. \A i : i \in 1 .. Len(a) <=> i \in 1 .. Len(g) \/ i = Len(g) + 1
    BY <2>2
  <2>8. \A i \in 1 .. Len(a) :
          a[i].hash \in E /\ ToSet(a[i].outs) = Under(K, a[i].hash) /\ IsGroup(a[i])
    BY <2>2, <2>3, <2>4, <2>7
  <2>9. \A x \in E : \E i \in 1 .. Len(a) : a[i].hash = x
    BY <2>2, <2>3, <2>4, <2>7
  <2>10. ASSUME NEW i \in 1 .. Len(a), NEW j \in 1 .. Len(a), i < j
         PROVE  ByteOrder[a[i].hash] < ByteOrder[a[j].hash]
    <3>1. i \in 1 .. Len(g)
      BY <2>2, <2>7, <2>10
    <3>2. CASE j \in 1 .. Len(g)
      BY <2>2, <2>3, <2>10, <3>1, <3>2
    <3>3. CASE j = Len(g) + 1
      BY <2>2, <2>3, <2>4, <3>1, <3>3
    <3> QED BY <2>7, <3>2, <3>3
  <2> HIDE DEF E
  <2>11. GroupsFit(K, a, E)
    BY <2>2, <2>3, <2>6, <2>8, <2>9, <2>10 DEF GroupsFit
  <2> QED BY <2>1, <2>2, <2>11 DEF g
<1> QED BY <1>2, <1>3

(***************************************************************************)
(* The scan, key by key.                                                   *)
(***************************************************************************)
KeysFit(K, f, n) ==
  /\ n \in Nat /\ K \in SUBSET ScanKeys
  /\ \A i \in 1 .. n : f[i] \in K
  /\ \A k \in K : \E i \in 1 .. n : f[i] = k
  /\ \A i, j \in 1 .. n : i < j => HashlockKeyLess(f[i], f[j])

Rank(k) == ByteOrder[k[1]]

\* The shared hashlocks before one, and up to it.
SharedBefore(K, hash) == {x \in SharedOf(K) : ByteOrder[x] < ByteOrder[hash]}
SharedUpTo(K, hash) == {x \in SharedOf(K) : ByteOrder[x] <= ByteOrder[hash]}

\* The outpoints met under a hashlock among the first i keys.
Met(f, i, hash) == {f[j][2] : j \in {x \in 1 .. i : f[x][1] = hash}}

First(K, groups, D) ==
  /\ GroupsFit(K, groups, D) /\ D \subseteq SharedOf(K)
  /\ \A x \in D, y \in SharedOf(K) \ D : ByteOrder[x] < ByteOrder[y]

ScanFits(K, f, limit, i, s) ==
  /\ s.full \in BOOLEAN
  /\ s.full => Len(s.groups) = limit /\ \E D : First(K, s.groups, D)
  /\ ~s.full =>
       /\ Len(s.groups) < limit
       /\ s = [groups |-> s.groups, current |-> s.current, full |-> s.full]
       /\ s.current = [hash |-> s.current.hash, outs |-> s.current.outs]
       /\ i = 0 => s = NoScan
       /\ i # 0 => /\ GroupsFit(K, s.groups, SharedBefore(K, f[i][1]))
                   /\ GroupFits(s.current, f[i][1], Met(f, i, f[i][1]))

LEMMA KeyRanks ==
  ASSUME NEW K, NEW f, NEW n, KeysFit(K, f, n), NEW i \in 1 .. n, NEW j \in 1 .. n
  PROVE  /\ f[i] \in ScanKeys /\ f[i] = <<f[i][1], f[i][2]>>
         /\ f[i][1] \in Hashlocks /\ f[i][2] \in Outpoint /\ Rank(f[i]) \in Nat
         /\ i < j => Rank(f[i]) <= Rank(f[j]) /\ f[i] # f[j]
         /\ Rank(f[i]) = Rank(f[j]) <=> f[i][1] = f[j][1]
<1>1. f[i] \in ScanKeys /\ f[j] \in ScanKeys
  BY DEF KeysFit
<1>2. /\ f[i] = <<f[i][1], f[i][2]>> /\ f[i][1] \in Hashlocks /\ f[i][2] \in Outpoint
      /\ f[j][1] \in Hashlocks
  BY <1>1 DEF ScanKeys
<1>3. Rank(f[i]) \in Nat /\ (Rank(f[i]) = Rank(f[j]) <=> f[i][1] = f[j][1])
  BY <1>2, QueriesAssumption DEF Rank
<1>4. ASSUME i < j PROVE Rank(f[i]) <= Rank(f[j]) /\ f[i] # f[j]
  <2>1. HashlockKeyLess(f[i], f[j])
    BY <1>4 DEF KeysFit
  <2> QED BY <1>1, <2>1, KeysOrdered DEF Rank
<1> QED BY <1>1, <1>2, <1>3, <1>4

\* A hashlock that is shared is the hashlock of a key.
LEMMA SharedHasKey ==
  ASSUME NEW K, NEW f, NEW n, KeysFit(K, f, n), NEW hash \in SharedOf(K)
  PROVE  hash \in Hashlocks /\ \E j \in 1 .. n : f[j][1] = hash
<1>1. hash \in Hashlocks /\ Cardinality(Under(K, hash)) > 1
  BY DEF SharedOf
<1>2. Under(K, hash) # {}
  BY <1>1, FS_EmptySet
<1>3. PICK o : <<hash, o>> \in K
  BY <1>2 DEF Under
<1>4. PICK j \in 1 .. n : f[j] = <<hash, o>>
  BY <1>3 DEF KeysFit
<1> QED BY <1>1, <1>4

\* Where the hashlock changes, or the keys end, the group at hand is complete.
LEMMA BoundaryFits ==
  ASSUME NEW K, NEW f, NEW n, KeysFit(K, f, n), NEW limit, NEW s,
         NEW i \in 1 .. n, ScanFits(K, f, limit, i, s), ~s.full,
         \A j \in 1 .. n : i < j => Rank(f[i]) < Rank(f[j])
  PROVE  /\ GroupsFit(K, Flush(s), SharedUpTo(K, f[i][1]))
         /\ Flush(s) = s.groups \/ Len(Flush(s)) = Len(s.groups) + 1
         /\ Len(s.groups) \in Nat /\ Len(s.groups) < limit
<1> DEFINE hash == f[i][1]
           D == SharedBefore(K, hash)
<1>0. i \in Nat /\ i # 0 /\ n \in Nat
  BY DEF KeysFit
<1>1. /\ GroupsFit(K, s.groups, D) /\ GroupFits(s.current, hash, Met(f, i, hash))
      /\ s.current = [hash |-> s.current.hash, outs |-> s.current.outs]
      /\ Len(s.groups) < limit
  BY <1>0 DEF ScanFits
<1>2. hash \in Hashlocks /\ ByteOrder[hash] \in Nat
  BY KeyRanks, QueriesAssumption
<1>3. Met(f, i, hash) = Under(K, hash)
  <2>1. ASSUME NEW o \in Met(f, i, hash) PROVE o \in Under(K, hash)
    <3>1. PICK j \in 1 .. i : f[j][1] = hash /\ o = f[j][2]
      BY DEF Met
    <3>2. j \in 1 .. n
      BY <1>0
    <3>3. f[j] = <<f[j][1], f[j][2]>> /\ f[j][2] \in Outpoint
      BY <3>2, KeyRanks
    <3>4. f[j] \in K
      BY <3>2 DEF KeysFit
    <3> QED BY <3>1, <3>3, <3>4 DEF Under
  <2>2. ASSUME NEW o \in Under(K, hash) PROVE o \in Met(f, i, hash)
    <3>1. PICK j \in 1 .. n : f[j] = <<hash, o>>
      BY DEF Under, KeysFit
    <3>2. Rank(f[j]) = Rank(f[i])
      BY <3>1 DEF Rank
    <3>3. ~(i < j)
      BY <3>2, KeyRanks
    <3>4. j \in 1 .. i
      BY <1>0, <3>3
    <3> QED BY <3>1, <3>4 DEF Met
  <2> QED BY <2>1, <2>2
<1>4. D \in SUBSET Hashlocks /\ \A x \in D : ByteOrder[x] < ByteOrder[hash]
  BY DEF SharedBefore, SharedOf
<1>5. D \cup ({hash} \cap SharedOf(K)) = SharedUpTo(K, hash)
  <2>1. \A x \in SharedOf(K) : x \in Hashlocks
    BY DEF SharedOf
  <2>2. \A x \in SharedOf(K) :
          ByteOrder[x] <= ByteOrder[hash] <=> ByteOrder[x] < ByteOrder[hash] \/ x = hash
    <3> SUFFICES ASSUME NEW x \in SharedOf(K)
                 PROVE  ByteOrder[x] <= ByteOrder[hash] <=>
                          ByteOrder[x] < ByteOrder[hash] \/ x = hash
      OBVIOUS
    <3>1. ByteOrder[x] \in Nat /\ (ByteOrder[x] = ByteOrder[hash] => x = hash)
      BY <1>2, <2>1, QueriesAssumption
    <3> HIDE DEF hash
    <3> QED BY <1>2, <3>1
  <2> HIDE DEF hash
  <2> QED BY <2>2 DEF SharedBefore, SharedUpTo
<1> HIDE DEF hash, D
<1>6. /\ GroupsFit(K, Flush(s), D \cup ({hash} \cap SharedOf(K)))
      /\ Flush(s) = s.groups \/ Len(Flush(s)) = Len(s.groups) + 1
  BY <1>1, <1>2, <1>3, <1>4, FlushFits
<1>7. Len(s.groups) \in Nat
  BY <1>1, AppendAny DEF GroupsFit
<1> QED BY <1>1, <1>5, <1>6, <1>7 DEF hash

LEMMA UpToIsFirst ==
  ASSUME NEW K, NEW hash \in Hashlocks, NEW groups, GroupsFit(K, groups, SharedUpTo(K, hash))
  PROVE  First(K, groups, SharedUpTo(K, hash))
<1>1. \A x \in SharedUpTo(K, hash), y \in SharedOf(K) \ SharedUpTo(K, hash) :
        ByteOrder[x] < ByteOrder[y]
  <2> SUFFICES ASSUME NEW x \in SharedUpTo(K, hash), NEW y \in SharedOf(K) \ SharedUpTo(K, hash)
               PROVE  ByteOrder[x] < ByteOrder[y]
    OBVIOUS
  <2>1. /\ x \in Hashlocks /\ y \in Hashlocks
        /\ ByteOrder[x] <= ByteOrder[hash] /\ ~(ByteOrder[y] <= ByteOrder[hash])
    BY DEF SharedUpTo, SharedOf
  <2>2. ByteOrder[x] \in Nat /\ ByteOrder[y] \in Nat /\ ByteOrder[hash] \in Nat
    BY <2>1, QueriesAssumption
  <2> QED BY <2>1, <2>2
<1>2. SharedUpTo(K, hash) \subseteq SharedOf(K)
  BY DEF SharedUpTo
<1> QED BY <1>1, <1>2 DEF First

\* The first key opens a group; there are none before it.
LEMMA NoneBeforeFirst ==
  ASSUME NEW K, NEW f, NEW n, KeysFit(K, f, n), 1 \in 1 .. n
  PROVE  SharedBefore(K, f[1][1]) = {}
<1> SUFFICES ASSUME NEW x \in SharedBefore(K, f[1][1]) PROVE FALSE
  OBVIOUS
<1>1. x \in SharedOf(K) /\ ByteOrder[x] < ByteOrder[f[1][1]]
  BY DEF SharedBefore
<1>2. PICK j \in 1 .. n : f[j][1] = x
  BY <1>1, SharedHasKey
<1>3. Rank(f[1]) <= Rank(f[j])
  <2>1. j = 1 \/ 1 < j
    OBVIOUS
  <2>2. Rank(f[1]) \in Nat
    BY KeyRanks
  <2> QED BY <2>1, <2>2, KeyRanks
<1>4. Rank(f[1]) \in Nat /\ Rank(f[j]) \in Nat
  BY KeyRanks
<1> QED BY <1>1, <1>2, <1>3, <1>4 DEF Rank

LEMMA HashlocksAreBytes == \A hash \in Hashlocks : hash \in STRING
<1> SUFFICES ASSUME NEW o \in Outpoint, IsHtlc(o) PROVE Out(o).script.hashLock \in STRING
  BY DEF Hashlocks
<1>1. PICK t \in Tx : o \in OutpointsOf(t)
  BY DEF Outpoint
<1>2. PICK n \in DOMAIN Body[t].outs : o = <<t, n>>
  BY <1>1 DEF OutpointsOf
<1>3. Body[t].outs \in Seq(Outputs)
  BY ExtractAssumption
<1>4. Body[t].outs[n] \in Outputs
  BY <1>2, <1>3, LenProperties, ElementOfSeq
<1>5. Out(o).script \in Scripts
  BY <1>2, <1>4 DEF Out, Outputs
<1>6. Out(o).script \in HtlcScripts
  BY <1>5 DEF Scripts, IsHtlc
<1> QED BY <1>6 DEF HtlcScripts

LEMMA MetGrows ==
  ASSUME NEW K, NEW f, NEW n, KeysFit(K, f, n), NEW i \in 0 .. n - 1
  PROVE  LET hash == f[i + 1][1]
         IN  /\ Met(f, i + 1, hash) = Met(f, i, hash) \cup {f[i + 1][2]}
             /\ f[i + 1][2] \notin Met(f, i, hash)
<1> DEFINE hash == f[i + 1][1]
<1>0. n \in Nat /\ i \in Nat /\ i + 1 \in 1 .. n
  BY DEF KeysFit
<1>1. ASSUME NEW o \in Met(f, i + 1, hash) PROVE o \in Met(f, i, hash) \cup {f[i + 1][2]}
  <2>1. PICK j \in 1 .. i + 1 : f[j][1] = hash /\ o = f[j][2]
    BY DEF Met
  <2>2. j \in 1 .. i \/ j = i + 1
    BY <1>0
  <2> QED BY <2>1, <2>2 DEF Met
<1>2. ASSUME NEW o \in Met(f, i, hash) \cup {f[i + 1][2]} PROVE o \in Met(f, i + 1, hash)
  <2>1. 1 .. i \subseteq 1 .. i + 1 /\ i + 1 \in 1 .. i + 1
    BY <1>0
  <2> QED BY <2>1 DEF Met
<1>3. ASSUME f[i + 1][2] \in Met(f, i, hash) PROVE FALSE
  <2>1. PICK j \in 1 .. i : f[j][1] = hash /\ f[i + 1][2] = f[j][2]
    BY <1>3 DEF Met
  <2>2. j \in 1 .. n /\ j < i + 1
    BY <1>0
  <2>3. f[j] = <<f[j][1], f[j][2]>> /\ f[i + 1] = <<f[i + 1][1], f[i + 1][2]>>
    BY <1>0, <2>2, KeyRanks
  <2>4. f[j] # f[i + 1]
    BY <1>0, <2>2, KeyRanks
  <2> QED BY <2>1, <2>3, <2>4
<1> QED BY <1>1, <1>2, <1>3

LEMMA ScanStepFits ==
  ASSUME NEW K, NEW f, NEW n, KeysFit(K, f, n), NEW limit \in Nat \ {0},
         NEW i \in 0 .. n - 1, NEW s, ScanFits(K, f, limit, i, s)
  PROVE  ScanFits(K, f, limit, i + 1, ScanKey(s, f[i + 1], limit))
<1> DEFINE k == f[i + 1]
           hash == k[1]
           u == ScanKey(s, k, limit)
<1>0. n \in Nat /\ i \in Nat /\ i + 1 \in 1 .. n /\ i + 1 # 0
  BY DEF KeysFit
<1>1. hash \in Hashlocks /\ k[2] \in Outpoint
  BY <1>0, KeyRanks
<1>2. CASE s.full
  <2>1. u = s
    BY <1>2 DEF ScanKey
  <2> QED BY <1>2, <2>1 DEF ScanFits
<1> DEFINE next == [hash |-> hash, outs |-> <<k[2]>>]
<1>3. ASSUME ~s.full, s.current.hash # hash,
             Met(f, i + 1, hash) = {k[2]},
             GroupsFit(K, Flush(s), SharedBefore(K, hash)),
             Len(Flush(s)) < limit
      PROVE  ScanFits(K, f, limit, i + 1, [groups |-> Flush(s), current |-> next, full |-> FALSE])
  <2>1. GroupFits(next, hash, {k[2]})
    BY GroupBegins
  <2> DEFINE v == [groups |-> Flush(s), current |-> next, full |-> FALSE]
  <2>2. /\ v.groups = Flush(s) /\ v.current = next /\ v.full = FALSE
        /\ v = [groups |-> v.groups, current |-> v.current, full |-> v.full]
        /\ next = [hash |-> next.hash, outs |-> next.outs]
    OBVIOUS
  <2> HIDE DEF v, next
  <2>3. ScanFits(K, f, limit, i + 1, v)
    BY <1>0, <1>3, <2>1, <2>2 DEF ScanFits
  <2> QED BY <2>3 DEF v
<1>4. CASE ~s.full /\ i = 0
  <2>1. s = NoScan
    BY <1>4 DEF ScanFits
  <2>2. s.groups = <<>> /\ s.current.hash = None /\ s.current.outs = <<>>
    BY <2>1 DEF NoScan, NoGroup
  <2>3. Flush(s) = s.groups
    BY <2>2, EmptyAny DEF Flush
  <2>4. s.current.hash # hash
    BY <1>1, <2>2, HashlocksAreBytes, ExtractAssumption
  <2>5. u = [groups |-> Flush(s), current |-> next, full |-> FALSE]
    BY <1>4, <2>3, <2>4 DEF ScanKey
  <2>6. Met(f, i + 1, hash) = {k[2]}
    <3>1. 1 .. i = {}
      BY <1>4
    <3>2. Met(f, i, hash) = {}
      BY <3>1 DEF Met
    <3> QED BY <3>2, MetGrows
  <2>7. GroupsFit(K, <<>>, {})
    <3>1. 1 .. 0 = {}
      OBVIOUS
    <3> QED BY <3>1, EmptyAny, FS_EmptySet DEF GroupsFit
  <2>8. SharedBefore(K, hash) = {}
    BY <1>0, <1>4, NoneBeforeFirst
  <2> QED BY <1>3, <1>4, <2>2, <2>3, <2>4, <2>5, <2>6, <2>7, <2>8, EmptyAny
<1>5. CASE ~s.full /\ i # 0
  <2>1. i \in 1 .. n /\ i < i + 1
    BY <1>0, <1>5
  <2>2. /\ Len(s.groups) < limit
        /\ s = [groups |-> s.groups, current |-> s.current, full |-> s.full]
        /\ s.current = [hash |-> s.current.hash, outs |-> s.current.outs]
        /\ GroupsFit(K, s.groups, SharedBefore(K, f[i][1]))
        /\ GroupFits(s.current, f[i][1], Met(f, i, f[i][1]))
    BY <1>5 DEF ScanFits
  <2>3. s.current.hash = f[i][1]
    BY <2>2 DEF GroupFits
  <2>4. CASE f[i][1] = hash
    <3> DEFINE c == [hash |-> s.current.hash, outs |-> Append(s.current.outs, k[2])]
               v == [groups |-> s.groups, current |-> c, full |-> FALSE]
    <3>1. u = [s EXCEPT !.current.outs = Append(@, k[2])]
      BY <1>5, <2>3, <2>4 DEF ScanKey
    <3>2. u = v
      <4>1. s.full = FALSE
        BY <1>5 DEF ScanFits
      <4>2. s = [groups |-> s.groups, full |-> FALSE,
                 current |-> [hash |-> s.current.hash, outs |-> s.current.outs]]
        BY <2>2, <4>1
      <4>3. u.groups = s.groups /\ u.full = FALSE
        BY <3>1, <4>2
      <4>4. u.current = [s.current EXCEPT !.outs = Append(@, k[2])]
        BY <3>1, <4>2
      <4>5. u.current = c
        BY <2>2, <4>4
      <4>6. u = [groups |-> u.groups, current |-> u.current, full |-> u.full]
        BY <3>1, <4>2
      <4> HIDE DEF u, c
      <4> QED BY <4>3, <4>5, <4>6
    <3>3. GroupFits(c, hash, Met(f, i, hash) \cup {k[2]})
      BY <2>2, <2>4, MetGrows, GroupGrows
    <3>4. GroupFits(c, hash, Met(f, i + 1, hash))
      BY <3>3, MetGrows
    <3>5. /\ v.groups = s.groups /\ v.current = c /\ v.full = FALSE
          /\ v = [groups |-> v.groups, current |-> v.current, full |-> v.full]
          /\ c = [hash |-> c.hash, outs |-> c.outs]
      OBVIOUS
    <3> HIDE DEF v, c
    <3>6. ScanFits(K, f, limit, i + 1, v)
      BY <1>0, <2>2, <2>4, <3>4, <3>5 DEF ScanFits
    <3> QED BY <3>2, <3>6
  <2>5. CASE f[i][1] # hash
    <3>1. Rank(f[i]) < Rank(k)
      BY <1>0, <2>1, <2>5, KeyRanks
    <3>2. ASSUME NEW j \in 1 .. n, i < j PROVE Rank(f[i]) < Rank(f[j])
      <4>1. j = i + 1 \/ i + 1 < j
        BY <1>0, <3>2
      <4>2. Rank(f[i]) \in Nat /\ Rank(k) \in Nat /\ Rank(f[j]) \in Nat
        BY <1>0, <2>1, KeyRanks
      <4>3. i + 1 < j => Rank(k) <= Rank(f[j])
        BY <1>0, KeyRanks
      <4> QED BY <3>1, <4>1, <4>2, <4>3
    <3>3. /\ GroupsFit(K, Flush(s), SharedUpTo(K, f[i][1]))
          /\ Flush(s) = s.groups \/ Len(Flush(s)) = Len(s.groups) + 1
          /\ Len(s.groups) \in Nat /\ Len(s.groups) < limit
      BY <1>5, <2>1, <3>2, BoundaryFits
    <3>4. SharedUpTo(K, f[i][1]) = SharedBefore(K, hash)
      <4> SUFFICES ASSUME NEW x \in SharedOf(K)
                   PROVE  ByteOrder[x] <= Rank(f[i]) <=> ByteOrder[x] < Rank(k)
        BY DEF SharedUpTo, SharedBefore, Rank
      <4>1. PICK j \in 1 .. n : f[j][1] = x
        BY SharedHasKey
      <4>2. ByteOrder[x] = Rank(f[j]) /\ Rank(f[j]) \in Nat /\ Rank(f[i]) \in Nat /\ Rank(k) \in Nat
        BY <1>0, <2>1, <4>1, KeyRanks DEF Rank
      <4>3. j = i \/ j < i \/ i < j
        BY <1>0
      <4>4. j < i => Rank(f[j]) <= Rank(f[i])
        BY <2>1, KeyRanks
      <4>5. j = i + 1 \/ i + 1 < j \/ j <= i
        BY <1>0
      <4>6. i + 1 < j => Rank(k) <= Rank(f[j])
        BY <1>0, KeyRanks
      <4>7. i < j => Rank(k) <= Rank(f[j])
        BY <1>0, <4>2, <4>5, <4>6
      <4> QED BY <3>1, <4>2, <4>3, <4>4, <4>7
    <3>5. Met(f, i + 1, hash) = {k[2]}
      <4>1. ASSUME NEW o \in Met(f, i, hash) PROVE FALSE
        <5>1. PICK j \in 1 .. i : f[j][1] = hash
          BY <4>1 DEF Met
        <5>2. j \in 1 .. n /\ (j = i \/ j < i)
          BY <1>0
        <5>3. Rank(f[j]) = Rank(k)
          BY <5>1 DEF Rank
        <5>4. j < i => Rank(f[j]) <= Rank(f[i])
          BY <2>1, <5>2, KeyRanks
        <5>5. Rank(f[j]) \in Nat /\ Rank(f[i]) \in Nat
          BY <2>1, <5>2, KeyRanks
        <5> QED BY <3>1, <5>2, <5>3, <5>4, <5>5
      <4> QED BY <4>1, MetGrows
    <3>6. CASE Flush(s) # s.groups /\ Len(Flush(s)) >= limit
      <4> DEFINE v == [groups |-> Flush(s), current |-> NoGroup, full |-> TRUE]
      <4>1. u = v
        BY <1>5, <2>3, <2>5, <3>6 DEF ScanKey
      <4>2. Len(Flush(s)) = limit
        BY <3>3, <3>6
      <4>3. f[i][1] \in Hashlocks
        BY <2>1, KeyRanks
      <4>4. First(K, Flush(s), SharedUpTo(K, f[i][1]))
        BY <3>3, <4>3, UpToIsFirst
      <4>5. v.groups = Flush(s) /\ v.full = TRUE
        OBVIOUS
      <4> HIDE DEF v
      <4>6. ScanFits(K, f, limit, i + 1, v)
        BY <4>2, <4>4, <4>5 DEF ScanFits
      <4> QED BY <4>1, <4>6
    <3>7. CASE ~(Flush(s) # s.groups /\ Len(Flush(s)) >= limit)
      <4>1. u = [groups |-> Flush(s), current |-> next, full |-> FALSE]
        BY <1>5, <2>3, <2>5, <3>7 DEF ScanKey
      <4>2. Len(Flush(s)) < limit
        BY <3>3, <3>7
      <4> QED BY <1>3, <1>5, <2>3, <2>5, <3>3, <3>4, <3>5, <4>1, <4>2
    <3> QED BY <3>6, <3>7
  <2> QED BY <2>4, <2>5
<1> QED BY <1>2, <1>4, <1>5 DEF ScanFits

\* The whole scan: as many groups as there are or are asked for, the first ones.
LEMMA ScanResult ==
  ASSUME NEW K \in SUBSET ScanKeys, IsFiniteSet(K), NEW limit \in Nat \ {0}
  PROVE  \E D : /\ First(K, Closed(Scanned(K, limit), limit), D)
                /\ (D = SharedOf(K) /\ Cardinality(D) <= limit) \/ Cardinality(D) = limit
<1> DEFINE f == KeysInOrder(K)
           n == Cardinality(K)
           scan == ScanOf(K, limit)
           s == scan[n]
           closed == Closed(Scanned(K, limit), limit)
<1>1. n \in Nat /\ DOMAIN f = 1 .. n /\ KeysFit(K, f, n)
  <2>1. /\ n \in Nat /\ DOMAIN f = 1 .. n
        /\ \A i \in DOMAIN f : f[i] \in K
        /\ \A k \in K : \E i \in DOMAIN f : f[i] = k
        /\ \A i, j \in DOMAIN f : i < j => HashlockKeyLess(f[i], f[j])
    BY SortedKeys
  <2> HIDE DEF f, n
  <2> QED BY <2>1 DEF KeysFit
<1>2. /\ scan[0] = NoScan
      /\ \A i \in 1 .. n : scan[i] = ScanKey(scan[i - 1], f[i], limit)
      /\ Scanned(K, limit) = s
  BY <1>1, ScanExists
<1> HIDE DEF f, n, scan
<1>3. \A i \in 0 .. n : ScanFits(K, f, limit, i, scan[i])
  <2> DEFINE X == {i \in Nat : i <= n => ScanFits(K, f, limit, i, scan[i])}
  <2>1. 0 \in X
    <3>1. /\ NoScan.full = FALSE /\ NoScan.groups = <<>>
          /\ NoScan = [groups |-> NoScan.groups, current |-> NoScan.current, full |-> NoScan.full]
          /\ NoScan.current = [hash |-> NoScan.current.hash, outs |-> NoScan.current.outs]
      BY DEF NoScan, NoGroup
    <3>2. Len(NoScan.groups) < limit
      BY <3>1, EmptyAny
    <3>3. ScanFits(K, f, limit, 0, NoScan)
      BY <3>1, <3>2 DEF ScanFits
    <3> QED BY <1>2, <3>3
  <2>2. ASSUME NEW i \in Nat, i \in X PROVE i + 1 \in X
    <3> SUFFICES ASSUME i + 1 <= n PROVE ScanFits(K, f, limit, i + 1, scan[i + 1])
      OBVIOUS
    <3>1. i \in 0 .. n - 1 /\ i + 1 \in 1 .. n /\ i <= n /\ i + 1 - 1 = i
      BY <1>1
    <3>2. ScanFits(K, f, limit, i, scan[i])
      BY <2>2, <3>1
    <3>3. scan[i + 1] = ScanKey(scan[i], f[i + 1], limit)
      BY <1>2, <3>1
    <3> QED BY <1>1, <3>1, <3>2, <3>3, ScanStepFits
  <2> HIDE DEF X
  <2>3. \A i \in Nat : i \in X
    BY <2>1, <2>2, AllNaturals
  <2> QED BY <1>1, <2>3 DEF X
<1>4. ScanFits(K, f, limit, n, s)
  BY <1>1, <1>3
<1>5. closed = IF Len(s.groups) < limit THEN Flush(s) ELSE s.groups
  BY <1>2 DEF Closed
<1> HIDE DEF s, closed
<1>6. \A groups, D : First(K, groups, D) => Len(groups) = Cardinality(D) /\ Len(groups) \in Nat
  BY AppendAny DEF First, GroupsFit
<1>7. CASE s.full
  <2>1. PICK D : First(K, s.groups, D)
    BY <1>4, <1>7 DEF ScanFits
  <2>2. Len(s.groups) = limit
    BY <1>4, <1>7 DEF ScanFits
  <2>3. closed = s.groups
    BY <1>5, <2>2
  <2> QED BY <1>6, <2>1, <2>2, <2>3 DEF closed
<1>8. CASE ~s.full /\ n = 0
  <2>1. s = NoScan
    BY <1>4, <1>8 DEF ScanFits
  <2>2. s.groups = <<>> /\ s.current.outs = <<>>
    BY <2>1 DEF NoScan, NoGroup
  <2>3. closed = <<>>
    BY <1>5, <2>2, EmptyAny DEF Flush
  <2>4. SharedOf(K) = {}
    <3>1. 1 .. n = {}
      BY <1>8
    <3> QED BY <1>1, <3>1, SharedHasKey
  <2>5. First(K, <<>>, {})
    <3>1. 1 .. 0 = {}
      OBVIOUS
    <3> QED BY <3>1, EmptyAny, FS_EmptySet DEF First, GroupsFit
  <2> QED BY <1>6, <2>3, <2>4, <2>5, EmptyAny DEF closed
<1>9. CASE ~s.full /\ n # 0
  <2> DEFINE D == SharedUpTo(K, f[n][1])
  <2>1. n \in 1 .. n /\ \A j \in 1 .. n : ~(n < j)
    BY <1>1, <1>9
  <2>2. /\ GroupsFit(K, Flush(s), D)
        /\ Flush(s) = s.groups \/ Len(Flush(s)) = Len(s.groups) + 1
        /\ Len(s.groups) \in Nat /\ Len(s.groups) < limit
    BY <1>1, <1>4, <1>9, <2>1, BoundaryFits
  <2>3. D = SharedOf(K)
    <3> SUFFICES ASSUME NEW x \in SharedOf(K) PROVE ByteOrder[x] <= ByteOrder[f[n][1]]
      BY DEF SharedUpTo
    <3>1. PICK j \in 1 .. n : f[j][1] = x
      BY <1>1, SharedHasKey
    <3>2. j = n \/ j < n
      BY <1>1
    <3>3. Rank(f[n]) \in Nat
      BY <1>1, <2>1, KeyRanks
    <3>4. Rank(f[j]) <= Rank(f[n])
      BY <1>1, <2>1, <3>2, <3>3, KeyRanks
    <3> QED BY <3>1, <3>4 DEF Rank
  <2>4. f[n][1] \in Hashlocks
    BY <1>1, <2>1, KeyRanks
  <2>5. First(K, Flush(s), D)
    BY <2>2, <2>4, UpToIsFirst
  <2>6. closed = Flush(s) /\ Len(Flush(s)) <= limit
    BY <1>5, <2>2
  <2> QED BY <1>6, <2>3, <2>5, <2>6 DEF closed
<1> QED BY <1>4, <1>7, <1>8, <1>9 DEF ScanFits

(***************************************************************************)
(* Each group is read from the primary table, which has all its members.   *)
(***************************************************************************)
LEMMA SiftAll ==
  ASSUME NEW s, Sequence(s)
  PROVE  Sift(s, DOMAIN s) = s
<1> DEFINE n == Len(s)
           pick(j) == CHOOSE i \in 1 .. n : Cardinality({x \in 1 .. n : x <= i}) = j
<1>1. n \in Nat /\ DOMAIN s = 1 .. n /\ s = [j \in 1 .. n |-> s[j]]
  BY LenProperties DEF Sequence
<1> HIDE DEF n
<1>2. Cardinality(1 .. n) = n
  BY <1>1, FS_Interval
<1>3. ASSUME NEW i \in 1 .. n PROVE Cardinality({x \in 1 .. n : x <= i}) = i
  <2>1. {x \in 1 .. n : x <= i} = 1 .. i
    BY <1>1
  <2>2. Cardinality(1 .. i) = i
    BY <1>1, FS_Interval
  <2> QED BY <2>1, <2>2
<1>4. ASSUME NEW j \in 1 .. n PROVE pick(j) = j
  <2> DEFINE size == [i \in 1 .. n |-> Cardinality({x \in 1 .. n : x <= i})]
  <2>1. \A i \in 1 .. n : size[i] = i
    BY <1>3
  <2>2. pick(j) = CHOOSE i \in 1 .. n : size[i] = j
    OBVIOUS
  <2> HIDE DEF size
  <2>3. (CHOOSE i \in 1 .. n : size[i] = j) = j
    BY <2>1
  <2> QED BY <2>2, <2>3
<1>5. Sift(s, DOMAIN s) = [j \in 1 .. n |-> s[pick(j)]]
  BY <1>1, <1>2 DEF Sift
<1> HIDE DEF pick
<1> QED BY <1>1, <1>4, <1>5

LEMMA ReadsThemAll ==
  ASSUME NEW d, NEW limit, NEW closed, closed = Closed(Scanned(d.htlc.byHashlock, limit), limit),
         Sequence(closed),
         \A i \in DOMAIN closed :
           IsGroup(closed[i]) /\ ToSet(closed[i].outs) \subseteq DOMAIN d.htlc.full
  PROVE  SharedHashlockGroups(d, limit) = closed
<1> DEFINE full == d.htlc.full
           read == [i \in DOMAIN closed |-> ReadGroup(full, closed[i])]
           kept(g) == {i \in DOMAIN g.outs : g.outs[i] \in DOMAIN full}
<1>1. ASSUME NEW i \in DOMAIN closed PROVE ReadGroup(full, closed[i]) = closed[i]
  <2> DEFINE g == closed[i]
  <2>1. IsGroup(g) /\ ToSet(g.outs) \subseteq DOMAIN full
    OBVIOUS
  <2> HIDE DEF g, full
  <2>2. {x \in DOMAIN g.outs : g.outs[x] \in DOMAIN full} = DOMAIN g.outs
    BY <2>1 DEF ToSet
  <2>3. Sift(g.outs, DOMAIN g.outs) = g.outs
    BY <2>1, SiftAll DEF IsGroup
  <2>4. ReadGroup(full, g) = [g EXCEPT !.outs = g.outs]
    BY <2>2, <2>3 DEF ReadGroup
  <2> QED BY <2>1, <2>4 DEF IsGroup, g
<1>2. closed = [i \in DOMAIN closed |-> closed[i]]
  BY LenProperties DEF Sequence
<1>3. read = closed
  BY <1>1, <1>2
<1>4. SharedHashlockGroups(d, limit) = Sift(read, {i \in DOMAIN read : Len(read[i].outs) > 1})
  BY DEF SharedHashlockGroups
<1> HIDE DEF read, full
<1>5. {i \in DOMAIN closed : Len(closed[i].outs) > 1} = DOMAIN closed
  BY DEF IsGroup
<1> QED BY <1>3, <1>4, <1>5, SiftAll

(***************************************************************************)
(* Every record keeps the parameters of the output it tells of.            *)
(***************************************************************************)
LocksTold(full) == \A o \in DOMAIN full : IsHtlc(o) /\ full[o].params = Out(o).script

LockInv == WalkInv /\ LocksTold(db.htlc.full)

LEMMA LocksStart == InitReaders => LockInv
<1> SUFFICES ASSUME InitReaders PROVE LockInv
  OBVIOUS
<1>1. DOMAIN db.htlc.full = {}
  BY DEF InitReaders, Init, EmptyDb, EmptyTable
<1> QED BY <1>1, WalkStart DEF LockInv, LocksTold

LEMMA SettledKeepsParams ==
  ASSUME NEW rec \in HtlcRecords, NEW s, NEW height
  PROVE  SettledRecord(rec, s, height).params = rec.params
BY DEF SettledRecord, HtlcRecords

LEMMA LocksStep == LockInv /\ [ReadersNext]_readerVars => LockInv'
<1> SUFFICES ASSUME LockInv, [ReadersNext]_readerVars PROVE LockInv'
  OBVIOUS
<1> DEFINE old == db.htlc.full
           new == db'.htlc.full
<1>1. IInv /\ LocksTold(old) /\ WalkInv'
  BY WalkStep DEF LockInv, WalkInv
<1>2. [Next]_vars
  BY DEF ReadersNext, readerVars, Ask, ReadPage, RefusePage, LeaveOff, FollowerMoves
<1>3. LocksTold(new)
  <2>1. CASE WipeTables
    <3>1. db' = WipeAbove(db, m.last)
      BY <2>1 DEF WipeTables
    <3>2. /\ DOMAIN new \subseteq DOMAIN old
          /\ \A o \in DOMAIN new : new[o] = old[o]
      BY <3>1, WipeSubtables
    <3> HIDE DEF old, new
    <3> QED BY <1>1, <3>2 DEF LocksTold
  <2>2. CASE ApplyToTables
    <3>0. PICK unread \in Unread : db' = ApplyBlockEvents(db, BlockEvents(db, got, h, unread))
      BY <2>2 DEF ApplyToTables
    <3> DEFINE ev == BlockEvents(db, got, h, unread)
               t == UpsertHtlcs(db.htlc, ev.locks)
               u == t.full
    <3>1. db' = ApplyBlockEvents(db, ev)
      BY <3>0
    <3>2. ev.locks = BlockLocks(BodyOf(got), h)
      BY DEF BlockEvents
    <3>3. new = AdvanceHtlcs(t, ev.spends, ev.height).full
      BY <3>1 DEF ApplyBlockEvents
    <3> HIDE DEF ev, old, new
    <3>4. \A o \in DOMAIN ev.locks : IsHtlc(o) /\ ev.locks[o].params = Out(o).script
      BY <3>2 DEF BlockLocks, LockedIn, LockRecord
    <3>5. /\ DOMAIN u = DOMAIN old \cup DOMAIN ev.locks
          /\ \A o \in DOMAIN ev.locks : u[o] = ev.locks[o]
          /\ \A o \in DOMAIN old \ DOMAIN ev.locks : u[o] = old[o]
      BY UpsertFull DEF old
    <3>6. LocksTold(u)
      <4> HIDE DEF u
      <4> QED BY <1>1, <3>4, <3>5 DEF LocksTold
    <3>7. \A o \in DOMAIN u : u[o] \in HtlcRecords
      <4>1. /\ pc = "apply" /\ got \in Histories /\ HeightOf(got) = h /\ h \in Nat
        BY <1>1, <2>2, NodeAssumption
           DEF ApplyToTables, ApplyBlock, IInv, TickInv, TickTypeOK, TickFitsCheckpoint, Heights
      <4>2. Len(got) # 0
        <5>1. Len(got) \in Nat
          BY <4>1, LenProperties DEF Histories
        <5> QED BY <4>1, <5>1 DEF HeightOf
      <4>3. TxsIn(BodyOf(got)) \subseteq Tx
        BY <4>1, <4>2, BodyOfType, LenProperties, ElementOfSeq DEF TxsIn
      <4>4. \A o \in DOMAIN ev.locks : ev.locks[o] \in HtlcRecords
        BY <3>2, <4>1, <4>3, BlockLocksOK
      <4>5. \A o \in DOMAIN old : old[o] \in HtlcRecords
        BY <1>1 DEF IInv, TablesOK, old
      <4> HIDE DEF u
      <4> QED BY <3>5, <4>4, <4>5
    <3> HIDE DEF t, u
    <3>8. /\ DOMAIN new = DOMAIN u
          /\ \A o \in DOMAIN new :
               new[o] = u[o] \/ \E s \in ev.spends : new[o] = SettledRecord(u[o], s, ev.height)
      BY <3>3, AdvanceFull DEF u
    <3> QED BY <3>6, <3>7, <3>8, SettledKeepsParams DEF LocksTold
  <2>3. CASE db' = db
    BY <1>1, <2>3
  <2> QED BY <1>2, <2>1, <2>2, <2>3 DEF Next, LeaveTables, vars
<1> QED BY <1>1, <1>3 DEF LockInv

\* In every environment the HTLCs that share a hashlock are grouped as the records
\* have it: as many groups as there are, or as are asked for, each complete, in
\* hashlock order and none left out between two (find_shared_hashlock_groups), for
\* every limit of at least one.
THEOREM SwapGroupsAlwaysInOrder ==
  ReadersSpec => [](SwapGroupsInOrder /\ \A limit \in Nat \ {0} : GroupsInOrder(limit))
<1>1. ASSUME LockInv, NEW limit \in Nat \ {0} PROVE GroupsInOrder(limit)
  <2> DEFINE full == db.htlc.full
             K == db.htlc.byHashlock
             groups == Closed(Scanned(K, limit), limit)
             hashes == {groups[i].hash : i \in DOMAIN groups}
  <2>1. IInv /\ LocksTold(full)
    BY <1>1 DEF LockInv, WalkInv
  <2>2. DOMAIN full \subseteq Outpoint
    BY <2>1 DEF IInv, TablesOK
  <2>3. IsFiniteSet(DOMAIN full)
    <3>1. HeightOf(meta.id) \in Int
      BY <2>1, LenProperties DEF IInv, TickInv, TickTypeOK, Metas, Histories, HeightOf
    <3> QED BY <2>1, <3>1, FiniteTables DEF IInv, NothingAboveCheckpoint
  <2> DEFINE key == [o \in DOMAIN full |-> <<full[o].params.hashLock, o>>]
  <2>4. K = {key[o] : o \in DOMAIN full}
    BY <2>1 DEF IInv, IndexesAgree, HashlockKeys, HashlockKey
  <2>5. \A o \in DOMAIN full : full[o].params.hashLock \in Hashlocks
    BY <2>1, <2>2 DEF LocksTold, Hashlocks
  <2> HIDE DEF full
  <2>6. K \in SUBSET ScanKeys
    BY <2>2, <2>4, <2>5 DEF ScanKeys
  <2>7. IsFiniteSet(K)
    <3> HIDE DEF key, K
    <3> QED BY <2>3, <2>4, FiniteImage
  <2>8. \A hash : Under(K, hash) = Holders(hash)
    BY <2>2, <2>4 DEF Under, Holders, full
  <2>9. SharedOf(K) = Shared
    <3>1. ASSUME NEW hash \in SharedOf(K) PROVE hash \in Shared
      <4>1. Cardinality(Holders(hash)) > 1
        BY <2>8 DEF SharedOf
      <4>2. Holders(hash) # {}
        BY <4>1, FS_EmptySet
      <4> QED BY <4>1, <4>2 DEF Shared, Holders
    <3>2. ASSUME NEW hash \in Shared PROVE hash \in SharedOf(K)
      BY <2>5, <2>8 DEF Shared, SharedOf, full
    <3> QED BY <3>1, <3>2
  <2> HIDE DEF key, K, groups
  <2>10. PICK D : /\ First(K, groups, D)
                  /\ (D = SharedOf(K) /\ Cardinality(D) <= limit) \/ Cardinality(D) = limit
    BY <2>6, <2>7, ScanResult DEF groups
  <2>11. /\ Sequence(groups) /\ IsFiniteSet(D) /\ Len(groups) = Cardinality(D)
         /\ \A i \in 1 .. Len(groups) :
              /\ groups[i].hash \in D /\ ToSet(groups[i].outs) = Holders(groups[i].hash)
              /\ IsGroup(groups[i])
         /\ \A hash \in D : \E i \in 1 .. Len(groups) : groups[i].hash = hash
         /\ \A i, j \in 1 .. Len(groups) :
              i < j => ByteOrder[groups[i].hash] < ByteOrder[groups[j].hash]
         /\ D \subseteq Shared
         /\ \A x \in D, y \in Shared \ D : ByteOrder[x] < ByteOrder[y]
    BY <2>8, <2>9, <2>10 DEF First, GroupsFit
  <2>12. DOMAIN groups = 1 .. Len(groups) /\ Len(groups) \in Nat
    BY <2>11, LenProperties DEF Sequence
  <2>13. hashes = D
    BY <2>11, <2>12
  <2>14. Len(groups) = Min({limit, Cardinality(Shared)})
    <3>1. IsFiniteSet(Shared)
      <4> DEFINE hashOf == [o \in DOMAIN full |-> full[o].params.hashLock]
      <4>1. IsFiniteSet({hashOf[o] : o \in DOMAIN full})
        <5> HIDE DEF hashOf
        <5> QED BY <2>3, FiniteImage
      <4>2. Shared \in SUBSET {hashOf[o] : o \in DOMAIN full}
        BY DEF Shared, full
      <4> QED BY <4>1, <4>2, FS_Subset
    <3>2. Cardinality(D) <= Cardinality(Shared)
      BY <2>11, <3>1, FS_Subset
    <3>3. Cardinality(D) \in Nat /\ Cardinality(Shared) \in Nat
      BY <2>11, <3>1, FS_CardinalityType
    <3> DEFINE c == Cardinality(Shared)
               l == Cardinality(D)
    <3>4. l <= c /\ l \in Nat /\ c \in Nat /\ ((l = c /\ l <= limit) \/ l = limit)
      BY <2>9, <2>10, <3>2, <3>3
    <3> HIDE DEF c, l
    <3>5. l = Min({limit, c})
      BY <3>4 DEF Min
    <3> QED BY <2>11, <3>5 DEF c, l
  <2>15. \A hash : Holders(hash) \subseteq DOMAIN full
    BY DEF Holders, full
  <2>16. SharedHashlockGroups(db, limit) = groups
    BY <2>11, <2>12, <2>15, ReadsThemAll DEF groups, K, full
  <2> DEFINE read == SharedHashlockGroups(db, limit)
  <2>17. {read[i].hash : i \in DOMAIN read} = D
    BY <2>13, <2>16
  <2>18. /\ Len(read) = Min({limit, Cardinality(Shared)})
         /\ \A i \in DOMAIN read : ToSet(read[i].outs) = Holders(read[i].hash)
         /\ \A i, j \in DOMAIN read :
              i < j => ByteOrder[read[i].hash] < ByteOrder[read[j].hash]
         /\ \A listed \in D, other \in Shared \ D : ByteOrder[listed] < ByteOrder[other]
    BY <2>11, <2>12, <2>14, <2>16
  <2> QED BY ONLY <2>17, <2>18 DEF GroupsInOrder
<1>2. LockInv => SwapGroupsInOrder /\ \A limit \in Nat \ {0} : GroupsInOrder(limit)
  BY <1>1 DEF SwapGroupsInOrder
<1> QED BY <1>2, LocksStart, LocksStep, PTL DEF ReadersSpec

(***************************************************************************)
(* The answers to a POST.  First, what the reads make of tables that are   *)
(* the index of a chain, and the node of its own chain.                    *)
(***************************************************************************)
LEMMA RecordsUnderHashlock ==
  ASSUME NEW d, IndexesAgree(d.htlc), NEW hash
  PROVE  /\ UnderHashlock(d, hash) = {o \in DOMAIN d.htlc.full :
                                        d.htlc.full[o].params.hashLock = hash}
         /\ LookupByHashlock(d, hash) = [o \in UnderHashlock(d, hash) |-> d.htlc.full[o]]
<1> DEFINE full == d.htlc.full
           keys == {<<full[o].params.hashLock, o>> : o \in DOMAIN full}
<1>1. d.htlc.byHashlock = keys
  BY DEF IndexesAgree, HashlockKeys, HashlockKey
<1>2. {k[2] : k \in {x \in keys : x[1] = hash}} = {o \in DOMAIN full : full[o].params.hashLock = hash}
  <2> DEFINE K == {y \in keys : y[1] = hash}
             Os == {o \in DOMAIN full : full[o].params.hashLock = hash}
  <2>1. ASSUME NEW k \in K PROVE k[2] \in Os
    <3>1. PICK o \in DOMAIN full : k = <<full[o].params.hashLock, o>>
      OBVIOUS
    <3> QED BY <3>1
  <2>2. ASSUME NEW o \in Os PROVE \E k \in K : k[2] = o
    <3>1. <<full[o].params.hashLock, o>> \in K /\ <<full[o].params.hashLock, o>>[2] = o
      OBVIOUS
    <3> QED BY <3>1
  <2> HIDE DEF K, Os
  <2>3. {k[2] : k \in K} = Os
    BY <2>1, <2>2
  <2> QED BY <2>3 DEF K, Os
<1>3. UnderHashlock(d, hash) = {o \in DOMAIN full : full[o].params.hashLock = hash}
  BY <1>1, <1>2 DEF UnderHashlock
<1>4. DOMAIN full \cap UnderHashlock(d, hash) = UnderHashlock(d, hash)
  BY <1>3
<1> QED BY <1>3, <1>4 DEF LookupByHashlock, Keep

LEMMA OutputsQuoting ==
  ASSUME NEW d, MirrorsHold(d), NEW quote, quote # None
  PROVE  FindSettlementsByQuoteId(d, quote)
           = {o \in DOMAIN d.datum.forward : d.datum.forward[o].quote = quote}
<1> DEFINE rows == d.datum.forward
           keys == {<<rows[o].quote, o>> : o \in {x \in DOMAIN rows : rows[x].quote # None}}
<1>1. d.datum.byQuote = keys
  BY DEF MirrorsHold, QuoteKeys
<1>2. {k[2] : k \in {x \in keys : x[1] = quote}} = {o \in DOMAIN rows : rows[o].quote = quote}
  <2> DEFINE K == {y \in keys : y[1] = quote}
             Os == {o \in DOMAIN rows : rows[o].quote = quote}
  <2>1. ASSUME NEW k \in K PROVE k[2] \in Os
    <3>1. PICK o \in {x \in DOMAIN rows : rows[x].quote # None} : k = <<rows[o].quote, o>>
      OBVIOUS
    <3> QED BY <3>1
  <2>2. ASSUME NEW o \in Os PROVE \E k \in K : k[2] = o
    <3>1. <<rows[o].quote, o>> \in K /\ <<rows[o].quote, o>>[2] = o
      OBVIOUS
    <3> QED BY <3>1
  <2> HIDE DEF K, Os
  <2>3. {k[2] : k \in K} = Os
    BY <2>1, <2>2
  <2> QED BY <2>3 DEF K, Os
<1> QED BY <1>1, <1>2 DEF FindSettlementsByQuoteId

LEMMA FirstOfOne ==
  ASSUME NEW option, NEW default
  PROVE  /\ \A x : option = {x} => FirstOr(option, default) = x
         /\ option = {} => FirstOr(option, default) = default
BY DEF FirstOr

LEMMA GetOne ==
  ASSUME NEW table, NEW key
  PROVE  /\ key \in DOMAIN table => Get(table, key) = {table[key]}
         /\ key \notin DOMAIN table => Get(table, key) = {}
BY DEF Get

LEMMA LocalAnswersTrue ==
  ASSUME NEW d, NEW c, IndexOf(d) = RefIndex(c), IndexesAgree(d.htlc), MirrorsHold(d),
         NEW item, item = [method |-> item.method, arg |-> item.arg],
         Refused(item) = {}, item.method \in Local
  PROVE  LocalAnswer(d, item).result = TrueAnswer(c, item)
<1> DEFINE w == item.method
           a == item.arg
           full == d.htlc.full
           under == {o \in DOMAIN full : full[o].params.hashLock = a}
<1>1. d.htlc.full = RefHtlcs(c) /\ d.datum.forward = RefDatums(c)
  BY IndexParts
<1>2. \A x : Answer(x).result = x /\ Refusal(x).result = None
  BY DEF Answer, Refusal
<1>3. UnderHashlock(d, a) = under /\ LookupByHashlock(d, a) = [o \in under |-> full[o]]
  <2>1. UnderHashlock(d, a) = under
    BY RecordsUnderHashlock
  <2>2. LookupByHashlock(d, a) = [o \in UnderHashlock(d, a) |-> full[o]]
    BY RecordsUnderHashlock
  <2> HIDE DEF under
  <2> QED BY <2>1, <2>2
<1>4. CASE w = "ping"
  <2>1. LocalAnswer(d, item) = Answer(TRUE)
    BY <1>4 DEF LocalAnswer
  <2>2. TrueAnswer(c, item) = TRUE
    BY <1>4 DEF TrueAnswer
  <2> QED BY <1>2, <2>1, <2>2
<1>5. CASE w = "htlc_status"
  <2>1. LocalAnswer(d, item) = FirstOr({Answer(rec) : rec \in GetHtlc(d, a)}, Refusal(BadParams))
    BY <1>5 DEF LocalAnswer
  <2>2. TrueAnswer(c, item) = IF a \in DOMAIN full THEN full[a] ELSE None
    BY <1>1, <1>5 DEF TrueAnswer
  <2>3. CASE a \in DOMAIN full
    <3>1. {Answer(rec) : rec \in GetHtlc(d, a)} = {Answer(full[a])}
      BY <2>3, GetOne DEF GetHtlc
    <3>2. LocalAnswer(d, item) = Answer(full[a])
      BY <2>1, <3>1, FirstOfOne
    <3> QED BY <1>2, <2>2, <2>3, <3>2
  <2>4. CASE a \notin DOMAIN full
    <3>1. {Answer(rec) : rec \in GetHtlc(d, a)} = {}
      BY <2>4, GetOne DEF GetHtlc
    <3>2. LocalAnswer(d, item) = Refusal(BadParams)
      BY <2>1, <3>1, FirstOfOne
    <3> QED BY <1>2, <2>2, <2>4, <3>2
  <2> QED BY <2>3, <2>4
<1>6. CASE w = "htlc_lookup_by_hashlock"
  <2>1. LocalAnswer(d, item) = Answer(LookupByHashlock(d, a))
    BY <1>6 DEF LocalAnswer
  <2>2. TrueAnswer(c, item) = [o \in under |-> full[o]]
    BY <1>1, <1>6 DEF TrueAnswer
  <2> QED BY <1>2, <1>3, <2>1, <2>2
<1>7. CASE w = "detect_in_chain_swaps"
  <2>1. LocalAnswer(d, item) = Answer(SharedUnder(d, a))
    BY <1>7 DEF LocalAnswer
  <2>2. TrueAnswer(c, item) = IF Cardinality(under) > 1 THEN {[o \in under |-> full[o]]} ELSE {}
    BY <1>1, <1>7 DEF TrueAnswer
  <2> HIDE DEF under
  <2>4. SharedUnder(d, a) =
          {g \in {[o \in under |-> full[o]]} : Cardinality(under) > 1 /\ Cardinality(DOMAIN g) > 1}
    BY <1>3 DEF SharedUnder
  <2>5. DOMAIN [o \in under |-> full[o]] = under
    OBVIOUS
  <2> QED BY <1>2, <2>1, <2>2, <2>4, <2>5
<1>8. CASE w = "get_output_datum"
  <2> DEFINE rows == d.datum.forward
             told(row) == [quote |-> row.quote, unhonorable |-> row.unhonorable]
  <2>1. LocalAnswer(d, item) = Answer(FirstOr(GetOutputDatum(d, a), NoSignal))
    BY <1>8 DEF LocalAnswer
  <2>2. TrueAnswer(c, item) =
          IF a \in DOMAIN rows THEN [f \in {"quote", "unhonorable"} |-> rows[a][f]]
          ELSE [quote |-> None, unhonorable |-> FALSE]
    BY <1>1, <1>8 DEF TrueAnswer
  <2>3. GetOutputDatum(d, a) = {told(row) : row \in Get(rows, a)}
    BY DEF GetOutputDatum
  <2>4. CASE a \in DOMAIN rows
    <3>1. GetOutputDatum(d, a) = {told(rows[a])}
      BY <2>3, <2>4, GetOne
    <3>2. told(rows[a]) = [f \in {"quote", "unhonorable"} |-> rows[a][f]]
      OBVIOUS
    <3> HIDE DEF told, rows
    <3>3. LocalAnswer(d, item) = Answer(told(rows[a]))
      BY <2>1, <3>1, FirstOfOne
    <3> QED BY <1>2, <2>2, <2>4, <3>2, <3>3
  <2>5. CASE a \notin DOMAIN rows
    <3>1. GetOutputDatum(d, a) = {}
      BY <2>3, <2>5, GetOne
    <3>2. LocalAnswer(d, item) = Answer(NoSignal)
      BY <2>1, <3>1, FirstOfOne
    <3> QED BY <1>2, <2>2, <2>5, <3>2 DEF NoSignal
  <2> QED BY <2>4, <2>5
<1>9. CASE w = "find_settlements_by_quote_id"
  <2>1. LocalAnswer(d, item) = Answer(FindSettlementsByQuoteId(d, a))
    BY <1>9 DEF LocalAnswer
  <2>2. TrueAnswer(c, item) = {o \in DOMAIN d.datum.forward : d.datum.forward[o].quote = a}
    BY <1>1, <1>9 DEF TrueAnswer
  <2>3. a # None
    <3>1. w \in WithArgument
      BY <1>9 DEF WithArgument, Local, Remote
    <3> QED BY <3>1 DEF Refused
  <2> QED BY <1>2, <2>1, <2>2, <2>3, OutputsQuoting
<1> QED BY <1>4, <1>5, <1>6, <1>7, <1>8, <1>9 DEF Local

\* A hit of the spent-by cache, and a miss.
LEMMA CachedSpendTrue ==
  ASSUME NEW d, NEW c, IndexOf(d) = RefIndex(c), NEW item, item.method = "get_output_spent_by"
  PROVE  /\ \A row \in CachedSpentBy(d, item.arg) : row = TrueAnswer(c, item)
         /\ CachedSpentBy(d, item.arg) = {} => item.arg \notin DOMAIN RefSpentBy(c)
<1>1. d.spentBy = RefSpentBy(c)
  BY IndexParts
<1>2. TrueAnswer(c, item) =
        IF item.arg \in DOMAIN RefSpentBy(c) THEN RefSpentBy(c)[item.arg] ELSE None
  BY DEF TrueAnswer
<1> QED BY <1>1, <1>2, GetOne DEF CachedSpentBy

\* The node looks a spend up in its own chain, where an output is spent once.
LEMMA NodeSpendTrue ==
  ASSUME NEW c, ValidChain(c), NEW item, item.method = "get_output_spent_by"
  PROVE  FirstOr({Spent(s, "node") : s \in SpendersIn(c, item.arg)}, Unspent("node")).by
           = TrueAnswer(c, item)
<1> DEFINE o == item.arg
           row(x) == [tx |-> TxAt(c, x[1]), input |-> x[2], height |-> x[1][1] - 1]
<1>1. TrueAnswer(c, item) = IF o \in DOMAIN RefSpentBy(c) THEN RefSpentBy(c)[o] ELSE None
  BY DEF TrueAnswer
<1>2. /\ SpendersIn(c, o) = {row(x) : x \in SpendersOf(c, o)}
      /\ o \in DOMAIN RefSpentBy(c) <=> SpendersOf(c, o) # {}
  BY DEF SpendersIn, SpendersOf, RefSpentBy
<1>3. \A s, source : Spent(s, source).by = s /\ Unspent(source).by = None
  BY DEF Spent, Unspent
<1>4. CASE SpendersOf(c, o) = {}
  <2>1. {Spent(s, "node") : s \in SpendersIn(c, o)} = {}
    BY <1>2, <1>4
  <2> QED BY <1>1, <1>2, <1>3, <1>4, <2>1, FirstOfOne
<1>5. CASE SpendersOf(c, o) # {}
  <2> DEFINE x == CHOOSE y \in SpendersOf(c, o) : TRUE
  <2>1. x \in SpendersOf(c, o)
    BY <1>5
  <2>2. RefSpentBy(c)[o] = row(x)
    BY <1>2, <1>5 DEF RefSpentBy
  <2> HIDE DEF x
  <2>3. SpendersOf(c, o) = {x}
    BY <2>1 DEF SpendersOf, ValidChain
  <2> HIDE DEF row
  <2>4. {Spent(s, "node") : s \in SpendersIn(c, o)} = {Spent(row(x), "node")}
    BY <1>2, <2>3
  <2>5. FirstOr({Spent(s, "node") : s \in SpendersIn(c, o)}, Unspent("node")) = Spent(row(x), "node")
    BY <2>4, FirstOfOne
  <2>6. TrueAnswer(c, item) = row(x)
    BY <1>1, <1>2, <1>5, <2>2
  <2> QED BY <1>3, <2>5, <2>6
<1> QED BY <1>4, <1>5

(***************************************************************************)
(* The POST under way fits what its handler has awaited.  A call to the    *)
(* node for an output's spend is under way only if the cache missed, and   *)
(* the chain it missed in is one of those observed; the checkpoint a       *)
(* status answer tells of is the stored one until the follower commits.    *)
(***************************************************************************)
Awaits == {"node", "tip", "meta", "count"}

PostFits ==
  /\ Sequence(post.answers)
  /\ post = [items |-> post.items, answers |-> post.answers, at |-> post.at,
             tip |-> post.tip, meta |-> post.meta]
  /\ post.at \in {"none", "item", "sent"} \cup Awaits
  /\ Serving => post.items \in Posts
  /\ post.at = "node" =>
       /\ Item.method = "get_output_spent_by"
       /\ \E c \in during.chains : Item.arg \notin DOMAIN RefSpentBy(c)
  /\ post.at \in {"tip", "meta", "count"} => Item.method = "get_indexer_status"
  /\ post.at = "count" /\ ~during.torn => post.meta = meta

LEMMA AnswerOf ==
  ASSUME PostFits, NEW answer, AnswerWith(answer)
  PROVE  /\ post' = [items |-> post.items, answers |-> Append(post.answers, answer),
                     at |-> "item", tip |-> 0, meta |-> MetaDefault]
         /\ Sequence(post'.answers)
         /\ Answers /\ LastAnswer = answer
<1>1. post' = [items |-> post.items, answers |-> Append(post.answers, answer),
               at |-> "item", tip |-> 0, meta |-> MetaDefault]
  BY DEF AnswerWith, NoPost
<1>2. post'.answers = Append(post.answers, answer)
  BY <1>1
<1> QED BY <1>1, <1>2, AppendAny DEF PostFits, Answers, LastAnswer

LEMMA PostInit == ObservedInit => Init /\ PostFits
<1> SUFFICES ASSUME ObservedInit PROVE Init /\ PostFits
  OBVIOUS
<1>1. Init /\ post = NoPost
  BY DEF ObservedInit, InitApi
<1>2. post.at = "none" /\ post.answers = <<>>
  BY <1>1 DEF NoPost
<1>3. post = [items |-> post.items, answers |-> post.answers, at |-> post.at,
              tip |-> post.tip, meta |-> post.meta]
  BY <1>1 DEF NoPost
<1> QED BY <1>1, <1>2, <1>3, EmptyAny DEF PostFits, Serving

LEMMA FollowerSteps == [ObservedNext]_<<apiVars, during>> => [Next]_vars
BY DEF ObservedNext, ApiNext, apiVars

Answering == \E answer : AnswerWith(answer)

MissCache ==
  /\ Unanswered /\ Item.method = "get_output_spent_by"
  /\ CachedSpentBy(db, Item.arg) = {}
  /\ post' = [post EXCEPT !.at = "node"]

\* What a client's step does to the post.
LEMMA ClientSteps ==
  ASSUME Client
  PROVE  \/ Receive
         \/ Serving /\ Answering
         \/ MissCache
         \/ BeginStatus \/ NodeAnswersHeight \/ ReadMeta \/ Reply
         \/ post' = NoPost
<1>1. CASE Refuse
  BY <1>1 DEF Refuse, Unanswered, Serving, Answering
<1>2. CASE AnswerLocally
  BY <1>2 DEF AnswerLocally, Unanswered, Serving, Answering
<1>3. CASE ReadCache
  BY <1>3 DEF ReadCache, Unanswered, Serving, Answering, MissCache
<1>4. CASE NodeAnswersSpentBy
  BY <1>4 DEF NodeAnswersSpentBy, Serving, Answering
<1>5. CASE FallBack
  BY <1>5 DEF FallBack, Serving, Answering
<1>6. CASE CallFails
  BY <1>6 DEF CallFails, Serving, Answering
<1>7. CASE ReadCount
  BY <1>7 DEF ReadCount, Serving, Answering
<1>8. CASE ReadFails
  BY <1>8 DEF ReadFails, Unanswered, Serving, Answering
<1> QED BY <1>1, <1>2, <1>3, <1>4, <1>5, <1>6, <1>7, <1>8 DEF Client, Serve, HangUp

LEMMA PostStep ==
  ASSUME PostFits, IInv, OneChain, IndexInv, [ObservedNext]_<<apiVars, during>>
  PROVE  PostFits'
<1>1. CASE Receive /\ UNCHANGED vars
  <2>1. PICK items \in Posts : post' = [items |-> items, answers |-> <<>>, at |-> "item",
                                        tip |-> 0, meta |-> MetaDefault]
    BY <1>1 DEF Receive, NoPost
  <2> QED BY <2>1, EmptyAny DEF PostFits, Serving
<1>2. CASE Serving /\ Answering
  <2>1. PICK answer : AnswerWith(answer)
    BY <1>2 DEF Answering
  <2>2. /\ post' = [items |-> post.items, answers |-> Append(post.answers, answer),
                    at |-> "item", tip |-> 0, meta |-> MetaDefault]
        /\ Sequence(post'.answers)
    BY <2>1, AnswerOf
  <2> QED BY <1>2, <2>2 DEF PostFits, Serving
<1>3. CASE MissCache /\ UNCHANGED vars /\ Observe
  <2>1. post' = [items |-> post.items, answers |-> post.answers, at |-> "node",
                 tip |-> post.tip, meta |-> post.meta]
    BY <1>3 DEF MissCache, PostFits
  <2>2. View \in during'.chains
    BY <1>3, <2>1 DEF Observe, Awaiting, Current
  <2>3. Item.arg \notin DOMAIN RefSpentBy(View)
    <3>1. IndexOf(db) = RefIndex(View)
      BY PromiseHolds DEF PromiseState, IndexInv
    <3> QED BY <1>3, <3>1, CachedSpendTrue DEF MissCache
  <2>4. Item' = Item /\ Item.method = "get_output_spent_by" /\ post.items \in Posts
    BY <1>3, <2>1 DEF Item, MissCache, Unanswered, PostFits, Serving
  <2>5. PICK c : c = View
    OBVIOUS
  <2>6. c \in during'.chains /\ Item'.arg \notin DOMAIN RefSpentBy(c)
    BY <2>2, <2>3, <2>4, <2>5
  <2>7. RefSpentBy(c) = RefSpentBy(c)'
    OBVIOUS
  <2> QED BY <2>1, <2>4, <2>6, <2>7 DEF PostFits, Serving, Awaits
<1>4. CASE BeginStatus
  <2>1. post' = [items |-> post.items, answers |-> post.answers, at |-> "tip",
                 tip |-> post.tip, meta |-> post.meta]
    BY <1>4 DEF BeginStatus, PostFits
  <2>2. Item' = Item
    BY <2>1 DEF Item
  <2> QED BY <1>4, <2>1, <2>2 DEF PostFits, BeginStatus, Unanswered, Serving, Awaits
<1>5. CASE NodeAnswersHeight
  <2>1. post' = [items |-> post.items, answers |-> post.answers, at |-> "meta",
                 tip |-> HeightOfChain(chain), meta |-> post.meta]
    BY <1>5 DEF NodeAnswersHeight, PostFits
  <2>2. Item' = Item
    BY <2>1 DEF Item
  <2> QED BY <1>5, <2>1, <2>2 DEF PostFits, NodeAnswersHeight, Serving, Awaits
<1>6. CASE ReadMeta /\ UNCHANGED vars
  <2>1. post' = [items |-> post.items, answers |-> post.answers, at |-> "count",
                 tip |-> post.tip, meta |-> meta] /\ meta' = meta
    BY <1>6 DEF ReadMeta, PostFits, vars
  <2>2. Item' = Item
    BY <2>1 DEF Item
  <2> QED BY <1>6, <2>1, <2>2 DEF PostFits, ReadMeta, Serving, Awaits
<1>7. CASE post' = NoPost
  BY <1>7, EmptyAny DEF NoPost, PostFits, Serving
<1>8. CASE UNCHANGED post /\ Observe
  <2>1. Item' = Item /\ post' = post
    BY <1>8 DEF Item
  <2>2. ASSUME post.at \in Awaits
        PROVE  during' = [chains |-> during.chains \cup Current \cup Current',
                          torn   |-> /\ post.at \in {"meta", "count"}
                                     /\ during.torn \/ db' # db \/ meta' # meta]
    BY <1>8, <2>1, <2>2 DEF Observe, Awaiting, Awaits
  <2>3. ASSUME post.at = "node"
        PROVE  \E c \in during'.chains : Item.arg \notin DOMAIN RefSpentBy(c)
    BY <2>2, <2>3 DEF PostFits, Awaits
  <2>4. ASSUME post.at = "count", ~during'.torn PROVE post.meta = meta'
    BY <2>2, <2>4 DEF PostFits, Awaits
  <2> QED BY <2>1, <2>3, <2>4 DEF PostFits, Serving
<1>9. CASE UNCHANGED <<apiVars, during>>
  BY <1>9 DEF apiVars, vars, PostFits, Item, Serving
<1>10. CASE Reply
  <2>1. post' = [items |-> post.items, answers |-> post.answers, at |-> "sent",
                 tip |-> post.tip, meta |-> post.meta]
    BY <1>10 DEF Reply, PostFits
  <2> QED BY <1>10, <2>1 DEF PostFits, Serving, Awaits
<1> QED BY <1>1, <1>2, <1>3, <1>4, <1>5, <1>6, <1>7, <1>8, <1>9, <1>10, ClientSteps
        DEF ObservedNext, ApiNext

WasTrue ==
  Answers /\ Refused(Item) = {} /\ Item.method # "get_indexer_status"
    /\ LastAnswer.error \notin {Upstream, Internal} =>
    \E c \in during.chains \cup Current : Told(Item, LastAnswer) = TrueAnswer(c, Item)

CountsItsBlock ==
  Answers /\ Item.method = "get_indexer_status" /\ LastAnswer.error = 0
    /\ ~during.torn /\ pc # "save" =>
    LastAnswer.result.count = Cardinality(DOMAIN RefHtlcs(LastAnswer.result.id))

\* The steps that give the item under way its answer.
LEMMA AnswerSteps ==
  ASSUME PostFits, [ObservedNext]_<<apiVars, during>>, Answers
  PROVE  Client /\ (Refuse \/ AnswerLocally \/ ReadCache \/ NodeAnswersSpentBy
                      \/ FallBack \/ CallFails \/ ReadCount \/ ReadFails)
<1>1. Len(post.answers) \in Nat /\ Len(post'.answers) = Len(post.answers) + 1
  BY AppendAny DEF PostFits, Answers
<1>2. ASSUME post'.answers = post.answers \/ post'.answers = <<>> PROVE FALSE
  BY <1>1, <1>2, EmptyAny
<1>3. ASSUME post' = post \/ post' = NoPost PROVE FALSE
  <2>1. post'.answers = post.answers \/ post'.answers = <<>>
    BY <1>3 DEF NoPost
  <2> QED BY <1>2, <2>1
<1>4. ASSUME Receive PROVE FALSE
  <2>1. post'.answers = <<>>
    BY <1>4 DEF Receive, NoPost
  <2> QED BY <1>2, <2>1
<1>5. ASSUME BeginStatus \/ NodeAnswersHeight \/ ReadMeta \/ Reply PROVE FALSE
  <2>1. post'.answers = post.answers
    BY <1>5 DEF BeginStatus, NodeAnswersHeight, ReadMeta, Reply, PostFits
  <2> QED BY <1>2, <2>1
<1>6. Client
  BY <1>3 DEF ObservedNext, ApiNext, apiVars
<1> QED BY <1>3, <1>4, <1>5, <1>6 DEF Client, Serve, HangUp

LEMMA AnswerWasTrue ==
  ASSUME PostFits, IInv, OneChain, IndexInv, ValidChain(chain), [ObservedNext]_<<apiVars, during>>
  PROVE  WasTrue
<1> SUFFICES ASSUME Answers, Refused(Item) = {}, Item.method # "get_indexer_status",
                    LastAnswer.error \notin {Upstream, Internal}
             PROVE  \E c \in during.chains \cup Current :
                       Told(Item, LastAnswer) = TrueAnswer(c, Item)
  BY DEF WasTrue
<1>1. View \in Current /\ chain \in Current /\ IndexOf(db) = RefIndex(View)
  BY PromiseHolds DEF Current, PromiseState, IndexInv
<1>2. \A x : Answer(x).result = x /\ Refusal(x).error = x
  BY DEF Answer, Refusal
<1>3. \A answer : AnswerWith(answer) => LastAnswer = answer
  BY AnswerOf
<1>4. \A s, source : Spent(s, source).by = s /\ Unspent(source).by = None
  BY DEF Spent, Unspent
<1>5. CASE Refuse
  BY <1>5 DEF Refuse
<1>6. CASE AnswerLocally
  <2>1. LastAnswer = LocalAnswer(db, Item) /\ Item.method \in Local
    BY <1>3, <1>6 DEF AnswerLocally
  <2>2. Item = [method |-> Item.method, arg |-> Item.arg]
    <3>1. /\ post.items \in Posts /\ Len(post.answers) < Len(post.items)
          /\ Len(post.answers) \in Nat
      BY <1>6, AppendAny DEF AnswerLocally, Unanswered, PostFits, Serving
    <3>2. Len(post.items) \in Nat /\ DOMAIN post.items = 1 .. Len(post.items)
      BY <3>1, PostsAssumption
    <3>3. Len(post.answers) + 1 \in DOMAIN post.items
      BY <3>1, <3>2
    <3> QED BY <3>1, <3>3, PostsAssumption DEF Item
  <2>3. LocalAnswer(db, Item).result = TrueAnswer(View, Item)
    BY <1>1, <2>1, <2>2, LocalAnswersTrue DEF IInv
  <2>4. Item.method # "get_output_spent_by"
    BY <2>1 DEF Local
  <2> QED BY <1>1, <2>1, <2>3, <2>4 DEF Told
<1>7. CASE ReadCache
  <2>1. Item.method = "get_output_spent_by"
    BY <1>7 DEF ReadCache
  <2>2. CASE \E row \in CachedSpentBy(db, Item.arg) :
               AnswerWith(Answer(Spent(row, "indexer-cache")))
    <3>1. PICK row \in CachedSpentBy(db, Item.arg) :
            AnswerWith(Answer(Spent(row, "indexer-cache")))
      BY <2>2
    <3>2. row = TrueAnswer(View, Item)
      BY <1>1, <2>1, CachedSpendTrue
    <3>3. Told(Item, LastAnswer) = row
      BY <1>2, <1>3, <1>4, <2>1, <3>1 DEF Told
    <3> QED BY <1>1, <3>2, <3>3
  <2>3. CASE post' = [post EXCEPT !.at = "node"]
    <3>1. post'.answers = post.answers
      BY <2>3 DEF PostFits
    <3>2. Len(post.answers) \in Nat
      BY AppendAny DEF PostFits
    <3> QED BY <3>1, <3>2 DEF Answers
  <2> QED BY <1>7, <2>2, <2>3 DEF ReadCache
<1>8. CASE NodeAnswersSpentBy
  <2> DEFINE found == FirstOr({Spent(s, "node") : s \in SpendersIn(chain, Item.arg)},
                              Unspent("node"))
  <2>1. Item.method = "get_output_spent_by"
    BY <1>8 DEF NodeAnswersSpentBy, PostFits
  <2>2. LastAnswer = Answer(found)
    BY <1>3, <1>8 DEF NodeAnswersSpentBy
  <2>3. found.by = TrueAnswer(chain, Item)
    BY <2>1, NodeSpendTrue
  <2> HIDE DEF found
  <2>4. Told(Item, LastAnswer) = found.by
    BY <1>2, <2>1, <2>2 DEF Told
  <2> QED BY <1>1, <2>3, <2>4
<1>9. CASE FallBack
  <2>1. /\ Item.method = "get_output_spent_by"
        /\ \E c \in during.chains : Item.arg \notin DOMAIN RefSpentBy(c)
    BY <1>9 DEF FallBack, PostFits
  <2>2. Told(Item, LastAnswer) = None
    BY <1>2, <1>3, <1>4, <1>9, <2>1 DEF FallBack, Told
  <2>3. \A c : Item.arg \notin DOMAIN RefSpentBy(c) => TrueAnswer(c, Item) = None
    BY <2>1 DEF TrueAnswer
  <2> QED BY <2>1, <2>2, <2>3
<1>10. CASE CallFails
  BY <1>2, <1>3, <1>10 DEF CallFails
<1>11. CASE ReadCount
  BY <1>11 DEF ReadCount, PostFits
<1>12. CASE ReadFails
  <2>1. LastAnswer = Refusal(Internal)
    BY <1>3, <1>12 DEF ReadFails
  <2> QED BY <1>2, <2>1
<1> QED BY <1>5, <1>6, <1>7, <1>8, <1>9, <1>10, <1>11, <1>12, AnswerSteps

LEMMA StatusCounts ==
  ASSUME PostFits, IndexInv, [ObservedNext]_<<apiVars, during>>
  PROVE  CountsItsBlock
<1> SUFFICES ASSUME Answers, Item.method = "get_indexer_status", LastAnswer.error = 0,
                    ~during.torn, pc # "save"
             PROVE  LastAnswer.result.count
                      = Cardinality(DOMAIN RefHtlcs(LastAnswer.result.id))
  BY DEF CountsItsBlock
<1>1. \A answer : AnswerWith(answer) => LastAnswer = answer
  BY AnswerOf
<1>2. \A code : Refusal(code).error = code
  BY DEF Refusal
<1>3. CASE Refuse
  <2>1. PICK code \in Refused(Item) : AnswerWith(Refusal(code))
    BY <1>3 DEF Refuse
  <2>2. code \in {InvalidRequest, UnknownMethod, BadParams}
    BY DEF Refused
  <2>3. code # 0
    BY <2>2 DEF InvalidRequest, UnknownMethod, BadParams
  <2> QED BY <1>1, <1>2, <2>1, <2>3
<1>4. CASE AnswerLocally
  BY <1>4 DEF AnswerLocally, Local
<1>5. CASE ReadCache
  BY <1>5 DEF ReadCache
<1>6. CASE NodeAnswersSpentBy \/ FallBack
  BY <1>6 DEF NodeAnswersSpentBy, FallBack, PostFits
<1>7. CASE CallFails \/ ReadFails
  <2>1. PICK code \in {Upstream, Internal} : AnswerWith(Refusal(code))
    BY <1>7 DEF CallFails, ReadFails
  <2> QED BY <1>1, <1>2, <2>1 DEF Upstream, Internal
<1>8. CASE ReadCount
  <2>1. post.at = "count" /\ post.meta = meta
    BY <1>8 DEF ReadCount, PostFits
  <2>2. LastAnswer.result.id = meta.id /\ LastAnswer.result.count = HtlcCount(db)
    BY <1>1, <1>8, <2>1 DEF ReadCount, Answer
  <2>3. db.htlc.full = RefHtlcs(meta.id)
    BY IndexParts DEF IndexInv, CurrentId
  <2> QED BY <2>2, <2>3 DEF HtlcCount
<1> QED BY <1>3, <1>4, <1>5, <1>6, <1>7, <1>8, AnswerSteps

LEMMA AlwaysFitsPost ==
  ASSUME ~MidTick, ~StopInRewind, MaxDepth <= 1, ReorgUntouched
  PROVE  ObservedSpec => [](PostFits /\ IInv /\ OneChain /\ IndexInv)
<1>1. ObservedSpec => Spec
  BY PostInit, FollowerSteps, PTL DEF ObservedSpec, Spec
<1>2. PostFits /\ IInv /\ OneChain /\ IndexInv /\ [ObservedNext]_<<apiVars, during>> => PostFits'
  BY PostStep
<1> QED BY <1>1, <1>2, PostInit, AlwaysIndexes, PTL DEF ObservedSpec

\* Where the follower keeps its promise (no reorganisation during a tick, one
\* block deep between ticks, none that orphans the settlement of an HTLC it leaves
\* in place, no stop inside a rewind), what an item is answered was true of one
\* chain that was the node's, or the one the tables index, while it was handled:
\* for every POST, every interleaving with the follower and the node, and a node
\* that may not know the method.
THEOREM EveryAnswerTrue ==
  ASSUME ~MidTick, ~StopInRewind, MaxDepth <= 1, ReorgUntouched
  PROVE  ObservedSpec => EveryAnswerWasTrue
<1>1. PostFits /\ IInv /\ OneChain /\ IndexInv /\ [ObservedNext]_<<apiVars, during>> => WasTrue
  BY AnswerWasTrue DEF IndexInv, CleanInv
<1>2. PostFits /\ IInv /\ OneChain /\ IndexInv /\ [ObservedNext]_<<apiVars, during>>
        => [WasTrue]_post
  BY <1>1
<1>3. ObservedSpec => [][WasTrue]_post
  BY <1>2, AlwaysFitsPost, PTL DEF ObservedSpec
<1> QED BY <1>3 DEF EveryAnswerWasTrue, WasTrue

\* In the same environment, a status answer that no commit of the follower cut in
\* two, given outside a rewind, counts the HTLCs of the very block it names
\* (get_indexer_status).
THEOREM StatusAlwaysCountsItsBlock ==
  ASSUME ~MidTick, ~StopInRewind, MaxDepth <= 1, ReorgUntouched
  PROVE  ObservedSpec => StatusCountsItsBlock
<1>1. PostFits /\ IInv /\ OneChain /\ IndexInv /\ [ObservedNext]_<<apiVars, during>>
        => [CountsItsBlock]_post
  BY StatusCounts
<1>2. ObservedSpec => [][CountsItsBlock]_post
  BY <1>1, AlwaysFitsPost, PTL DEF ObservedSpec
<1> QED BY <1>2 DEF StatusCountsItsBlock, CountsItsBlock

(***************************************************************************)
(* Every item of a POST gets an answer of its own, whatever the follower   *)
(* and the node do.                                                        *)
(***************************************************************************)
ItemFits(item, answer) ==
  /\ answer.error \in Codes(item)
  /\ answer.error # 0 => answer.result = None

AnswersFit ==
  /\ Sequence(post.answers)
  /\ post = [items |-> post.items, answers |-> post.answers, at |-> post.at,
             tip |-> post.tip, meta |-> post.meta]
  /\ post.at \in {"none", "item", "sent"} \cup Awaits
  /\ post.at # "none" => post.items \in Posts /\ Len(post.answers) <= Len(post.items)
  /\ \A i \in 1 .. Len(post.answers) : ItemFits(post.items[i], post.answers[i])
  /\ post.at \in Awaits =>
       Len(post.answers) < Len(post.items) /\ Refused(Item) = {} /\ Item.method \in Remote
  /\ post.at = "sent" => Len(post.answers) = Len(post.items)

\* A result fits every item that is not refused; an error, the items it is for.
LEMMA AnswersThatFit ==
  ASSUME NEW item, Refused(item) = {}
  PROVE  /\ \A value : ItemFits(item, Answer(value))
         /\ item.method # "ping" => ItemFits(item, Refusal(Internal))
         /\ item.method \in Remote => ItemFits(item, Refusal(Upstream))
         /\ item.method = "htlc_status" => ItemFits(item, Refusal(BadParams))
<1>1. \A x : /\ Answer(x).error = 0
             /\ Refusal(x).error = x /\ Refusal(x).result = None
  BY DEF Answer, Refusal
<1>2. /\ 0 \in Codes(item)
      /\ item.method # "ping" => Internal \in Codes(item)
      /\ item.method \in Remote => Upstream \in Codes(item)
      /\ item.method = "htlc_status" => BadParams \in Codes(item)
  BY DEF Codes
<1> QED BY <1>1, <1>2 DEF ItemFits

LEMMA LocalAnswerFits ==
  ASSUME NEW d, NEW item, Refused(item) = {}, item.method \in Local
  PROVE  ItemFits(item, LocalAnswer(d, item))
<1>1. CASE item.method = "htlc_status"
  <2> DEFINE found == {Answer(rec) : rec \in GetHtlc(d, item.arg)}
  <2>1. LocalAnswer(d, item) = FirstOr(found, Refusal(BadParams))
    BY <1>1 DEF LocalAnswer
  <2>2. \A x \in found : ItemFits(item, x)
    BY AnswersThatFit
  <2>3. ItemFits(item, Refusal(BadParams))
    BY <1>1, AnswersThatFit
  <2> HIDE DEF found
  <2>4. FirstOr(found, Refusal(BadParams)) \in found \cup {Refusal(BadParams)}
    BY DEF FirstOr
  <2> QED BY <2>1, <2>2, <2>3, <2>4
<1>2. CASE item.method # "htlc_status"
  <2>1. \E value : LocalAnswer(d, item) = Answer(value)
    BY <1>2 DEF LocalAnswer, Local
  <2> QED BY <2>1, AnswersThatFit
<1> QED BY <1>1, <1>2

\* The item under way gets an answer that fits it.
LEMMA GivenAnswerFits ==
  ASSUME AnswersFit, Serving, Len(post.answers) < Len(post.items),
         NEW answer, ItemFits(Item, answer), AnswerWith(answer)
  PROVE  AnswersFit'
<1> DEFINE old == post.answers
           new == Append(old, answer)
           items == post.items
<1>1. post' = [items |-> items, answers |-> new, at |-> "item", tip |-> 0, meta |-> MetaDefault]
  BY DEF AnswerWith, NoPost
<1>2. /\ post'.items = items /\ post'.answers = new /\ post'.at = "item"
      /\ post' = [items |-> post'.items, answers |-> post'.answers, at |-> post'.at,
                   tip |-> post'.tip, meta |-> post'.meta]
  BY <1>1
<1>3. /\ Len(old) \in Nat /\ Sequence(new) /\ Len(new) = Len(old) + 1
      /\ new[Len(old) + 1] = answer /\ \A i \in 1 .. Len(old) : new[i] = old[i]
  BY AppendAny, AppendedTo DEF AnswersFit
<1>4. items \in Posts /\ Len(items) \in Nat /\ Len(old) < Len(items)
  BY PostsAssumption DEF AnswersFit, Serving
<1>5. /\ \A i \in 1 .. Len(old) : ItemFits(items[i], old[i])
      /\ ItemFits(items[Len(old) + 1], answer)
  BY DEF AnswersFit, Item
<1> HIDE DEF old, new, items
<1>6. \A i \in 1 .. Len(new) : ItemFits(items[i], new[i])
  <2> SUFFICES ASSUME NEW i \in 1 .. Len(new) PROVE ItemFits(items[i], new[i])
    OBVIOUS
  <2>1. i \in 1 .. Len(old) \/ i = Len(old) + 1
    BY <1>3
  <2> QED BY <1>3, <1>5, <2>1
<1>7. Len(new) <= Len(items)
  BY <1>3, <1>4
<1> QED BY <1>2, <1>3, <1>4, <1>6, <1>7 DEF AnswersFit, Awaits

\* A step that neither begins nor answers an item.
LEMMA MovedOnFits ==
  ASSUME AnswersFit, Serving, NEW to \in {"sent"} \cup Awaits,
         post'.items = post.items, post'.answers = post.answers, post'.at = to,
         post' = [items |-> post'.items, answers |-> post'.answers, at |-> post'.at,
                  tip |-> post'.tip, meta |-> post'.meta],
         to = "sent" => Len(post.answers) = Len(post.items),
         to \in Awaits => /\ Len(post.answers) < Len(post.items)
                          /\ Refused(Item) = {} /\ Item.method \in Remote
  PROVE  AnswersFit'
<1>1. Item' = Item
  BY DEF Item
<1> QED BY <1>1 DEF AnswersFit, Serving, Awaits

LEMMA AnswersStep ==
  ASSUME AnswersFit, [ObservedNext]_<<apiVars, during>>
  PROVE  AnswersFit'
<1>0. /\ Unanswered => Serving /\ Len(post.answers) < Len(post.items)
      /\ post.at \in Awaits =>
           /\ Serving /\ Len(post.answers) < Len(post.items)
           /\ Refused(Item) = {} /\ Item.method \in Remote
  BY DEF AnswersFit, Unanswered, Serving, Awaits
<1>1. CASE Receive
  <2>1. PICK items \in Posts : post' = [items |-> items, answers |-> <<>>, at |-> "item",
                                        tip |-> 0, meta |-> MetaDefault]
    BY <1>1 DEF Receive, NoPost
  <2>2. /\ post'.items = items /\ post'.answers = <<>> /\ post'.at = "item"
        /\ post' = [items |-> post'.items, answers |-> post'.answers, at |-> post'.at,
                     tip |-> post'.tip, meta |-> post'.meta]
    BY <2>1
  <2>3. Sequence(<<>>) /\ Len(<<>>) = 0 /\ Len(items) \in Nat /\ 1 .. 0 = {}
    BY EmptyAny, PostsAssumption
  <2>4. \A i \in 1 .. Len(<<>>) : ItemFits(items[i], <<>>[i])
    BY <2>3
  <2> QED BY <2>2, <2>3, <2>4 DEF AnswersFit, Awaits
<1>2. CASE post' = NoPost
  <2>1. /\ post'.answers = <<>> /\ post'.at = "none"
        /\ post' = [items |-> post'.items, answers |-> post'.answers, at |-> post'.at,
                     tip |-> post'.tip, meta |-> post'.meta]
    BY <1>2 DEF NoPost
  <2>2. Sequence(<<>>) /\ Len(<<>>) = 0 /\ 1 .. 0 = {}
    BY EmptyAny
  <2> QED BY <2>1, <2>2 DEF AnswersFit, Awaits
<1>3. CASE Refuse
  <2>1. PICK code \in Refused(Item) : AnswerWith(Refusal(code))
    BY <1>3 DEF Refuse
  <2>2. ItemFits(Item, Refusal(code))
    BY <2>1 DEF ItemFits, Codes, Refusal
  <2> QED BY <1>0, <1>3, <2>1, <2>2, GivenAnswerFits DEF Refuse
<1>4. CASE AnswerLocally
  BY <1>0, <1>4, LocalAnswerFits, GivenAnswerFits DEF AnswerLocally
<1>5. CASE ReadCache
  <2>1. CASE \E row \in CachedSpentBy(db, Item.arg) :
               AnswerWith(Answer(Spent(row, "indexer-cache")))
    BY <1>0, <1>5, <2>1, AnswersThatFit, GivenAnswerFits DEF ReadCache
  <2>2. CASE post' = [post EXCEPT !.at = "node"]
    <3>1. post' = [items |-> post.items, answers |-> post.answers, at |-> "node",
                   tip |-> post.tip, meta |-> post.meta]
      BY <2>2 DEF AnswersFit
    <3> QED BY <1>0, <1>5, <3>1, MovedOnFits DEF ReadCache, Awaits, Remote
  <2> QED BY <1>5, <2>1, <2>2 DEF ReadCache
<1>6. CASE BeginStatus
  <2>1. post' = [items |-> post.items, answers |-> post.answers, at |-> "tip",
                 tip |-> post.tip, meta |-> post.meta]
    BY <1>6 DEF BeginStatus, AnswersFit
  <2> QED BY <1>0, <1>6, <2>1, MovedOnFits DEF BeginStatus, Awaits, Remote
<1>7. CASE NodeAnswersSpentBy \/ FallBack \/ ReadCount
  <2>1. post.at \in Awaits /\ \E value : AnswerWith(Answer(value))
    BY <1>7 DEF NodeAnswersSpentBy, FallBack, ReadCount, Awaits
  <2> QED BY <1>0, <2>1, AnswersThatFit, GivenAnswerFits
<1>8. CASE NodeAnswersHeight
  <2>1. post' = [items |-> post.items, answers |-> post.answers, at |-> "meta",
                 tip |-> HeightOfChain(chain), meta |-> post.meta]
    BY <1>8 DEF NodeAnswersHeight, AnswersFit
  <2>2. post.at \in Awaits
    BY <1>8 DEF NodeAnswersHeight, Awaits
  <2> QED BY <1>0, <2>1, <2>2, MovedOnFits DEF Awaits
<1>9. CASE ReadMeta
  <2>1. post' = [items |-> post.items, answers |-> post.answers, at |-> "count",
                 tip |-> post.tip, meta |-> meta]
    BY <1>9 DEF ReadMeta, AnswersFit
  <2>2. post.at \in Awaits
    BY <1>9 DEF ReadMeta, Awaits
  <2> QED BY <1>0, <2>1, <2>2, MovedOnFits DEF Awaits
<1>10. CASE CallFails
  <2>1. PICK code \in {Upstream, Internal} : AnswerWith(Refusal(code))
    BY <1>10 DEF CallFails
  <2>2. post.at \in Awaits
    BY <1>10 DEF CallFails, Awaits
  <2>3. ItemFits(Item, Refusal(code))
    BY <1>0, <2>1, <2>2, AnswersThatFit DEF Remote
  <2> QED BY <1>0, <2>1, <2>2, <2>3, GivenAnswerFits
<1>11. CASE ReadFails
  <2>1. /\ Serving /\ Len(post.answers) < Len(post.items) /\ Refused(Item) = {}
        /\ Item.method # "ping" /\ AnswerWith(Refusal(Internal))
    BY <1>0, <1>11 DEF ReadFails, Awaits, Remote
  <2> QED BY <2>1, AnswersThatFit, GivenAnswerFits
<1>12. CASE Reply
  <2>1. post' = [items |-> post.items, answers |-> post.answers, at |-> "sent",
                 tip |-> post.tip, meta |-> post.meta]
    BY <1>12 DEF Reply, AnswersFit
  <2> QED BY <1>12, <2>1, MovedOnFits DEF Reply, Serving, Awaits
<1>13. CASE UNCHANGED post
  BY <1>13 DEF AnswersFit, Item
<1> QED BY <1>1, <1>2, <1>3, <1>4, <1>5, <1>6, <1>7, <1>8, <1>9, <1>10, <1>11, <1>12, <1>13
        DEF ObservedNext, ApiNext, apiVars, Client, Serve, HangUp

\* In every environment a reply has one answer for each item of its POST, in their
\* order, an item that is refused or fails its own error and nobody else's
\* (handle_rpc): for every POST and every interleaving with the follower and the
\* node.
THEOREM EveryItemAlwaysAnswered == ObservedSpec => []EveryItemAnswered
<1>1. ObservedInit => AnswersFit
  <2> SUFFICES ASSUME ObservedInit PROVE AnswersFit
    OBVIOUS
  <2>1. post = NoPost
    BY DEF ObservedInit, InitApi
  <2>2. /\ post.answers = <<>> /\ post.at = "none"
        /\ post = [items |-> post.items, answers |-> post.answers, at |-> post.at,
                   tip |-> post.tip, meta |-> post.meta]
    BY <2>1 DEF NoPost
  <2>3. Sequence(<<>>) /\ Len(<<>>) = 0 /\ 1 .. 0 = {}
    BY EmptyAny
  <2> QED BY <2>2, <2>3 DEF AnswersFit, Awaits
<1>2. AnswersFit /\ [ObservedNext]_<<apiVars, during>> => AnswersFit'
  BY AnswersStep
<1>3. AnswersFit => EveryItemAnswered
  <2> SUFFICES ASSUME AnswersFit, post.at = "sent"
               PROVE  /\ DOMAIN post.answers = DOMAIN post.items
                      /\ \A i \in DOMAIN post.items :
                           ItemFits(post.items[i], post.answers[i])
    BY DEF EveryItemAnswered, ItemFits
  <2>1. Len(post.answers) = Len(post.items) /\ post.items \in Posts
    BY DEF AnswersFit
  <2>2. DOMAIN post.answers = 1 .. Len(post.answers)
    BY LenProperties DEF AnswersFit, Sequence
  <2>3. DOMAIN post.items = 1 .. Len(post.items)
    BY <2>1, PostsAssumption
  <2> QED BY <2>1, <2>2, <2>3 DEF AnswersFit
<1> QED BY <1>1, <1>2, <1>3, PTL DEF ObservedSpec
=============================================================================
