------------------------------ MODULE Queries ------------------------------
(***************************************************************************)
(* The read side of src/src/db/mod.rs: the paged listings, the aggregates  *)
(* over settlements and the groups of HTLCs that share a hashlock.  Each   *)
(* is one read transaction, so each is an operator of the tables.          *)
(*                                                                         *)
(* A listed row is known by its place in the order of its listing: the     *)
(* height, the transaction id by its byte order, and the output index, the *)
(* direction byte, or nothing more.                                        *)
(***************************************************************************)
EXTENDS Store, FiniteSetsExt, SequencesExt

CONSTANT
  ByteOrder           \* ByteOrder[x] : rank of a tx id or a hashlock among them

Hashlocks == {Out(o).script.hashLock : o \in {x \in Outpoint : IsHtlc(x)}}

\* Ids, addresses and hashlocks are byte strings of one length; no option is a
\* cursor.
ASSUME QueriesAssumption ==
  /\ IsFiniteSet(Tx) /\ IsFiniteSet(Address)
  /\ \A S \in {Tx, Hashlocks} : \A x, y \in S :
       ByteOrder[x] \in Nat /\ (ByteOrder[x] = ByteOrder[y] => x = y)
  /\ None \notin (Int \X Int) \cup (Int \X Int \X Int)

Methods == {"htlc_list", "list_settlements", "get_address_history"}

(***************************************************************************)
(* The rows a query selects.                                               *)
(***************************************************************************)
\* An address filter goes through the two party indexes, which are keyed by
\* public key; without one the primary table is scanned.
HtlcsOf(t, party) ==
  IF party = None THEN DOMAIN t.full
  ELSE {k[3] : k \in {x \in t.bySender \cup t.byReceiver : x[1] = party}} \cap DOMAIN t.full

\* The role filter is left out: every record has the observer's role.
FilterMatches(rec, q) ==
  /\ q.states = {} \/ rec.state \in q.states
  /\ rec.lockHeight >= q.since

ListedHtlcs(d, q) ==
  {<<d.htlc.full[o].lockHeight, ByteOrder[o[1]], o[2]>> :
     o \in {x \in HtlcsOf(d.htlc, q.address) : FilterMatches(d.htlc.full[x], q)}}

SettlementsOf(d, q) ==
  {k \in DOMAIN d.settlement.byContract : k[1] = q.address /\ k[2] >= q.since}

ListedSettlements(d, q) ==
  {<<k[2], ByteOrder[k[3]], 0>> : k \in SettlementsOf(d, q)}

DirByte(dir) == IF dir = "out" THEN 1 ELSE 2

ListedHistory(d, q) ==
  {<<k[2], ByteOrder[k[3]], DirByte(k[4])>> :
     k \in {x \in DOMAIN d.activity : x[1] = q.address /\ x[2] >= q.since}}

Rows(d, q) ==
  IF q.method = "htlc_list" THEN ListedHtlcs(d, q)
  ELSE IF q.method = "list_settlements" THEN ListedSettlements(d, q)
  ELSE ListedHistory(d, q)

(***************************************************************************)
(* Pages.                                                                  *)
(***************************************************************************)
\* What a cursor keeps of a row: an HTLC's whole place, the height and the
\* transaction of a settlement or an activity row.
CursorWidth(q) == IF q.method = "htlc_list" THEN 3 ELSE 2
Mark(q, r) == SubSeq(r, 1, CursorWidth(q))

LexLess(a, b) ==
  \E i \in DOMAIN a : a[i] < b[i] /\ \A j \in 1 .. i - 1 : a[j] = b[j]

\* The chosen order compares marks, newest first when reversed; rows with one
\* mark stay in table order, since the sort is stable.
MarkLess(q, a, b) == IF q.reverse THEN LexLess(b, a) ELSE LexLess(a, b)
RowLess(q, r, s) ==
  \/ MarkLess(q, Mark(q, r), Mark(q, s))
  \/ Mark(q, r) = Mark(q, s) /\ LexLess(r, s)

\* Mutant: the cursor's own row is kept.
AfterOrAt(rows, q, cursor) ==
  {r \in rows : cursor = None \/ ~MarkLess(q, Mark(q, r), cursor)}

\* The rows a cursor leaves.
After(rows, q, cursor) ==
  {r \in rows : cursor = None \/ MarkLess(q, cursor, Mark(q, r))}

\* The first q.limit rows of a listing.
Page(rest, q) ==
  {r \in rest : Cardinality({s \in rest : RowLess(q, s, r)}) < q.limit}

LastRow(rows, q) == CHOOSE r \in rows : \A s \in rows \ {r} : RowLess(q, s, r)

\* Mutant: the next cursor is the first row that did not fit.
NextCursorPastEnd(rest, q) ==
  IF Cardinality(rest) > q.limit
  THEN LET more == rest \ Page(rest, q)
       IN  Mark(q, CHOOSE r \in more : \A s \in more \ {r} : RowLess(q, r, s))
  ELSE None

\* There is a next cursor when rows are left, and it is the page's last row's.
NextCursor(rest, q) ==
  IF Cardinality(rest) > q.limit THEN Mark(q, LastRow(Page(rest, q), q)) ELSE None

(***************************************************************************)
(* Aggregates over an address' settlements, found through the mirror       *)
(* SETTLEMENT_BY_ADDRESS and read from SETTLEMENT_BY_CONTRACT.             *)
(***************************************************************************)
MirroredOf(d, a) ==
  {k \in d.settlement.byAddress : k[1] = a} \cap DOMAIN d.settlement.byContract

Tally(d, keys) ==
  LET with(outcome) == {k \in keys : d.settlement.byContract[k].outcome = outcome}
  IN  [total     |-> Cardinality(keys),
       succeeded |-> Cardinality(with("Claimed")),
       refunded  |-> Cardinality(with("Reclaimed")),
       lastSeen  |-> Max({k[2] : k \in keys})]

\* One row per contract touched: at most one here.
ContractStats(d, a) ==
  IF MirroredOf(d, a) = {} THEN {} ELSE {Tally(d, MirroredOf(d, a))}

\* Mutant: each edge tallies the address' settlements with everybody.
EdgesWithAll(d, a) ==
  LET partner(k) == d.settlement.byContract[k].counterparty
  IN  [c \in {partner(k) : k \in MirroredOf(d, a)} |-> Tally(d, MirroredOf(d, a))]

\* One edge per counterparty.
AttestationEdges(d, a) ==
  LET partner(k) == d.settlement.byContract[k].counterparty
  IN  [c \in {partner(k) : k \in MirroredOf(d, a)} |->
         Tally(d, {k \in MirroredOf(d, a) : partner(k) = c})]

(***************************************************************************)
(* find_shared_hashlock_groups without a hashlock: one scan of             *)
(* HTLC_BY_HASHLOCK in key order, flushing a group when the hashlock       *)
(* changes.                                                                *)
(***************************************************************************)
HashlockKeyLess(x, y) ==
  LET place(k) == <<ByteOrder[k[1]], ByteOrder[k[2][1]], k[2][2]>>
  IN  LexLess(place(x), place(y))

\* A set of keys as a scan meets them.
KeysInOrder(keys) ==
  [i \in 1 .. Cardinality(keys) |->
     CHOOSE k \in keys : Cardinality({x \in keys : HashlockKeyLess(x, k)}) = i - 1]

NoGroup == [hash |-> None, outs |-> <<>>]
NoScan == [groups |-> <<>>, current |-> NoGroup, full |-> FALSE]

Flush(s) == IF Len(s.current.outs) > 1 THEN Append(s.groups, s.current) ELSE s.groups

ScanKey(s, k, limit) ==
  IF s.full THEN s
  ELSE IF s.current.hash = k[1]
  THEN [s EXCEPT !.current.outs = Append(@, k[2])]
  ELSE IF Flush(s) # s.groups /\ Len(Flush(s)) >= limit
  THEN [groups |-> Flush(s), current |-> NoGroup, full |-> TRUE]
  ELSE [groups |-> Flush(s), current |-> [hash |-> k[1], outs |-> <<k[2]>>], full |-> FALSE]

\* What the scan has made of all the keys.
Scanned(keys, limit) ==
  LET inOrder == KeysInOrder(keys)
      scan[i \in 0 .. Cardinality(keys)] ==
        IF i = 0 THEN NoScan ELSE ScanKey(scan[i - 1], inOrder[i], limit)
  IN  scan[Cardinality(keys)]

\* Mutant: the last group is left open.
LeftOpen(s, limit) == s.groups

\* The last group is closed after the scan, if there is room for it.
Closed(s, limit) == IF Len(s.groups) < limit THEN Flush(s) ELSE s.groups

\* The elements of s at the places kept, in their order.
Sift(s, kept) ==
  [j \in 1 .. Cardinality(kept) |->
     s[CHOOSE i \in kept : Cardinality({x \in kept : x <= i}) = j]]

\* A group's members, read from the primary table.
ReadGroup(full, g) ==
  [g EXCEPT !.outs = Sift(g.outs, {i \in DOMAIN g.outs : g.outs[i] \in DOMAIN full})]

\* The scan's groups, each read from the primary table; one left with fewer than
\* two members is skipped.  With a limit of 0 the scan still closes one group if a
\* key of another hashlock follows it.
SharedHashlockGroups(d, limit) ==
  LET closed == Closed(Scanned(d.htlc.byHashlock, limit), limit)
      read == [i \in DOMAIN closed |-> ReadGroup(d.htlc.full, closed[i])]
  IN  Sift(read, {i \in DOMAIN read : Len(read[i].outs) > 1})
=============================================================================
