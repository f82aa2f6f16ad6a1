--------------------------- MODULE ReadersSafety ---------------------------
(***************************************************************************)
(* What a client may rely on while the follower works.                     *)
(***************************************************************************)
EXTENDS Readers

\* A walk over a listing, page by page to the end, shows every HTLC, settlement
\* and transaction that was listed all the time it took, whatever blocks were
\* applied or rewound between two pages (list_htlcs, list_settlements and
\* list_address_history take the next cursor from the last row of the page).
WalkMeetsEveryKey ==
  walk.over => \A r \in walk.stayed :
                 \E s \in walk.seen : Mark(walk.query, s) = Mark(walk.query, r)

\* A page that gives a cursor shows limit rows, none of which the walk has shown
\* before, also when the tables changed since the last page (Cursor: "restricts to
\* entries strictly greater than that key"; limit "caps the returned page size").
FullPages ==
  [][walk.query = walk'.query /\ walk'.cursor # walk.cursor /\ walk'.cursor # None =>
       Cardinality(walk'.seen) = Cardinality(walk.seen) + walk.query.limit]_walk

\* A walk comes to its end, whatever is rewound and applied again while it lasts:
\* each page's cursor is past the one before, and a walk with limit 0, whose pages
\* have no row to take a cursor from, ends with an error at its first row.  (On a
\* chain that grows for ever, which MaxHeight bounds, a walk from the oldest row
\* would follow it.)
WalksEnd == Walking ~> ~Walking

\* The row that list_address_history has for each direction is shown as well
\* (db/mod.rs: "Walk every (address, height, tx_id, dir) row").
WalkMissesNothing == walk.over => walk.stayed \subseteq walk.seen

ListedOf(a) ==
  Cardinality(SettlementsOf(db, [method |-> "list_settlements", address |-> a, since |-> 0]))

\* What contract_stats counts, through the mirror table, are the rows
\* list_settlements lists, each as claimed or as reclaimed.
StatsCountListed ==
  \A a \in Address : \A s \in ContractStats(db, a) :
    s.total = ListedOf(a) /\ s.succeeded + s.refunded = ListedOf(a)

\* get_attestation_edges shares the same rows out among the counterparties: each
\* is in one edge's total.
EdgesCountListed ==
  \A a \in Address :
    LET edges == AttestationEdges(db, a)
    IN  MapThenSumSet(LAMBDA c : edges[c].total, DOMAIN edges) = ListedOf(a)

Holders(hash) == {o \in DOMAIN db.htlc.full : db.htlc.full[o].params.hashLock = hash}

Shared == {hash \in {db.htlc.full[o].params.hashLock : o \in DOMAIN db.htlc.full} :
             Cardinality(Holders(hash)) > 1}

GroupsInOrder(limit) ==
  LET groups == SharedHashlockGroups(db, limit)
      hashes == {groups[i].hash : i \in DOMAIN groups}
  IN  /\ Len(groups) = Min({limit, Cardinality(Shared)})
      /\ \A i \in DOMAIN groups : ToSet(groups[i].outs) = Holders(groups[i].hash)
      /\ \A i, j \in DOMAIN groups :
           i < j => ByteOrder[groups[i].hash] < ByteOrder[groups[j].hash]
      /\ \A listed \in hashes, other \in Shared \ hashes :
           ByteOrder[listed] < ByteOrder[other]

\* detect_in_chain_swaps returns, for a limit of at least one, the first groups
\* in hashlock order, each with every HTLC locked under its hashlock (the scan
\* flushes a group when the next one begins, and the last one at its end).  With a
\* limit of 0 it may return one.
SwapGroupsInOrder == \A limit \in 1 .. 3 : GroupsInOrder(limit)
=============================================================================
