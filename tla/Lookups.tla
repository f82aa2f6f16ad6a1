------------------------------ MODULE Lookups ------------------------------
(***************************************************************************)
(* The single-key reads of src/src/db/mod.rs, each one read transaction:   *)
(* what they make of the tables.                                           *)
(***************************************************************************)
EXTENDS Store

\* An Option is a set of at most one.
Get(table, key) == {table[k] : k \in {key} \cap DOMAIN table}

GetHtlc(d, o) == Get(d.htlc.full, o)

CachedSpentBy(d, o) == Get(d.spentBy, o)

\* A datum signal, or the answer for an outpoint that has none.
NoSignal == [quote |-> None, unhonorable |-> FALSE]

GetOutputDatum(d, o) ==
  {[quote |-> row.quote, unhonorable |-> row.unhonorable] : row \in Get(d.datum.forward, o)}

\* The range of DATUM_BY_QUOTEID under a quote id.
FindSettlementsByQuoteId(d, quote) == {k[2] : k \in {x \in d.datum.byQuote : x[1] = quote}}

\* Mutant: the range's upper end is not cut at the hashlock asked for.
UnderHashlockOpenEnd(d, hash) == {k[2] : k \in d.htlc.byHashlock}

\* The range of HTLC_BY_HASHLOCK under a hashlock.
UnderHashlock(d, hash) == {k[2] : k \in {x \in d.htlc.byHashlock : x[1] = hash}}

\* The records found there, read from the primary table.
LookupByHashlock(d, hash) == Keep(d.htlc.full, UnderHashlock(d, hash))

\* find_shared_hashlock_groups with a hashlock: at most one group, of two or more
\* both in the range and in the primary table.
SharedUnder(d, hash) ==
  {g \in {LookupByHashlock(d, hash)} :
     Cardinality(UnderHashlock(d, hash)) > 1 /\ Cardinality(DOMAIN g) > 1}

\* Mutant: open HTLCs only.
HtlcCountOpen(d) ==
  Cardinality({o \in DOMAIN d.htlc.full : d.htlc.full[o].state \notin Settled})

HtlcCount(d) == Cardinality(DOMAIN d.htlc.full)
=============================================================================
