---------------------------- MODULE ProcessBlock ---------------------------
(***************************************************************************)
(* Follower::process_block of src/src/follower.rs: from a block and the    *)
(* tables as they are before it, the rows apply_block_events is given.     *)
(*                                                                         *)
(* b is the block's body, a sequence of transaction ids.  Transactions are *)
(* distinct within a block, so rows that can meet under one key come from  *)
(* the same transaction (activity) or from two spends of the block         *)
(* (settlements); the row written last is the one that stays.              *)
(***************************************************************************)
EXTENDS Store

TxsIn(b) == {b[i] : i \in DOMAIN b}

LockedIn(b) == {o \in UNION {OutpointsOf(t) : t \in TxsIn(b)} : IsHtlc(o)}

BlockLocks(b, height) == [o \in LockedIn(b) |-> LockRecord(o, height)]

BlockSpends(b) == UNION {SpendsOf(t) : t \in TxsIn(b)}

(***************************************************************************)
(* Address activity.                                                       *)
(***************************************************************************)
PayOutputs(t, a) == {n \in DOMAIN Body[t].outs :
                       IsPay(<<t, n>>) /\ Out(<<t, n>>).script.addr = a}

\* The prevout of input v, resolved through fetch_tx.
Prev(t, v) == Body[t].ins[v].prev

PayInputs(t, a) == {v \in Inputs(t) : IsPay(Prev(t, v)) /\ Out(Prev(t, v)).script.addr = a}

Side(t, dir, a) == IF dir = "in" THEN PayInputs(t, a) ELSE PayOutputs(t, a)

Flip(dir) == IF dir = "in" THEN "out" ELSE "in"

Counterparties(t, dir, a) == {x \in Address \ {a} : Side(t, Flip(dir), x) # {}}

LastOf(S) == CHOOSE n \in S : \A k \in S : k <= n

ActivityAmount(t, dir, a) ==
  LET n == LastOf(Side(t, dir, a))
  IN  IF dir = "in" THEN Out(Prev(t, n)).value ELSE Body[t].outs[n].value

ActivityRow(t, dir, a) ==
  [amount         |-> ActivityAmount(t, dir, a),
   coinbase       |-> dir = "out" /\ Body[t].coinbase,
   counterparties |-> Counterparties(t, dir, a)]

ActivityKeys(b, height) ==
  {k \in Address \X {height} \X TxsIn(b) \X {"in", "out"} :
     Side(k[3], k[4], k[1]) # {}}

BlockActivity(b, height) ==
  [k \in ActivityKeys(b, height) |-> ActivityRow(k[3], k[4], k[1])]

(***************************************************************************)
(* Spent-by rows and settlement datums.                                    *)
(***************************************************************************)
Spending(b) == UNION {{t} \X Inputs(t) : t \in TxsIn(b)}

BlockSpentBy(b, height) ==
  [o \in {Prev(p[1], p[2]) : p \in Spending(b)} |->
     LET p == CHOOSE q \in Spending(b) : Prev(q[1], q[2]) = o
     IN  [tx |-> p[1], input |-> p[2], height |-> height]]

BlockDatums(b, height) ==
  [o \in {x \in UNION {OutpointsOf(t) : t \in TxsIn(b)} : IsDatumOutput(x)} |->
     [quote |-> DatumQuote(o), unhonorable |-> DatumQuote(o) = None,
      height |-> height]]

(***************************************************************************)
(* Settlements: for every spend of an HTLC that peek_htlc finds in the     *)
(* tables BEFORE this block is applied, one row per party, with the state  *)
(* set to what the spend will make of it.  A peek that ends in a storage   *)
(* error is passed over as if there were no record (`if let Ok(Some(..))`) *)
(* and the block is committed all the same.  A spend is one of one HTLC,   *)
(* so the peeks that failed are known by their outpoints, unread.          *)
(***************************************************************************)
\* HTLC_FULL as the peeks of one block find it.
PeekHtlcs(full, unread) == Keep(full, DOMAIN full \ unread)

Peeked(full, s) ==
  [full[s.out] EXCEPT !.state = IF s.arm = "claim" THEN "Claimed" ELSE "Reclaimed"]

SettlementKey(full, s, side, height) ==
  <<Party(full[s.out], side), height, SettledTxId(s.out, full[s.out])>>

\* Mutant: one row per settlement, the sender's.
WrittenForSender(b, full) ==
  {s \in BlockSpends(b) : s.out \in DOMAIN full} \X {"sender"}

\* (spend, side) pairs in the order their rows are written.
Written(b, full) ==
  {s \in BlockSpends(b) : s.out \in DOMAIN full} \X {"sender", "receiver"}

Position(b, s) == CHOOSE i \in DOMAIN b : b[i] = s.tx

WrittenBefore(b, x, y) ==
  \/ Position(b, x[1]) < Position(b, y[1])
  \/ x[1].tx = y[1].tx /\ x[1].input < y[1].input
  \/ x[1] = y[1] /\ x[2] = "sender" /\ y[2] = "receiver"

BlockSettlements(b, height, full) ==
  LET key(x) == SettlementKey(full, x[1], x[2], height)
      writers(k) == {x \in Written(b, full) : key(x) = k}
      lastWriter(k) == CHOOSE x \in writers(k) :
                         \A y \in writers(k) \ {x} : WrittenBefore(b, y, x)
  IN  [k \in {key(x) : x \in Written(b, full)} |->
         LET x == lastWriter(k)
         IN  SettlementRow(x[1].out, Peeked(full, x[1]), x[2])]

(***************************************************************************)
(* The payload of apply_block_events for the block named by id.            *)
(***************************************************************************)
BodyOf(id) == id[Len(id)]

BlockEvents(d, id, height, unread) ==
  LET b == BodyOf(id)
  IN  [height      |-> height,
       id          |-> id,
       locks       |-> BlockLocks(b, height),
       spends      |-> BlockSpends(b),
       settlements |-> BlockSettlements(b, height, PeekHtlcs(d.htlc.full, unread)),
       activity    |-> BlockActivity(b, height),
       spentBy     |-> BlockSpentBy(b, height),
       datums      |-> BlockDatums(b, height)]
=============================================================================
