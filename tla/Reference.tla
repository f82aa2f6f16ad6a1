----------------------------- MODULE Reference -----------------------------
(***************************************************************************)
(* The index a chain calls for, stated from the chain as a whole with no   *)
(* block-by-block processing: what a reader of the tables is promised.     *)
(***************************************************************************)
EXTENDS Node, ProcessBlock

PositionOf(c, t) == CHOOSE p \in Positions(c) : TxAt(c, p) = t
HeightIn(c, t) == PositionOf(c, t)[1] - 1

TxsOf(c) == {TxAt(c, p) : p \in Positions(c)}
OutpointsIn(c) == UNION {OutpointsOf(t) : t \in TxsOf(c)}

SpendersOf(c, o) == {x \in InputsOfChain(c) : PrevOf(c, x) = o}

RefHtlcRecord(c, o) ==
  LET height == HeightIn(c, o[1])
      x == CHOOSE y \in SpendersOf(c, o) : TRUE
      t == TxAt(c, x[1])
      by == [tx |-> t, input |-> x[2], height |-> x[1][1] - 1]
      claimed == [field \in DOMAIN by \cup {"preimage"} |->
                    IF field \in DOMAIN by THEN by[field]
                    ELSE Body[t].ins[x[2]].witness.preimage]
      settled == SpendersOf(c, o) # {}
      arm == Body[t].ins[x[2]].witness.tag
  IN  [params     |-> Out(o).script,
       amount     |-> Out(o).value,
       lockHeight |-> height,
       state      |-> IF settled THEN IF arm = "left" THEN "Claimed" ELSE "Reclaimed"
                      ELSE IF height > Out(o).script.timeout THEN "LockedExpired"
                      ELSE "Locked",
       claim      |-> IF settled /\ arm = "left" THEN claimed ELSE None,
       reclaim    |-> IF settled /\ arm = "right" THEN by ELSE None]

RefHtlcs(c) == [o \in {x \in OutpointsIn(c) : IsHtlc(x)} |-> RefHtlcRecord(c, o)]

\* The activity rows of a set of blocks, given as a function from heights.
RefActivity(blocks) ==
  [k \in UNION {ActivityKeys(BodyOf(blocks[x]), x) : x \in DOMAIN blocks} |->
     ActivityRow(k[3], k[4], k[1])]

RefBlocks(c) == [x \in 0 .. HeightOfChain(c) |-> BlockIdAt(c, x)]

RefSpentBy(c) ==
  [o \in {PrevOf(c, x) : x \in InputsOfChain(c)} |->
     LET x == CHOOSE y \in SpendersOf(c, o) : TRUE
     IN  [tx |-> TxAt(c, x[1]), input |-> x[2], height |-> x[1][1] - 1]]

\* A quote id is 16 inline bytes, no more and no less; a datum known only by its
\* hash is listed as unreadable; any other output has no row.
RefDatums(c) ==
  LET quoted(o) == Out(o).datum.kind = "inline" /\ Out(o).datum.len = 16
      hashed(o) == Out(o).datum.kind = "hash"
  IN  [o \in {x \in OutpointsIn(c) : quoted(x) \/ hashed(x)} |->
         [quote       |-> IF quoted(o) THEN Out(o).datum.bytes ELSE None,
          unhonorable |-> hashed(o),
          height      |-> HeightIn(c, o[1])]]

RefIndex(c) ==
  [htlc     |-> RefHtlcs(c),
   activity |-> RefActivity(RefBlocks(c)),
   spentBy  |-> RefSpentBy(c),
   datum    |-> RefDatums(c),
   blocks   |-> RefBlocks(c)]
=============================================================================
