------------------------------ MODULE MCWorld ------------------------------
(***************************************************************************)
(* A small world for TLC: one HTLC, locked with a quoted change output,    *)
(* that can be claimed or reclaimed, and a payment whose witness happens   *)
(* to look like a reclaim; and the same world with a twin of the HTLC.     *)
(***************************************************************************)
EXTENDS Integers, Sequences

MCTx == {"fund", "lock", "claim", "reclaim", "pay"}
MCAddress == {"alice", "bob"}
MCPubKey == {"pkAlice", "pkBob"}
MCDeriveAddress == [k \in MCPubKey |-> IF k = "pkAlice" THEN "alice" ELSE "bob"]

NoDatum == [kind |-> "none"]
HashDatum == [kind |-> "hash"]
Inline(n, q) == [kind |-> "inline", len |-> n, bytes |-> q]

Pay(a, v, d) == [script |-> [kind |-> "p2pkh", addr |-> a], value |-> v, datum |-> d]
Htlc(to, v) == [script |-> [kind |-> "htlc", sender |-> "pkAlice", receiver |-> to,
                            hashLock |-> "H", timeout |-> 1],
                value |-> v, datum |-> NoDatum]

Witness(size, tag) == [size |-> size, tag |-> tag, framed |-> tag = "left",
                       declared |-> 2, preimage |-> "pre"]
In(o, w) == [prev |-> o, witness |-> w]

MCBody ==
  [fund    |-> [coinbase |-> TRUE,
                ins  |-> <<In(<<"null", 0>>, Witness(0, "other"))>>,
                outs |-> <<Pay("alice", 5, NoDatum)>>],
   lock    |-> [coinbase |-> FALSE,
                ins  |-> <<In(<<"fund", 1>>, Witness(96, "other"))>>,
                outs |-> <<Htlc("pkBob", 3), Pay("alice", 2, Inline(16, "q"))>>],
   claim   |-> [coinbase |-> FALSE,
                ins  |-> <<In(<<"lock", 1>>, Witness(80, "left"))>>,
                outs |-> <<Pay("bob", 3, NoDatum)>>],
   reclaim |-> [coinbase |-> FALSE,
                ins  |-> <<In(<<"lock", 1>>, Witness(70, "right"))>>,
                outs |-> <<Pay("alice", 3, HashDatum)>>],
   pay     |-> [coinbase |-> FALSE,
                ins  |-> <<In(<<"lock", 2>>, Witness(96, "right"))>>,
                outs |-> <<Pay("bob", 1, Inline(17, "q")), Pay("bob", 1, NoDatum)>>]]

\* The lock's transaction locks a second HTLC, from its sender to itself, and one
\* transaction claims the two; the reclaim leaves it alone.
MCTwinBody ==
  [MCBody EXCEPT !.lock.outs = Append(@, Htlc("pkAlice", 1)),
                 !.claim.ins = Append(@, In(<<"lock", 3>>, Witness(80, "left")))]

MCGenesis == <<"fund">>
MCBlockBodies == {<<>>, <<"lock">>, <<"claim">>, <<"reclaim">>, <<"pay">>,
                  <<"lock", "claim">>}
=============================================================================
