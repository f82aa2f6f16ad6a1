------------------------------- MODULE MCApi -------------------------------
(***************************************************************************)
(* Two HTLCs under one hashlock for TLC, one of them claimed, both locked  *)
(* with an output quoting the same id, and clients that ask about them.    *)
(***************************************************************************)
EXTENDS ApiSafety

MCTx == {"fund", "lock1", "lock2", "claim"}
MCAddress == {"alice", "bob"}
MCPubKey == {"pkAlice", "pkBob"}
MCDeriveAddress == [k \in MCPubKey |-> IF k = "pkAlice" THEN "alice" ELSE "bob"]

NoDatum == [kind |-> "none"]
Quote == [kind |-> "inline", len |-> 16, bytes |-> "q"]
Pay(a, v, d) == [script |-> [kind |-> "p2pkh", addr |-> a], value |-> v, datum |-> d]
Htlc(v) == [script |-> [kind |-> "htlc", sender |-> "pkAlice", receiver |-> "pkBob",
                        hashLock |-> "H", timeout |-> 1],
            value |-> v, datum |-> NoDatum]
In(o, size, tag) == [prev |-> o,
                     witness |-> [size |-> size, tag |-> tag, framed |-> tag = "left",
                                  declared |-> 2, preimage |-> "pre"]]

MCBody ==
  [fund  |-> [coinbase |-> TRUE, ins |-> <<In(<<"null", 0>>, 0, "other")>>,
              outs |-> <<Pay("alice", 5, NoDatum), Pay("alice", 5, NoDatum)>>],
   lock1 |-> [coinbase |-> FALSE, ins |-> <<In(<<"fund", 1>>, 96, "other")>>,
              outs |-> <<Htlc(2), Pay("alice", 3, Quote)>>],
   lock2 |-> [coinbase |-> FALSE, ins |-> <<In(<<"fund", 2>>, 96, "other")>>,
              outs |-> <<Htlc(3), Pay("alice", 2, Quote)>>],
   claim |-> [coinbase |-> FALSE, ins |-> <<In(<<"lock1", 1>>, 80, "left")>>,
              outs |-> <<Pay("bob", 2, [kind |-> "hash"])>>]]

MCGenesis == <<"fund">>
MCBlockBodies == {<<>>, <<"lock1">>, <<"claim">>, <<"lock1", "lock2">>}

Ask(method, arg) == [method |-> method, arg |-> arg]

MCPosts ==
  {<<Ask("get_output_spent_by", <<"lock1", 1>>)>>,
   <<Ask("get_output_spent_by", <<"fund", 2>>)>>,
   <<Ask(None, None), Ask("get_indexer_status", None)>>,
   <<Ask("get_output_spent_by", None), Ask("ping", None), Ask("no_such_method", None)>>,
   <<Ask("htlc_status", <<"lock1", 1>>)>>,
   <<Ask("htlc_lookup_by_hashlock", "H")>>,
   <<Ask("htlc_lookup_by_hashlock", "G")>>,
   <<Ask("detect_in_chain_swaps", "H")>>,
   <<Ask("get_output_datum", <<"claim", 1>>)>>,
   <<Ask("get_output_datum", <<"lock1", 1>>)>>,
   <<Ask("find_settlements_by_quote_id", "q")>>}
=============================================================================
