----------------------------- MODULE MCReaders -----------------------------
(***************************************************************************)
(* A market for TLC: two transactions that lock two HTLCs each, under two  *)
(* hashlocks they share, a claim and a reclaim.                            *)
(***************************************************************************)
EXTENDS ReadersSafety

MCTx == {"fund", "lock1", "lock2", "claim", "reclaim"}
MCAddress == {"alice", "bob", "carol"}
MCPubKey == {"pkAlice", "pkBob", "pkCarol"}
MCDeriveAddress == [pkAlice |-> "alice", pkBob |-> "bob", pkCarol |-> "carol"]
MCByteOrder ==
  [fund |-> 5, lock1 |-> 4, lock2 |-> 2, claim |-> 3, reclaim |-> 1, H |-> 6, G |-> 7]

NoDatum == [kind |-> "none"]
Pay(a, v) == [script |-> [kind |-> "p2pkh", addr |-> a], value |-> v, datum |-> NoDatum]
Htlc(hash, v) == [script |-> [kind |-> "htlc", sender |-> "pkAlice", receiver |-> "pkBob",
                              hashLock |-> hash, timeout |-> 1],
                  value |-> v, datum |-> NoDatum]
In(o, size, tag) == [prev |-> o,
                     witness |-> [size |-> size, tag |-> tag, framed |-> tag = "left",
                                  declared |-> 2, preimage |-> "pre"]]

MCBody ==
  [fund    |-> [coinbase |-> TRUE, ins |-> <<In(<<"null", 0>>, 0, "other")>>,
                outs |-> <<Pay("alice", 5), Pay("alice", 5)>>],
   lock1   |-> [coinbase |-> FALSE, ins |-> <<In(<<"fund", 1>>, 96, "other")>>,
                outs |-> <<Htlc("H", 2), Htlc("G", 2), Pay("alice", 1)>>],
   lock2   |-> [coinbase |-> FALSE, ins |-> <<In(<<"fund", 2>>, 96, "other")>>,
                outs |-> <<Htlc("H", 3),
                           [Htlc("G", 2) EXCEPT !.script.receiver = "pkCarol"]>>],
   claim   |-> [coinbase |-> FALSE, ins |-> <<In(<<"lock1", 1>>, 80, "left")>>,
                outs |-> <<Pay("bob", 2)>>],
   reclaim |-> [coinbase |-> FALSE, ins |-> <<In(<<"lock2", 2>>, 70, "right")>>,
                outs |-> <<Pay("alice", 2)>>]]

MCGenesis == <<"fund">>
MCBlockBodies == {<<>>, <<"lock1">>, <<"lock1", "lock2">>, <<"claim">>, <<"claim", "reclaim">>}

Listing(method, address, limit) ==
  [method |-> method, address |-> address, states |-> {}, since |-> 0,
   limit |-> limit, reverse |-> FALSE]

MCAsked ==
  {Listing("htlc_list", None, 1), Listing("htlc_list", None, 0),
   [Listing("htlc_list", "pkAlice", 2) EXCEPT !.states = {"Locked", "LockedExpired"}],
   Listing("list_settlements", "alice", 1),
   Listing("get_address_history", "alice", 1),
   [Listing("get_address_history", "alice", 2) EXCEPT !.reverse = TRUE]}

MCHistory == {Listing("get_address_history", "alice", 1)}
=============================================================================
