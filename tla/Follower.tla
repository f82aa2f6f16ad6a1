------------------------------ MODULE Follower -----------------------------
(***************************************************************************)
(* The follower with its tables: each step of Tick, with what the step's   *)
(* transaction does to them.                                               *)
(***************************************************************************)
EXTENDS Tick, ProcessBlock

CONSTANT
  PeekFails           \* TRUE: a read of process_block may end in a storage error

vars == <<chain, meta, pc, tip, m, h, got, db>>

Init == TickInit /\ db = EmptyDb

WipeTables == Wipe /\ db' = WipeAbove(db, m.last)

\* The HTLCs the peeks for the block got find, and the sets of them they may fail
\* to read.
Peekable == {s.out : s \in BlockSpends(BodyOf(got))} \cap DOMAIN db.htlc.full
Unread == IF PeekFails THEN SUBSET Peekable ELSE {{}}

ApplyToTables ==
  /\ ApplyBlock
  /\ \E unread \in Unread :
       db' = ApplyBlockEvents(db, BlockEvents(db, got, h, unread))

LeaveTables == (QuietStep \/ AbortTick \/ NodeStep) /\ UNCHANGED db

Next == WipeTables \/ ApplyToTables \/ LeaveTables

Spec == Init /\ [][Next]_vars

FairSpec == Spec /\ Fairness
=============================================================================
