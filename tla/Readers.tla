------------------------------ MODULE Readers ------------------------------
(***************************************************************************)
(* A client that walks a listing of the JSON-RPC surface page by page      *)
(* (src/src/api/mod.rs), passing each page's next_cursor to the next call, *)
(* while the follower goes on changing the tables between two pages.       *)
(***************************************************************************)
EXTENDS Follower, Queries

CONSTANT
  Asked               \* the queries clients walk

ASSUME AskedAssumption == \A q \in Asked : q.limit \in Nat

\* The walk under way: its query, the cursor for its next page, the rows it has
\* been shown, the rows that were in the listing all along, and whether the last
\* page came without a cursor.
VARIABLE walk

readerVars == <<vars, walk>>

Idle == [query |-> None, cursor |-> None, seen |-> {}, stayed |-> {}, over |-> FALSE]

Walking == walk # Idle /\ ~walk.over

InitReaders == Init /\ walk = Idle

Ask == /\ walk = Idle
       /\ \E q \in Asked :
            walk' = [Idle EXCEPT !.query = q, !.stayed = Rows(db, q)]
       /\ UNCHANGED vars

Rest == After(Rows(db, walk.query), walk.query, walk.cursor)

\* One call, answered from one snapshot of the tables.
ReadPage ==
  /\ Walking
  /\ walk.query.limit > 0 \/ Rest = {}
  /\ LET next == NextCursor(Rest, walk.query)
     IN  walk' = [walk EXCEPT !.cursor = next,
                              !.seen = @ \cup Page(Rest, walk.query),
                              !.over = next = None]
  /\ UNCHANGED vars

\* Mutant: a page of no rows hands back the cursor it was asked with.
RefusePageQuietly ==
  /\ Walking
  /\ walk.query.limit = 0 /\ Rest # {}
  /\ UNCHANGED readerVars

\* A page of no rows has no last row to take a cursor from: the query's task
\* panics and the client is answered with an error.
RefusePage ==
  /\ Walking
  /\ walk.query.limit = 0 /\ Rest # {}
  /\ walk' = Idle
  /\ UNCHANGED vars

LeaveOff == walk # Idle /\ walk' = Idle /\ UNCHANGED vars

FollowerMoves ==
  /\ Next
  /\ walk' = IF walk = Idle THEN Idle
             ELSE [walk EXCEPT !.stayed = @ \cap Rows(db', walk.query)]

ReadersNext == Ask \/ ReadPage \/ RefusePage \/ LeaveOff \/ FollowerMoves

\* A client that walks on gets an answer: a page, or the error.
ReadersFairness == WF_walk(ReadPage \/ RefusePage)

ReadersSpec == InitReaders /\ [][ReadersNext]_readerVars /\ ReadersFairness
=============================================================================
