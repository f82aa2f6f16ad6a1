-------------------------------- MODULE Tick -------------------------------
(***************************************************************************)
(* The control of the block follower of src/src/follower.rs: one tokio     *)
(* task that repeats tick() for ever, reading the node and moving the      *)
(* checkpoint.  A tick is cut where the code awaits a call to the node or  *)
(* commits a transaction; between two cuts nothing else can run, because   *)
(* the follower is the only writer of the store.                           *)
(*                                                                         *)
(*   sleep -> check -> ancestor -> wipe -> save -> plan -> fetch -> apply  *)
(*     ^        |                                   |  ^              |    *)
(*     |        +-----------------------------------+  +--------------+    *)
(*     +--- tick returned, failed, or the process stopped                  *)
(*                                                                         *)
(* What the two table transactions do to the tables is in module Follower. *)
(***************************************************************************)
EXTENDS Node

CONSTANTS
  MidTick,            \* TRUE: the node may move while a tick is under way
  StopInRewind        \* TRUE: a tick may end between wipe_above and save_meta

VARIABLES
  meta,               \* the stored checkpoint, FollowerMeta
  pc,                 \* where in tick() the task is
  tip,                \* tick's tip.height
  m,                  \* tick's local copy of the checkpoint
  h,                  \* the loop's height
  got                 \* id of the block fetched for h

local == <<tip, m, h, got>>
tickVars == <<chain, meta, pc, tip, m, h, got>>

Pcs == {"sleep", "check", "ancestor", "wipe", "save", "plan", "fetch", "apply"}

ZeroId == <<>>
MetaDefault == [last |-> 0, id |-> ZeroId, full |-> FALSE]

HeightOf(id) == Len(id) - 1

\* Locals are dropped when a tick ends.
AtRest == /\ pc' = "sleep"
          /\ tip' = 0
          /\ m' = MetaDefault
          /\ h' = 0
          /\ got' = ZeroId

TickInit ==
  /\ InitNode
  /\ meta = MetaDefault
  /\ pc = "sleep"
  /\ tip = 0
  /\ m = MetaDefault
  /\ h = 0
  /\ got = ZeroId

NodeHas(height) == height <= HeightOfChain(chain)

\* Mutant: the zero id is not looked at.
StartByHeight(c) == IF c.last = 0 THEN 0 ELSE c.last + 1

\* The first height to index from a checkpoint.
Start(c) == IF c.id = ZeroId /\ c.last = 0 THEN 0 ELSE c.last + 1

\* Mutant: reorg detection also for an empty checkpoint.
ReadTipAlwaysCheck ==
  /\ pc = "sleep"
  /\ tip' = HeightOfChain(chain)
  /\ m' = meta
  /\ pc' = "check"
  /\ UNCHANGED <<chain, meta, h, got>>

\* get_block_height, then load_meta.
ReadTip ==
  /\ pc = "sleep"
  /\ tip' = HeightOfChain(chain)
  /\ m' = meta
  /\ pc' = IF meta.last > 0 THEN "check" ELSE "plan"
  /\ UNCHANGED <<chain, meta, h, got>>

\* Mutant: the stored id is never compared.
CheckNothing ==
  /\ pc = "check"
  /\ NodeHas(m.last)
  /\ pc' = "plan"
  /\ UNCHANGED <<chain, meta, local>>

\* Reorg detection: the node's id at the checkpoint's height.
CheckReorg ==
  /\ pc = "check"
  /\ NodeHas(m.last)
  /\ pc' = IF BlockIdAt(chain, m.last) # m.id THEN "ancestor" ELSE "plan"
  /\ UNCHANGED <<chain, meta, local>>

\* Mutant: the ancestor is looked for at the checkpoint's own height.
FindAncestorInPlace ==
  /\ pc = "ancestor"
  /\ NodeHas(m.last)
  /\ m' = [last |-> m.last, id |-> BlockIdAt(chain, m.last), full |-> FALSE]
  /\ pc' = "wipe"
  /\ UNCHANGED <<chain, meta, tip, h, got>>

\* find_common_ancestor: one block back, whatever the node has there now.
FindAncestor ==
  /\ pc = "ancestor"
  /\ NodeHas(m.last - 1)
  /\ m' = [last |-> m.last - 1, id |-> BlockIdAt(chain, m.last - 1), full |-> FALSE]
  /\ pc' = "wipe"
  /\ UNCHANGED <<chain, meta, tip, h, got>>

\* wipe_above commits; the checkpoint still names the block it names.
Wipe ==
  /\ pc = "wipe"
  /\ pc' = "save"
  /\ UNCHANGED <<chain, meta, local>>

\* Mutant: the rewind saves the height and forgets the id.
SaveHeightOnly ==
  /\ pc = "save"
  /\ meta' = [m EXCEPT !.id = meta.id]
  /\ pc' = "plan"
  /\ UNCHANGED <<chain, local>>

SaveReorg ==
  /\ pc = "save"
  /\ meta' = m
  /\ pc' = "plan"
  /\ UNCHANGED <<chain, local>>

\* Mutant: the scan is complete with the last block still to index.
CaughtUpEarly ==
  /\ pc = "plan"
  /\ Start(m) >= tip
  /\ meta' = IF m.full THEN meta ELSE [m EXCEPT !.full = TRUE]
  /\ AtRest
  /\ UNCHANGED chain

\* Nothing to index: mark the scan complete and return.
CaughtUp ==
  /\ pc = "plan"
  /\ Start(m) > tip
  /\ meta' = IF m.full THEN meta ELSE [m EXCEPT !.full = TRUE]
  /\ AtRest
  /\ UNCHANGED chain

EnterLoop ==
  /\ pc = "plan"
  /\ Start(m) <= tip
  /\ h' = Start(m)
  /\ m' = MetaDefault
  /\ pc' = "fetch"
  /\ UNCHANGED <<chain, meta, tip, got>>

\* Mutant: the block at the tip is fetched, whatever the loop's height.
FetchTip ==
  /\ pc = "fetch"
  /\ NodeHas(tip)
  /\ got' = BlockIdAt(chain, tip)
  /\ pc' = "apply"
  /\ UNCHANGED <<chain, meta, tip, m, h>>

FetchBlock ==
  /\ pc = "fetch"
  /\ NodeHas(h)
  /\ got' = BlockIdAt(chain, h)
  /\ pc' = "apply"
  /\ UNCHANGED <<chain, meta, tip, m, h>>

\* The rest of process_block: the transactions' contents follow from their
\* ids, and the last call to the node comes before peek_htlc and the commit,
\* which advances the checkpoint with the tables.
ApplyBlock ==
  /\ pc = "apply"
  /\ meta' = [last |-> h, id |-> got, full |-> FALSE]
  /\ IF h < tip
     THEN /\ h' = h + 1
          /\ pc' = "fetch"
          /\ got' = ZeroId
          /\ UNCHANGED <<tip, m>>
     ELSE AtRest
  /\ UNCHANGED chain

\* The node has no block at the height asked for: the RPC error ends the tick.
BlockMissing ==
  /\ \/ pc = "check" /\ ~NodeHas(m.last)
     \/ pc = "ancestor" /\ ~NodeHas(m.last - 1)
     \/ pc = "fetch" /\ ~NodeHas(h)
  /\ AtRest
  /\ UNCHANGED <<chain, meta>>

\* A call to the node or a transaction fails and tick returns the error, or the
\* process stops and starts again: either way only the store survives.
AbortTick ==
  /\ pc # "sleep"
  /\ pc = "save" => StopInRewind
  /\ AtRest
  /\ UNCHANGED <<chain, meta>>

NodeStep ==
  /\ pc = "sleep" \/ MidTick
  /\ NodeMoves
  /\ UNCHANGED <<meta, pc, local>>

\* The steps that leave the tables alone.
QuietStep ==
  \/ ReadTip \/ CheckReorg \/ FindAncestor \/ SaveReorg
  \/ CaughtUp \/ EnterLoop \/ FetchBlock \/ BlockMissing

TickStep == QuietStep \/ Wipe \/ ApplyBlock

TickNext == TickStep \/ AbortTick \/ NodeStep

TickSpec == TickInit /\ [][TickNext]_tickVars

\* run() never leaves its loop and sleeps a bounded time, and every await in a
\* tick ends, with an answer or an error: the follower keeps taking steps.
Fairness == WF_tickVars(TickStep)
=============================================================================
