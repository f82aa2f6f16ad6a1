----------------------------- MODULE TickSafety ----------------------------
(***************************************************************************)
(* The properties of the follower's control.                               *)
(***************************************************************************)
EXTENDS Tick

Heights == 0 .. MaxHeight
Bodies == BlockBodies \cup {Genesis}
Histories == {c \in Seq(Bodies) : Len(c) <= MaxHeight + 1}
Metas == [last : Heights, id : Histories, full : BOOLEAN]

\* Every variable of the control has its type.
TickTypeOK ==
  /\ chain \in Histories /\ chain # <<>>
  /\ meta \in Metas
  /\ pc \in Pcs
  /\ tip \in Heights
  /\ m \in Metas
  /\ h \in Heights
  /\ got \in Histories

\* The tick's own state fits the checkpoint it works from: the loop's next
\* height follows the checkpoint, the local copy is the stored one until the
\* rewind, and the block about to be applied has that height.
TickFitsCheckpoint ==
  /\ meta.id = ZeroId => meta.last = 0
  /\ meta.id # ZeroId => HeightOf(meta.id) = meta.last
  /\ pc \in {"check", "ancestor", "plan"} => m = meta
  /\ pc \in {"check", "ancestor", "wipe", "save"} => meta.last > 0
  /\ pc \in {"wipe", "save"} => m.last = meta.last - 1 /\ HeightOf(m.id) = m.last
  /\ pc \in {"fetch", "apply"} => h = Start(meta) /\ h <= tip
  /\ pc = "apply" => HeightOf(got) = h

\* While the node holds still during a tick: the scan is marked complete only when
\* the checkpoint is the node's own tip, so "complete" never hides a block that
\* is not indexed (the early return of tick).
CompleteAtTip ==
  [][~meta.full /\ meta'.full => meta'.id = chain]_tickVars

(***************************************************************************)
(* Liveness, for the fair follower.  The node's chain is bounded, so it    *)
(* comes to rest; ticks may fail, but not for ever.                        *)
(***************************************************************************)
\* A tick that finds nothing to do, or no block at a height, ends on its own and
\* is no failure from outside.
TickFails == AbortTick /\ ~TickStep
FailsForEver == []<><<TickFails>>_tickVars

\* The node came to rest on a branch that ends below the checkpoint: it has no
\* block at the checkpoint's height, so every tick fails before it can rewind.
RestsBelowCheckpoint == <>[](HeightOfChain(chain) < meta.last)

NodeNeverRests == []<><<chain' # chain>>_chain

\* Once the node rests, at the checkpoint's height or above, the checkpoint
\* reaches its tip and stays, marked as a complete scan (a tick that fails is
\* tried again from the checkpoint).
CatchesUp ==
  \/ FailsForEver
  \/ NodeNeverRests
  \/ RestsBelowCheckpoint
  \/ <>[](meta.id = chain /\ meta.full)
=============================================================================
