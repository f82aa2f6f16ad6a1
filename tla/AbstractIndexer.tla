-------------------------- MODULE AbstractIndexer --------------------------
(***************************************************************************)
(* What the indexer promises its readers: at every moment the tables are   *)
(* exactly the index of one valid chain, and that chain changes by one     *)
(* block at a time, at its tip.                                            *)
(***************************************************************************)
EXTENDS Reference

VARIABLES view, index

AInit == view = <<>> /\ index = RefIndex(<<>>)

Extend == \E b \in BlockBodies \cup {Genesis} :
            /\ ValidChain(Append(view, b))
            /\ view' = Append(view, b)

Rewind == /\ view # <<>>
          /\ view' = SubSeq(view, 1, Len(view) - 1)

ANext == (Extend \/ Rewind) /\ index' = RefIndex(view')

ASpec == AInit /\ [][ANext]_<<view, index>>
=============================================================================
