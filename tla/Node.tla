-------------------------------- MODULE Node -------------------------------
(***************************************************************************)
(* The exfer node, external to src/: a chain of blocks the follower reads  *)
(* over JSON-RPC, one call at a time.  Modelled from how upstream.rs and   *)
(* follower.rs use it: get_block_height, get_block_by_height and           *)
(* get_transaction answer from whatever the canonical chain is when the    *)
(* call is served.                                                         *)
(*                                                                         *)
(* A block id commits to the history below it, so the chain, a sequence of *)
(* block bodies from genesis on, is also the id of its tip.                *)
(***************************************************************************)
EXTENDS Extract

CONSTANTS
  Genesis,            \* body of the block at height 0
  BlockBodies,        \* bodies a later block may have
  MaxHeight,          \* bound on the height of the chain
  MaxDepth,           \* most blocks one reorganisation orphans
  ReorgUntouched,     \* TRUE: it orphans no spend of an HTLC it leaves in place
  Shorter             \* TRUE: the winning branch may be the shorter one

VARIABLE chain

ASSUME NodeAssumption ==
  /\ Genesis \in Seq(Tx)
  /\ BlockBodies \subseteq Seq(Tx)
  /\ MaxHeight \in Nat
  /\ MaxDepth \in Nat

HeightOfChain(c) == Len(c) - 1

BlockIdAt(c, height) == SubSeq(c, 1, height + 1)

\* <<block, position>> of every transaction of c.
Positions(c) == UNION {{k} \X DOMAIN c[k] : k \in DOMAIN c}
TxAt(c, p) == c[p[1]][p[2]]
Earlier(p, q) == p[1] < q[1] \/ (p[1] = q[1] /\ p[2] < q[2])

\* Every input of c: <<position, input>>.
InputsOfChain(c) == UNION {{p} \X Inputs(TxAt(c, p)) : p \in Positions(c)}
PrevOf(c, x) == Body[TxAt(c, x[1])].ins[x[2]].prev

\* An HTLC yields to a claim at any height and to its reclaim after timeout.
HtlcYields(c, x) ==
  LET o == PrevOf(c, x)
      arm == InputArm(TxAt(c, x[1]), x[2])
  IN  IsHtlc(o) =>
        \/ arm = "claim"
        \/ arm = "reclaim" /\ x[1][1] - 1 > Out(o).script.timeout

\* What consensus makes of a chain, as far as the index can tell: every
\* transaction once, every input spending an output that is there and unspent.
ValidChain(c) ==
  /\ \A p, q \in Positions(c) : TxAt(c, p) = TxAt(c, q) => p = q
  /\ \A x \in InputsOfChain(c) :
       /\ \E p \in Positions(c) : /\ Earlier(p, x[1])
                                  /\ PrevOf(c, x) \in OutpointsOf(TxAt(c, p))
       /\ \A y \in InputsOfChain(c) : PrevOf(c, x) = PrevOf(c, y) => x = y
       /\ HtlcYields(c, x)

\* The chain the node starts from is one.
ASSUME ConsensusAssumption == ValidChain(<<Genesis>>)

\* Bodies of n blocks on top of each other.
Branches(n) == [1 .. n -> BlockBodies]

\* Every chain the node can have.
Chains == {<<Genesis>> \o branch : branch \in UNION {Branches(n) : n \in 0 .. MaxHeight}}
ValidChains == {c \in Chains : ValidChain(c)}

InitNode == chain = <<Genesis>>

Mine ==
  /\ HeightOfChain(chain) < MaxHeight
  /\ \E b \in BlockBodies : /\ Append(chain, b) \in ValidChains
                            /\ chain' = Append(chain, b)

\* No transaction above block k of c spends an HTLC locked at or below it.
LocksKeepTheirSpends(c, k) ==
  \A x \in InputsOfChain(c) : \A p \in Positions(c) :
     (p[1] <= k /\ k < x[1][1] /\ PrevOf(c, x) \in OutpointsOf(TxAt(c, p)))
        => ~IsHtlc(PrevOf(c, x))

\* The tip branch loses its last d blocks to a branch that was heavier.
Reorg ==
  \E d \in 1 .. MaxDepth :
    LET fork == Len(chain) - d
    IN  /\ fork >= 1
        /\ ReorgUntouched => LocksKeepTheirSpends(chain, fork)
        /\ \E n \in (IF Shorter THEN 1 ELSE d + 1) .. d + 1 :
           \E branch \in Branches(n) :
             LET c == SubSeq(chain, 1, fork) \o branch
             IN  /\ HeightOfChain(c) <= MaxHeight
                 /\ branch[1] # chain[fork + 1]
                 /\ c \in ValidChains
                 /\ chain' = c

NodeMoves == Mine \/ Reorg
=============================================================================
