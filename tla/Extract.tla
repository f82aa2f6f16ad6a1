------------------------------ MODULE Extract ------------------------------
(***************************************************************************)
(* What one transaction contributes to the index: the pure functions of    *)
(* src/src/extract.rs.  A transaction is known by its id; Body gives the   *)
(* parts of it the extraction looks at.  Output n of transaction t is the  *)
(* outpoint <<t, n>>, numbered from 1 (the code numbers from 0).           *)
(***************************************************************************)
EXTENDS Integers, Sequences, FiniteSets

CONSTANTS
  Tx,                 \* transaction ids
  Body,               \* Body[t] : the deserialized transaction
  Address,            \* 32-byte P2PKH scripts
  PubKey,             \* HTLC parties' public keys
  DeriveAddress,      \* derive_address_from_pubkey, a function on PubKey
  None                \* Option::None

HtlcStates == {"Locked", "LockedExpired", "Claimed", "Reclaimed"}
Settled == {"Claimed", "Reclaimed"}

QuoteIdBytes == 16
ClaimHeaderBytes == 7

Out(o) == Body[o[1]].outs[o[2]]
OutpointsOf(t) == {<<t, n>> : n \in DOMAIN Body[t].outs}
Outpoint == UNION {OutpointsOf(t) : t \in Tx}

(* An output's script is a pubkey hash, an HTLC program, or anything else. *)
HtlcScripts == [kind : {"htlc"}, sender : PubKey, receiver : PubKey,
                hashLock : STRING, timeout : Nat]
Scripts == HtlcScripts \cup [kind : {"p2pkh"}, addr : Address] \cup [kind : {"other"}]

(***************************************************************************)
(* Outputs.                                                                *)
(***************************************************************************)

\* Mutant: trailing bytes are accepted.
PrefixDecodeQuoteId(datum) ==
  IF datum.len >= QuoteIdBytes THEN datum.bytes ELSE None

\* An inline datum binds a quote iff it is exactly 16 bytes long.
StrictDecodeQuoteId(datum) ==
  IF datum.len = QuoteIdBytes THEN datum.bytes ELSE None

\* Outputs that get a row in the settlement-datum index: the ones whose inline
\* datum strict-decodes, and the ones that commit to a datum by hash alone.
IsDatumOutput(o) ==
  \/ /\ Out(o).datum.kind = "inline"
     /\ StrictDecodeQuoteId(Out(o).datum) # None
  \/ Out(o).datum.kind = "hash"

DatumQuote(o) ==
  IF Out(o).datum.kind = "inline" THEN StrictDecodeQuoteId(Out(o).datum)
                                  ELSE None

IsPay(o)  == Out(o).script.kind = "p2pkh"
IsHtlc(o) == Out(o).script.kind = "htlc"

\* The HTLC record a lock output produces at the given height.
LockRecord(o, height) ==
  [params     |-> Out(o).script,
   amount     |-> Out(o).value,
   lockHeight |-> height,
   state      |-> IF height > Out(o).script.timeout THEN "LockedExpired"
                                                    ELSE "Locked",
   claim      |-> None,
   reclaim    |-> None]

(***************************************************************************)
(* Inputs.                                                                 *)
(***************************************************************************)

\* extract_claim_preimage: the Left/Unit/Bytes framing, then a preimage of the
\* declared length, all of it within the witness.
HasClaimPreimage(w) ==
  /\ w.size >= ClaimHeaderBytes
  /\ w.framed
  /\ w.size >= ClaimHeaderBytes + w.declared

\* The arm a witness takes, or None: Left with a readable preimage is a claim,
\* Right a reclaim, whatever output the input spends.
ClassifySpendArm(w) ==
  IF w.size < 2 THEN None
  ELSE IF w.tag = "left" /\ HasClaimPreimage(w) THEN "claim"
  ELSE IF w.tag = "right" THEN "reclaim"
  ELSE None

Inputs(t) == IF Body[t].coinbase THEN {} ELSE DOMAIN Body[t].ins

InputArm(t, v) == ClassifySpendArm(Body[t].ins[v].witness)

\* Candidate HTLC spends of one transaction.
SpendsOf(t) ==
  {[tx |-> t, input |-> v, out |-> Body[t].ins[v].prev, arm |-> InputArm(t, v)] :
      v \in {w \in Inputs(t) : InputArm(t, w) # None}}

(***************************************************************************)
(* Settlement records.                                                     *)
(***************************************************************************)

\* settled_tx_id(rec).unwrap_or(rec.lock_tx_id), for the record of outpoint o.
SettledTxId(o, rec) ==
  IF rec.claim # None THEN rec.claim.tx
  ELSE IF rec.reclaim # None THEN rec.reclaim.tx
  ELSE o[1]

Party(rec, side) ==
  DeriveAddress[IF side = "sender" THEN rec.params.sender ELSE rec.params.receiver]

Other(side) == IF side = "sender" THEN "receiver" ELSE "sender"

\* One of the two records settlements_for_settled_htlc builds; the contract
\* hash is the same constant for every HTLC and is left out.
SettlementRow(o, rec, side) ==
  [outcome      |-> rec.state,
   counterparty |-> Party(rec, Other(side)),
   amount       |-> rec.amount,
   lock         |-> o]

(***************************************************************************)
(* The transactions the chain carries are well formed.                     *)
(***************************************************************************)

Datums == [kind : {"none", "hash"}]
            \cup [kind : {"inline"}, len : Nat, bytes : STRING]
Outputs == [script : Scripts, value : Nat, datum : Datums]
Witnesses == [size : Nat, tag : {"left", "right", "other"}, framed : BOOLEAN,
              declared : Nat, preimage : STRING]

ASSUME ExtractAssumption ==
  /\ \A t \in Tx :
       /\ Body[t].coinbase \in BOOLEAN
       /\ Body[t].outs \in Seq(Outputs)
       /\ Len(Body[t].ins) \in Nat
       /\ DOMAIN Body[t].ins = 1 .. Len(Body[t].ins)
       /\ \A v \in DOMAIN Body[t].ins : Body[t].ins[v].witness \in Witnesses
  /\ DeriveAddress \in [PubKey -> Address]
  /\ None \notin STRING
  /\ None \notin {"claim", "reclaim"}      \* said apart: the provers have no
                                          \* literal in STRING
=============================================================================
