-------------------------------- MODULE Api --------------------------------
(***************************************************************************)
(* A client's POST as handle_rpc of src/src/server.rs serves it: a batch,  *)
(* or a single request, whose items are dispatched (src/src/api/mod.rs)    *)
(* one after the other while the follower goes on committing and the node  *)
(* goes on moving.  A handler is cut where it awaits: each read of the     *)
(* store is one snapshot, each call to the node is answered from the chain *)
(* of its own moment.                                                      *)
(*                                                                         *)
(*   item --> (cache miss) --> node --+                                    *)
(*     ^  \-> tip --> meta --> count -+                                    *)
(*     +------------- answered <------+           all answered --> sent    *)
(*                                                                         *)
(* Several posts share nothing but the store and the node, so one is       *)
(* enough.  The paged methods are in module Readers.                       *)
(***************************************************************************)
EXTENDS Follower, Lookups

CONSTANT
  Posts               \* what clients post: sequences of items

(* An item is [method, arg]; the method None is an item that is no request, *)
(* the argument None one that does not decode.                              *)

\* The other methods of dispatch: the listings and aggregates of Queries, and a
\* constant table.
Elsewhere == {"htlc_list", "list_settlements", "contract_stats", "get_address_history",
              "get_attestation_edges", "get_contract_template"}

ASSUME PostsAssumption ==
  \A items \in Posts :
    /\ Len(items) \in Nat \ {0} /\ DOMAIN items = 1 .. Len(items)
    /\ \A i \in DOMAIN items :
         /\ items[i] = [method |-> items[i].method, arg |-> items[i].arg]
         /\ items[i].method \notin Elsewhere

VARIABLE post         \* the POST under way, or the reply the client was sent

apiVars == <<vars, post>>

NoPost == [items |-> <<>>, answers |-> <<>>, at |-> "none", tip |-> 0, meta |-> MetaDefault]

Serving == post.at \notin {"none", "sent"}

Item == post.items[Len(post.answers) + 1]

\* rpc_code of src/src/error.rs.
InvalidRequest == -32600
UnknownMethod  == -32601
BadParams      == -32602
Upstream       == -32020
Internal       == -32603      \* Error::Storage and Error::Internal

Refusal(code) == [error |-> code, result |-> None]
Answer(value) == [error |-> 0, result |-> value]

Local == {"ping", "htlc_status", "htlc_lookup_by_hashlock", "get_output_datum",
          "find_settlements_by_quote_id", "detect_in_chain_swaps"}
Remote == {"get_indexer_status", "get_output_spent_by"}
WithArgument == (Local \cup Remote) \ {"ping", "get_indexer_status"}

\* What handle_single and dispatch refuse, and the code they refuse it with.
Refused(item) ==
  {InvalidRequest : x \in {item.method} \cap {None}}
    \cup {UnknownMethod : x \in {item.method} \ (Local \cup Remote \cup {None})}
    \cup {BadParams : x \in {item} \cap {[method |-> w, arg |-> None] : w \in WithArgument}}

Spent(s, source) == [spent |-> TRUE, by |-> s, source |-> source]
Unspent(source)  == [spent |-> FALSE, by |-> None, source |-> source]

FirstOr(option, default) == IF option = {} THEN default ELSE CHOOSE x \in option : TRUE

\* The handlers that are one read transaction.
LocalAnswer(d, item) ==
  CASE item.method = "ping" -> Answer(TRUE)
    [] item.method = "htlc_status" ->
         FirstOr({Answer(rec) : rec \in GetHtlc(d, item.arg)}, Refusal(BadParams))
    [] item.method = "htlc_lookup_by_hashlock" -> Answer(LookupByHashlock(d, item.arg))
    [] item.method = "get_output_datum" ->
         Answer(FirstOr(GetOutputDatum(d, item.arg), NoSignal))
    [] item.method = "find_settlements_by_quote_id" ->
         Answer(FindSettlementsByQuoteId(d, item.arg))
    [] item.method = "detect_in_chain_swaps" -> Answer(SharedUnder(d, item.arg))

\* The item is answered, and the next one begins: results.push(r).
AnswerWith(answer) ==
  post' = [NoPost EXCEPT !.items = post.items,
                         !.answers = Append(post.answers, answer),
                         !.at = "item"]

Unanswered == post.at = "item" /\ Len(post.answers) < Len(post.items)

Receive ==
  /\ ~Serving
  /\ \E items \in Posts : post' = [NoPost EXCEPT !.items = items, !.at = "item"]

Refuse ==
  /\ Unanswered
  /\ \E code \in Refused(Item) : AnswerWith(Refusal(code))

AnswerLocally ==
  /\ Unanswered /\ Refused(Item) = {} /\ Item.method \in Local
  /\ AnswerWith(LocalAnswer(db, Item))

\* get_output_spent_by: the cache first.
ReadCache ==
  /\ Unanswered /\ Refused(Item) = {} /\ Item.method = "get_output_spent_by"
  /\ LET cached == CachedSpentBy(db, Item.arg)
     IN  \/ \E row \in cached : AnswerWith(Answer(Spent(row, "indexer-cache")))
         \/ cached = {} /\ post' = [post EXCEPT !.at = "node"]

BeginStatus ==
  /\ Unanswered /\ Refused(Item) = {} /\ Item.method = "get_indexer_status"
  /\ post' = [post EXCEPT !.at = "tip"]

\* The node's own spent-by lookup (external): where its chain spends an output.
SpendersIn(c, o) ==
  {[tx |-> TxAt(c, x[1]), input |-> x[2], height |-> x[1][1] - 1] :
     x \in {y \in InputsOfChain(c) : PrevOf(c, y) = o}}

NodeAnswersSpentBy ==
  /\ post.at = "node"
  /\ AnswerWith(Answer(FirstOr({Spent(s, "node") : s \in SpendersIn(chain, Item.arg)},
                               Unspent("node"))))

\* A read of the store ends in a storage error, which is the item's answer.
ReadFails ==
  /\ \/ /\ Unanswered /\ Refused(Item) = {}
        /\ Item.method \in (Local \ {"ping"}) \cup {"get_output_spent_by"}
     \/ post.at \in {"meta", "count"}
  /\ AnswerWith(Refusal(Internal))

\* Mutant: the handler starts over when the node does not know the method.
StartOver ==
  /\ post.at = "node"
  /\ post' = [post EXCEPT !.at = "item"]

\* A node without the method answers -32601, which counts as unspent.
FallBack ==
  /\ post.at = "node"
  /\ AnswerWith(Answer(Unspent("fallback-unknown-method")))

NodeAnswersHeight ==
  /\ post.at = "tip"
  /\ post' = [post EXCEPT !.at = "meta", !.tip = HeightOfChain(chain)]

\* The call to the node ends in an error, or in a result that does not decode: that
\* is the item's answer.
CallFails ==
  /\ post.at \in {"node", "tip"}
  /\ \E code \in {Upstream, Internal} : AnswerWith(Refusal(code))

ReadMeta ==
  /\ post.at = "meta"
  /\ post' = [post EXCEPT !.at = "count", !.meta = meta]

ReadCount ==
  /\ post.at = "count"
  /\ AnswerWith(Answer([last  |-> post.meta.last,
                        id    |-> post.meta.id,
                        tip   |-> post.tip,
                        lag   |-> post.tip - post.meta.last,
                        count |-> HtlcCount(db),
                        full  |-> post.meta.full]))

\* Mutant: the reply is sent with the first error.
ReplyOnError ==
  /\ post.at = "item"
  /\ \/ Len(post.answers) = Len(post.items)
     \/ \E i \in DOMAIN post.answers : post.answers[i].error # 0
  /\ post' = [post EXCEPT !.at = "sent"]

Reply ==
  /\ post.at = "item" /\ Len(post.answers) = Len(post.items)
  /\ post' = [post EXCEPT !.at = "sent"]

Serve ==
  \/ Refuse \/ AnswerLocally \/ ReadCache \/ BeginStatus
  \/ NodeAnswersSpentBy \/ FallBack \/ NodeAnswersHeight \/ CallFails
  \/ ReadMeta \/ ReadCount \/ ReadFails \/ Reply

\* The client goes away, and the handler's future with it.
HangUp == Serving /\ post' = NoPost

InitApi == Init /\ post = NoPost

Client == Receive \/ Serve \/ HangUp

ApiNext == (Client /\ UNCHANGED vars) \/ (Next /\ UNCHANGED post)

ApiSpec == InitApi /\ [][ApiNext]_apiVars

\* Every await of a handler ends: reads are not blocked by the writer, and a call
\* to the node ends in an answer or an error.
ApiFairness == WF_post(Serve)
=============================================================================
