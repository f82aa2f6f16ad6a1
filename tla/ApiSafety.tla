----------------------------- MODULE ApiSafety -----------------------------
(***************************************************************************)
(* What a client may rely on in the answers to one POST.  A history        *)
(* variable keeps what was so while the item under way was handled.        *)
(***************************************************************************)
EXTENDS Api, FollowerSafety

\* chains: the chains that were the node's, or the one the tables index, since
\* the item's handler first awaited; torn: the follower committed since the
\* handler knew the node's height.
VARIABLE during

NotYet == [chains |-> {}, torn |-> FALSE]

Current == {chain, View}

\* The handler of an item awaits something.
Awaiting == post.at \in {"node", "tip", "meta", "count"}

Observe ==
  during' = IF ~Awaiting' THEN NotYet
            ELSE [chains |-> during.chains \cup Current \cup Current',
                  torn   |-> /\ post'.at \in {"meta", "count"}
                             /\ during.torn \/ db' # db \/ meta' # meta]

ObservedInit == InitApi /\ during = NotYet
ObservedNext == ApiNext /\ Observe

ObservedSpec ==
  /\ ObservedInit
  /\ [][ObservedNext]_<<apiVars, during>>
  /\ ApiFairness

\* The answer chain c calls for.
TrueAnswer(c, item) ==
  LET htlcs == RefHtlcs(c)
      datums == RefDatums(c)
      spent == RefSpentBy(c)
      under == {o \in DOMAIN htlcs : htlcs[o].params.hashLock = item.arg}
  IN  CASE item.method = "htlc_status" ->
             IF item.arg \in DOMAIN htlcs THEN htlcs[item.arg] ELSE None
        [] item.method = "htlc_lookup_by_hashlock" -> [o \in under |-> htlcs[o]]
        [] item.method = "detect_in_chain_swaps" ->
             IF Cardinality(under) > 1 THEN {[o \in under |-> htlcs[o]]} ELSE {}
        [] item.method = "get_output_datum" ->
             IF item.arg \in DOMAIN datums
             THEN [f \in {"quote", "unhonorable"} |-> datums[item.arg][f]]
             ELSE [quote |-> None, unhonorable |-> FALSE]
        [] item.method = "find_settlements_by_quote_id" ->
             {o \in DOMAIN datums : datums[o].quote = item.arg}
        [] item.method = "get_output_spent_by" ->
             IF item.arg \in DOMAIN spent THEN spent[item.arg] ELSE None
        [] OTHER -> TRUE

Told(item, answer) ==
  IF item.method = "get_output_spent_by" THEN answer.result.by ELSE answer.result

Answers == Len(post'.answers) = Len(post.answers) + 1
LastAnswer == post'.answers[Len(post'.answers)]

\* What an item is answered was true of one chain that was, at some moment between
\* the handler's first read and its answer, the node's or the one the tables
\* index: no answer tells of a chain that was gone before the item was begun, or
\* mixes two (api/mod.rs reads its cache first and asks the node on a miss, while
\* the follower applies and rewinds).
EveryAnswerWasTrue ==
  [][Answers /\ Refused(Item) = {} /\ Item.method # "get_indexer_status"
       /\ LastAnswer.error \notin {Upstream, Internal} =>
       \E c \in during.chains \cup Current : Told(Item, LastAnswer) = TrueAnswer(c, Item)]_post

\* The HTLC count of a status answer is that of the block it names, unless the
\* follower committed while the answer was put together or stood between the two
\* commits of a rewind: get_indexer_status reads the checkpoint and the count in
\* two transactions.
StatusCountsItsBlock ==
  [][Answers /\ Item.method = "get_indexer_status" /\ LastAnswer.error = 0
       /\ ~during.torn /\ pc # "save" =>
       LastAnswer.result.count = Cardinality(DOMAIN RefHtlcs(LastAnswer.result.id))]_post

\* The codes an item may be answered with, 0 for a result: an item that is refused
\* gets its own code; any other a result, or an error of the reads it makes.
Codes(item) ==
  IF Refused(item) # {} THEN Refused(item)
  ELSE {0} \cup (IF item.method = "ping" THEN {} ELSE {Internal})
           \cup (IF item.method \in Remote THEN {Upstream} ELSE {})
           \cup (IF item.method = "htlc_status" THEN {BadParams} ELSE {})

\* A reply has one answer for each item of its POST, in the items' order: an item
\* that is malformed, unknown or fails gets an error of its own and takes nothing
\* from the items before and after it (handle_rpc pushes what handle_single makes
\* of each item, an error too).
EveryItemAnswered ==
  post.at = "sent" =>
    /\ DOMAIN post.answers = DOMAIN post.items
    /\ \A i \in DOMAIN post.items :
         /\ post.answers[i].error \in Codes(post.items[i])
         /\ post.answers[i].error # 0 => post.answers[i].result = None

\* The serving of a POST comes to an end, with its reply or with the client gone:
\* no await of a handler is for ever and no item is handled without end.
PostsEnd == Serving ~> ~Serving
=============================================================================
