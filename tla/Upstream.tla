------------------------------ MODULE Upstream ------------------------------
(***************************************************************************)
(* NodeClient of src/src/upstream.rs: JSON-RPC calls to one of several     *)
(* node URLs, chosen round-robin from a counter all calls share, retried   *)
(* on transport errors.  The follower and every API request hold a clone   *)
(* of one client, so calls run concurrently.  A call is cut at its awaits: *)
(* the post and the backoff sleep.                                         *)
(***************************************************************************)
EXTENDS Integers, FiniteSets

CONSTANTS
  Callers,            \* tasks that call the node
  N,                  \* number of URLs; they are 0 .. N - 1
  Attempts            \* attempts of one call

ASSUME UpstreamAssumption == N \in Nat \ {0} /\ Attempts \in Nat \ {0}

Urls == 0 .. N - 1

VARIABLES
  next,               \* the shared counter, modulo the number of URLs
  up,                 \* URLs where a post gets a JSON response
  call                \* each caller's call

upstreamVars == <<next, up, call>>

\* What a response holds: a result, an error object, an error that is null, or
\* neither field.
Responses == {"result", "error", "null_error", "neither"}

Outcomes == {"ok", "rpc_error", "unreachable"}

\* Three fields record what happened since the call began: the URLs it posted to,
\* the URLs that were up all along, and whether no other call posted.
Untried(pc, steady) ==
  [pc |-> pc, attempt |-> 0, url |-> 0, tried |-> {}, steady |-> steady, alone |-> TRUE]
NewCall == Untried("pick", up)
NoCall == Untried("none", {})

\* Mutant: the counter does not wrap around.
FollowingUnbounded(u) == u + 1

Following(u) == IF u = N - 1 THEN 0 ELSE u + 1

Active(c) == call[c].pc \in {"pick", "posted", "backoff"}

InitUpstream ==
  /\ next = 0
  /\ up \in SUBSET Urls
  /\ call = [c \in Callers |-> NoCall]

Begin(c) ==
  /\ ~Active(c)
  /\ call' = [call EXCEPT ![c] = NewCall]
  /\ UNCHANGED <<next, up>>

Posted(c, u) ==
  [d \in Callers |->
     IF d = c THEN [call[c] EXCEPT !.pc = "posted", !.url = u, !.tried = @ \cup {u}]
     ELSE [call[d] EXCEPT !.alone = FALSE]]

\* Mutant: a retry goes to the URL that failed.
PostSticky(c) ==
  /\ call[c].pc = "pick"
  /\ call' = Posted(c, IF call[c].attempt = 0 THEN next ELSE call[c].url)
  /\ next' = Following(next)
  /\ UNCHANGED up

\* next_url, then the post.
Post(c) ==
  /\ call[c].pc = "pick"
  /\ call' = Posted(c, next)
  /\ next' = Following(next)
  /\ UNCHANGED up

\* Mutant: the attempts are not counted.
PostFailsUncounted(c) ==
  /\ call[c].pc = "posted"
  /\ call[c].url \notin up
  /\ call' = [call EXCEPT ![c].pc = "backoff"]
  /\ UNCHANGED <<next, up>>

\* A transport error, or a body that does not decode: try again, or give up.
PostFails(c) ==
  /\ call[c].pc = "posted"
  /\ call[c].url \notin up
  /\ call' = [call EXCEPT
                ![c].attempt = @ + 1,
                ![c].pc = IF call[c].attempt + 1 < Attempts THEN "backoff" ELSE "unreachable"]
  /\ UNCHANGED <<next, up>>

\* A decoded response ends the call: any error field is an error, a null one too.
Respond(c) ==
  /\ call[c].pc = "posted"
  /\ call[c].url \in up
  /\ \E r \in Responses :
       call' = [call EXCEPT ![c].pc = IF r = "result" THEN "ok" ELSE "rpc_error"]
  /\ UNCHANGED <<next, up>>

WakeUp(c) ==
  /\ call[c].pc = "backoff"
  /\ call' = [call EXCEPT ![c].pc = "pick"]
  /\ UNCHANGED <<next, up>>

\* A URL goes down or comes up; the calls under way take note.
UrlFlips ==
  \E u \in Urls :
    /\ up' = IF u \in up THEN up \ {u} ELSE up \cup {u}
    /\ call' = [c \in Callers |-> [call[c] EXCEPT !.steady = @ \ {u}]]
    /\ UNCHANGED next

CallStep(c) == Post(c) \/ PostFails(c) \/ Respond(c) \/ WakeUp(c)

UpstreamNext == UrlFlips \/ \E c \in Callers : Begin(c) \/ CallStep(c)

\* A post ends within the client's timeout and a sleep is bounded.
UpstreamSpec ==
  /\ InitUpstream
  /\ [][UpstreamNext]_upstreamVars
  /\ \A c \in Callers : WF_upstreamVars(CallStep(c))

(***************************************************************************)
(* Properties.                                                             *)
(***************************************************************************)
\* Every variable has its type.
UpstreamTypeOK ==
  /\ next \in Urls
  /\ up \subseteq Urls
  /\ call \in [Callers ->
       [pc : {"none", "pick", "posted", "backoff"} \cup Outcomes, attempt : 0 .. Attempts,
        url : Urls, tried : SUBSET Urls, steady : SUBSET Urls, alone : BOOLEAN]]

\* A call during which no other call posts, with attempts enough for every URL,
\* is reported unreachable only if no URL was up all the time it took (each
\* retry goes to the next URL of the round).
GivesUpForAReason ==
  \A c \in Callers :
    call[c].pc = "unreachable" /\ call[c].alone /\ Attempts >= N => call[c].steady = {}

\* Every call ends, with an answer or an error, however URLs go down and up: no
\* await of the follower or of an API handler on the node lasts for ever.
CallsEnd == \A c \in Callers : Active(c) ~> ~Active(c)
=============================================================================
