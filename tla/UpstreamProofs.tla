--------------------------- MODULE UpstreamProofs ---------------------------
(***************************************************************************)
(* A call that no other call interleaves gives up only when no URL was up  *)
(* all along: proved for any number of URLs, callers and attempts.         *)
(***************************************************************************)
EXTENDS Upstream, TLAPS

\* How many posts ago the counter was at u.
Behind(u) == IF u < next THEN next - 1 - u ELSE next - 1 - u + N

\* Posts a call has made: the ones that failed and the one under way.
PostsOf(k) == IF k.pc = "posted" THEN k.attempt + 1 ELSE k.attempt

\* A call that no other interleaved has posted to the URLs the counter passed.
RoundFollowed ==
  \A c \in Callers :
    call[c].alone => \A u \in Urls : Behind(u) < PostsOf(call[c]) => u \in call[c].tried

\* A URL that was up all along is up, and has failed no post of the call.
SteadyAnswers ==
  \A c \in Callers :
    /\ call[c].steady \subseteq up
    /\ call[c].pc \notin {"ok", "rpc_error"} =>
         \A u \in call[c].tried \cap call[c].steady :
           call[c].pc = "posted" /\ u = call[c].url

\* A call gives up after its last attempt; before, it has attempts left.
AttemptsCounted ==
  \A c \in Callers :
    /\ call[c].pc = "unreachable" => call[c].attempt = Attempts
    /\ Active(c) => call[c].attempt < Attempts

UpstreamInv == UpstreamTypeOK /\ RoundFollowed /\ SteadyAnswers /\ AttemptsCounted

LEMMA UpstreamInitInv == InitUpstream => UpstreamInv
<1> SUFFICES ASSUME InitUpstream PROVE UpstreamInv
  OBVIOUS
<1> USE UpstreamAssumption DEF UpstreamAssumption
<1>0a. 0 \in Urls /\ 0 \in 0 .. Attempts
  BY DEF Urls
<1>0b. NoCall = [pc |-> "none", attempt |-> 0, url |-> 0, tried |-> {}, steady |-> {},
                 alone |-> TRUE]
  BY DEF NoCall, Untried
<1>0c. next = 0 /\ up \in SUBSET Urls /\ call = [c \in Callers |-> NoCall]
  BY DEF InitUpstream
<1>0. /\ 0 \in Urls /\ 0 \in 0 .. Attempts
      /\ next = 0 /\ up \in SUBSET Urls
      /\ NoCall = [pc |-> "none", attempt |-> 0, url |-> 0, tried |-> {}, steady |-> {},
                   alone |-> TRUE]
      /\ call = [c \in Callers |-> NoCall]
  BY <1>0a, <1>0b, <1>0c
<1>1. UpstreamTypeOK
  BY <1>0 DEF UpstreamTypeOK
<1>2. RoundFollowed
  <2>1. \A c \in Callers : PostsOf(call[c]) = 0
    BY <1>0 DEF PostsOf
  <2>2. \A u \in Urls : ~(Behind(u) < 0)
    BY <1>0 DEF Behind, Urls
  <2> QED
    BY <2>1, <2>2 DEF RoundFollowed
<1>3. SteadyAnswers
  BY DEF InitUpstream, SteadyAnswers, NoCall, Untried
<1>4. AttemptsCounted
  BY DEF InitUpstream, AttemptsCounted, Active, NoCall, Untried
<1> QED
  BY <1>1, <1>2, <1>3, <1>4 DEF UpstreamInv

LEMMA BeginInv ==
  ASSUME UpstreamInv, NEW c \in Callers, Begin(c)
  PROVE  UpstreamInv'
<1> USE UpstreamAssumption DEF UpstreamAssumption, UpstreamInv
<1>0. /\ next' = next /\ up' = up
      /\ \A d \in Callers : call'[d] = IF d = c THEN NewCall ELSE call[d]
      /\ call' \in [Callers -> {call[d] : d \in Callers} \cup {NewCall}]
  BY DEF Begin, UpstreamTypeOK
<1>1. UpstreamTypeOK'
  <2> DEFINE Calls ==
               [pc : {"none", "pick", "posted", "backoff"} \cup Outcomes, attempt : 0 .. Attempts,
                url : Urls, tried : SUBSET Urls, steady : SUBSET Urls, alone : BOOLEAN]
  <2>1. 0 \in Urls /\ 0 \in 0 .. Attempts /\ up \in SUBSET Urls
    BY DEF Urls, UpstreamTypeOK
  <2>2. NewCall \in Calls
    BY <2>1 DEF NewCall, Untried
  <2>3. call' \in [Callers -> Calls]
    <3> HIDE DEF Calls
    <3>1. call \in [Callers -> Calls]
      BY DEF UpstreamTypeOK, Calls
    <3> QED
      BY <2>2, <3>1 DEF Begin
  <2> QED
    BY <1>0, <2>3 DEF UpstreamTypeOK
<1>2. RoundFollowed'
  BY <1>0 DEF UpstreamTypeOK, RoundFollowed, Behind, PostsOf, NewCall, Urls, Untried
<1>3. SteadyAnswers'
  BY <1>0 DEF SteadyAnswers, NewCall, Untried
<1>4. AttemptsCounted'
  BY <1>0 DEF AttemptsCounted, Active, NewCall, Untried
<1> QED
  BY <1>1, <1>2, <1>3, <1>4

LEMMA PostInv ==
  ASSUME UpstreamInv, NEW c \in Callers, Post(c)
  PROVE  UpstreamInv'
<1> USE UpstreamAssumption DEF UpstreamAssumption, UpstreamInv
<1>0. /\ call[c].pc = "pick"
      /\ up' = up /\ next' = Following(next)
      /\ call' = Posted(c, next)
  BY DEF Post
<1>1. UpstreamTypeOK'
  <2>1. next \in Urls /\ Following(next) \in Urls
    BY DEF UpstreamTypeOK, Following, Urls
  <2> QED
    BY <1>0, <2>1 DEF UpstreamTypeOK, Posted
<1>2. RoundFollowed'
  <2> SUFFICES ASSUME NEW d \in Callers, call'[d].alone, NEW u \in Urls,
                      Behind(u)' < PostsOf(call'[d])
               PROVE  u \in call'[d].tried
    BY DEF RoundFollowed
  <2>1. d = c /\ call[c].alone /\ call'[d].tried = call[c].tried \cup {next}
        /\ PostsOf(call'[d]) = PostsOf(call[c]) + 1
    BY <1>0 DEF Posted, PostsOf, UpstreamTypeOK
  <2>2. CASE u = next
    BY <2>1, <2>2
  <2>3. CASE u # next
    <3>1. Behind(u)' = Behind(u) + 1
      BY <1>0, <2>3 DEF Behind, Following, Urls, UpstreamTypeOK
    <3>2. Behind(u) < PostsOf(call[c])
      BY <2>1, <3>1 DEF Behind, PostsOf, Urls, UpstreamTypeOK
    <3> QED
      BY <2>1, <3>2 DEF RoundFollowed
  <2> QED
    BY <2>2, <2>3
<1>3. SteadyAnswers'
  BY <1>0 DEF SteadyAnswers, Posted, UpstreamTypeOK
<1>4. AttemptsCounted'
  BY <1>0 DEF AttemptsCounted, Active, Posted, UpstreamTypeOK
<1> QED
  BY <1>1, <1>2, <1>3, <1>4

LEMMA PostFailsInv ==
  ASSUME UpstreamInv, NEW c \in Callers, PostFails(c)
  PROVE  UpstreamInv'
<1> USE UpstreamAssumption DEF UpstreamAssumption, UpstreamInv
<1> DEFINE pc2 == IF call[c].attempt + 1 < Attempts THEN "backoff" ELSE "unreachable"
<1>0. /\ call[c].pc = "posted" /\ call[c].url \notin up
      /\ up' = up /\ next' = next
      /\ call' = [call EXCEPT ![c].attempt = @ + 1, ![c].pc = pc2]
  BY DEF PostFails
<1>a. call[c].attempt \in Nat /\ call[c].attempt < Attempts
  BY <1>0 DEF UpstreamTypeOK, AttemptsCounted, Active
<1>1. UpstreamTypeOK'
  BY <1>0, <1>a DEF UpstreamTypeOK, Urls, Outcomes
<1>2. RoundFollowed'
  BY <1>0, <1>a DEF RoundFollowed, Behind, PostsOf, UpstreamTypeOK
<1>3. SteadyAnswers'
  BY <1>0 DEF SteadyAnswers, UpstreamTypeOK
<1>4. AttemptsCounted'
  BY <1>0, <1>a DEF AttemptsCounted, Active, UpstreamTypeOK
<1> QED
  BY <1>1, <1>2, <1>3, <1>4

LEMMA RespondInv ==
  ASSUME UpstreamInv, NEW c \in Callers, Respond(c)
  PROVE  UpstreamInv'
<1> USE UpstreamAssumption DEF UpstreamAssumption, UpstreamInv
<1> PICK outcome \in {"ok", "rpc_error"} :
      /\ call[c].pc = "posted"
      /\ up' = up /\ next' = next
      /\ call' = [call EXCEPT ![c].pc = outcome]
  BY DEF Respond
<1>1. UpstreamTypeOK'
  BY DEF UpstreamTypeOK, Outcomes
<1>2. RoundFollowed'
  <2>1. call[c].attempt \in Nat
    BY DEF UpstreamTypeOK
  <2>2. \A u \in Urls : Behind(u) \in Int /\ Behind(u)' = Behind(u)
    BY DEF UpstreamTypeOK, Behind, Urls
  <2>3. \A d \in Callers : /\ call'[d].alone = call[d].alone
                            /\ call'[d].tried = call[d].tried
                            /\ d # c => call'[d] = call[d]
    BY DEF UpstreamTypeOK
  <2>4. PostsOf(call[c]) = call[c].attempt + 1 /\ PostsOf(call'[c]) = call[c].attempt
    BY DEF UpstreamTypeOK, PostsOf
  <2> QED
    BY <2>1, <2>2, <2>3, <2>4 DEF RoundFollowed
<1>3. SteadyAnswers'
  BY DEF SteadyAnswers, UpstreamTypeOK
<1>4. AttemptsCounted'
  BY DEF AttemptsCounted, Active, UpstreamTypeOK
<1> QED
  BY <1>1, <1>2, <1>3, <1>4

LEMMA WakeUpInv ==
  ASSUME UpstreamInv, NEW c \in Callers, WakeUp(c)
  PROVE  UpstreamInv'
<1> USE UpstreamAssumption DEF UpstreamAssumption, UpstreamInv
<1>0. /\ call[c].pc = "backoff"
      /\ up' = up /\ next' = next
      /\ call' = [call EXCEPT ![c].pc = "pick"]
  BY DEF WakeUp
<1>1. UpstreamTypeOK'
  BY <1>0 DEF UpstreamTypeOK
<1>2. RoundFollowed'
  BY <1>0 DEF RoundFollowed, Behind, PostsOf, UpstreamTypeOK
<1>3. SteadyAnswers'
  BY <1>0 DEF SteadyAnswers, UpstreamTypeOK
<1>4. AttemptsCounted'
  BY <1>0 DEF AttemptsCounted, Active, UpstreamTypeOK
<1> QED
  BY <1>1, <1>2, <1>3, <1>4

LEMMA UrlFlipsInv ==
  ASSUME UpstreamInv, UrlFlips
  PROVE  UpstreamInv'
<1> USE UpstreamAssumption DEF UpstreamAssumption, UpstreamInv
<1> PICK u \in Urls :
      /\ up' = IF u \in up THEN up \ {u} ELSE up \cup {u}
      /\ call' = [c \in Callers |-> [call[c] EXCEPT !.steady = @ \ {u}]]
      /\ next' = next
  BY DEF UrlFlips
<1>1. UpstreamTypeOK'
  BY DEF UpstreamTypeOK
<1>2. RoundFollowed'
  BY DEF RoundFollowed, Behind, PostsOf, UpstreamTypeOK
<1>3. SteadyAnswers'
  BY DEF SteadyAnswers, UpstreamTypeOK
<1>4. AttemptsCounted'
  BY DEF AttemptsCounted, Active, UpstreamTypeOK
<1> QED
  BY <1>1, <1>2, <1>3, <1>4

\* Every step of the client keeps the invariant.
LEMMA UpstreamNextInv == UpstreamInv /\ [UpstreamNext]_upstreamVars => UpstreamInv'
<1> SUFFICES ASSUME UpstreamInv, [UpstreamNext]_upstreamVars PROVE UpstreamInv'
  OBVIOUS
<1>1. CASE UrlFlips
  BY <1>1, UrlFlipsInv
<1>2. ASSUME NEW c \in Callers, Begin(c) \/ CallStep(c) PROVE UpstreamInv'
  BY <1>2, BeginInv, PostInv, PostFailsInv, RespondInv, WakeUpInv DEF CallStep
<1>3. CASE UNCHANGED upstreamVars
  BY <1>3 DEF UpstreamInv, UpstreamTypeOK, RoundFollowed, SteadyAnswers, AttemptsCounted,
              Behind, PostsOf, Active, upstreamVars
<1> QED
  BY <1>1, <1>2, <1>3 DEF UpstreamNext

\* A call that no other interleaved and that gave up after as many attempts as
\* there are URLs has posted to each of them.
LEMMA GaveUpOnAll ==
  ASSUME UpstreamInv, Attempts >= N, NEW c \in Callers,
         call[c].pc = "unreachable", call[c].alone
  PROVE  call[c].tried = Urls /\ call[c].steady = {}
<1> USE UpstreamAssumption DEF UpstreamAssumption, UpstreamInv
<1>1. ASSUME NEW u \in Urls PROVE u \in call[c].tried
  <2>1. Behind(u) < N /\ PostsOf(call[c]) = Attempts /\ Behind(u) \in Nat
    BY DEF Behind, PostsOf, AttemptsCounted, UpstreamTypeOK, Urls
  <2> QED
    BY <2>1 DEF RoundFollowed
<1>2. call[c].tried \subseteq Urls /\ call[c].steady \subseteq Urls
  BY DEF UpstreamTypeOK
<1> QED
  BY <1>1, <1>2 DEF SteadyAnswers

\* Every variable of the client keeps its type, for any callers, URLs, attempts.
THEOREM UpstreamTypeCorrect == UpstreamSpec => []UpstreamTypeOK
<1>1. UpstreamInv => UpstreamTypeOK
  BY DEF UpstreamInv
<1> QED
  BY <1>1, UpstreamInitInv, UpstreamNextInv, PTL DEF UpstreamSpec

\* A call that no other call interleaves, with attempts enough for every URL, is
\* reported unreachable only if no URL was up all the time (NodeClient::call goes
\* to the next URL of the round at each retry).
THEOREM AlwaysGivesUpForAReason == UpstreamSpec => []GivesUpForAReason
<1>1. UpstreamInv => GivesUpForAReason
  BY GaveUpOnAll DEF GivesUpForAReason
<1> QED
  BY <1>1, UpstreamInitInv, UpstreamNextInv, PTL DEF UpstreamSpec
=============================================================================
