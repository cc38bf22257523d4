------------------------------ MODULE Gateway -------------------------------
(***************************************************************************)
(* The request path of the gateway: handleMessages and handleCountTokens,  *)
(* from the resolved model to the end of the reply, through the provider   *)
(* gate (server.go acquire), the retry loop (messages.go sendUpstream) and *)
(* the latch that stops count probes (count_tokens.go).                    *)
(*                                                                         *)
(* A handler is one goroutine of net/http; it serves one request at a time *)
(* and is used again for the next.  Requests that never reach acquire      *)
(* (body too large, unparsable, unknown model) change no state and are not *)
(* steps here.  Time is absent: a backoff ends whenever its timer fires.   *)
(***************************************************************************)
EXTENDS Naturals, FiniteSets

CONSTANTS
    Handlers,        \* goroutines that serve requests
    Providers,       \* provider names: gates and noCountTokens are keyed by name
    MaxConcurrent,   \* maxConcurrent of each provider, 0 for none
    Retries,         \* len(retryBackoff)
    Countable,       \* providers that do have a count_tokens endpoint
    Responsive,      \* providers whose calls end
    NoJob            \* the job of a handler that serves nothing

ASSUME HandlersAssumption == IsFiniteSet(Handlers)
ASSUME LimitsAssumption == MaxConcurrent \in [Providers -> Nat]
ASSUME RetriesAssumption == Retries \in Nat
ASSUME ProvidersAssumption == Countable \subseteq Providers /\ Responsive \subseteq Providers

Jobs == [route : {"messages", "count"}, provider : Providers]

ASSUME NoJobAssumption == NoJob \notin Jobs

VARIABLES
    pc,        \* where each handler is
    job,       \* the request it serves
    attempt,   \* the loop counter of sendUpstream
    status,    \* what the last upstream call answered
    gone,      \* the client went away: r.Context() is done
    gate,      \* len(s.gates[p])
    noCount    \* s.noCountTokens[p]

vars == <<pc, job, attempt, status, gone, gate, noCount>>

Places == {"idle", "acquire", "probe", "build", "send", "call", "backoff",
           "relay", "mark", "estimate"}

(* ok: 200 with a usable body.  garbled: 200 without a usable count.       *)
(* throttled: 429 or 503.  refused: any other status.                      *)
Answers == {"ok", "garbled", "throttled", "refused"}

Limited(p) == MaxConcurrent[p] > 0
Counting(h) == job[h] # NoJob /\ job[h].route = "count"
Messaging(h) == job[h] # NoJob /\ job[h].route = "messages"

(* Between acquire and the deferred release a handler of a messages        *)
(* request holds a slot of its provider, unless the provider has no gate.  *)
Admitted(h) == Messaging(h) /\ pc[h] # "acquire"
Inside(p) == {h \in Handlers : Admitted(h) /\ job[h].provider = p}
Holders(p) == IF Limited(p) THEN Inside(p) ELSE {}

Init ==
    /\ pc = [h \in Handlers |-> "idle"]
    /\ job = [h \in Handlers |-> NoJob]
    /\ attempt = [h \in Handlers |-> 0]
    /\ status = [h \in Handlers |-> "none"]
    /\ gone = [h \in Handlers |-> FALSE]
    /\ gate = [p \in Providers |-> 0]
    /\ noCount = [p \in Providers |-> FALSE]

-----------------------------------------------------------------------------
(* Steps shared by the two routes.                                         *)

At(h, place) == pc[h] = place
Goto(h, place) == pc' = [pc EXCEPT ![h] = place]
Moves(h, from, to) == At(h, from) /\ Goto(h, to)

(* The handler returns and is ready for another request.                   *)
Return(h) ==
    /\ Goto(h, "idle")
    /\ job' = [job EXCEPT ![h] = NoJob]
    /\ attempt' = [attempt EXCEPT ![h] = 0]
    /\ status' = [status EXCEPT ![h] = "none"]
    /\ gone' = [gone EXCEPT ![h] = FALSE]

(* release receives from the gate's channel, and would block on an empty   *)
(* one; for a provider without a gate it does nothing.                     *)
Release(p) ==
    IF Limited(p)
    THEN gate[p] > 0 /\ gate' = [gate EXCEPT ![p] = @ - 1]
    ELSE UNCHANGED gate

(* The end of handleMessages after acquire, deferred release included.     *)
Finish(h) ==
    /\ Release(job[h].provider)
    /\ Return(h)
    /\ UNCHANGED noCount

(* Slip: a failed count call is marked like a refused one.                 *)
FallBackMarking(h) ==
    /\ Goto(h, "mark")
    /\ attempt' = [attempt EXCEPT ![h] = 0]
    /\ status' = [status EXCEPT ![h] = "none"]
    /\ UNCHANGED <<job, gone, gate, noCount>>

(* upstreamCountTokens gives up without marking: the tokenizer takes over. *)
FallBack(h) ==
    /\ Goto(h, "estimate")
    /\ attempt' = [attempt EXCEPT ![h] = 0]
    /\ status' = [status EXCEPT ![h] = "none"]
    /\ UNCHANGED <<job, gone, gate, noCount>>

(* Slip: the error paths return before the release is deferred.            *)
GiveUpKeepingSlot(h) ==
    \/ Messaging(h) /\ Return(h) /\ UNCHANGED <<gate, noCount>>
    \/ Counting(h) /\ FallBack(h)

(* What either route does when it gets no response to relay.               *)
GiveUp(h) ==
    \/ Messaging(h) /\ Finish(h)
    \/ Counting(h) /\ FallBack(h)

(* A request whose body parses and whose model resolves.                   *)
Arrive(h, j) ==
    /\ At(h, "idle")
    /\ Goto(h, IF j.route = "messages" THEN "acquire" ELSE "probe")
    /\ job' = [job EXCEPT ![h] = j]
    /\ UNCHANGED <<attempt, status, gone, gate, noCount>>

(* The client closes its connection; net/http cancels r.Context().         *)
Disconnect(h) ==
    /\ ~At(h, "idle") /\ ~gone[h]
    /\ gone' = [gone EXCEPT ![h] = TRUE]
    /\ UNCHANGED <<pc, job, attempt, status, gate, noCount>>

-----------------------------------------------------------------------------
(* The gate.                                                               *)

(* A provider without maxConcurrent has no gate and admits at once.        *)
PassUngated(h) ==
    /\ Moves(h, "acquire", "build")
    /\ ~Limited(job[h].provider)
    /\ UNCHANGED <<job, attempt, status, gone, gate, noCount>>

(* Slip: one handler too many.                                             *)
AcquireOneMore(h) ==
    LET p == job[h].provider IN
    /\ Moves(h, "acquire", "build")
    /\ Limited(p)
    /\ gate[p] <= MaxConcurrent[p]
    /\ gate' = [gate EXCEPT ![p] = @ + 1]
    /\ UNCHANGED <<job, attempt, status, gone, noCount>>

(* The send on the gate's channel.  When the context is done as well, Go's *)
(* select takes either branch.                                             *)
Acquire(h) ==
    LET p == job[h].provider IN
    /\ Moves(h, "acquire", "build")
    /\ Limited(p)
    /\ gate[p] < MaxConcurrent[p]
    /\ gate' = [gate EXCEPT ![p] = @ + 1]
    /\ UNCHANGED <<job, attempt, status, gone, noCount>>

(* Slip: release deferred before the error of acquire is looked at.        *)
AcquireCanceledReleasing(h) ==
    /\ At(h, "acquire")
    /\ Limited(job[h].provider)
    /\ gone[h]
    /\ Finish(h)

(* 408: nothing was acquired, so nothing is released.                      *)
AcquireCanceled(h) ==
    /\ At(h, "acquire")
    /\ Limited(job[h].provider)
    /\ gone[h]
    /\ Return(h)
    /\ UNCHANGED <<gate, noCount>>

-----------------------------------------------------------------------------
(* Slip: the latch is not consulted.                                       *)
ProbeAlways(h) ==
    /\ Moves(h, "probe", "build")
    /\ UNCHANGED <<job, attempt, status, gone, gate, noCount>>

(* The latch is read once, before the call is built.                       *)
Probe(h) ==
    /\ At(h, "probe")
    /\ Goto(h, IF noCount[job[h].provider] THEN "estimate" ELSE "build")
    /\ UNCHANGED <<job, attempt, status, gone, gate, noCount>>

(* rewriteModel or AnthropicToOpenAI, then NewRequestWithContext.          *)
Build(h) ==
    /\ Moves(h, "build", "send")
    /\ UNCHANGED <<job, attempt, status, gone, gate, noCount>>

(* A body that cannot be rewritten or translated: 400 or 500 for messages. *)
BuildFails(h) ==
    /\ At(h, "build")
    /\ GiveUp(h)

-----------------------------------------------------------------------------
(* sendUpstream.                                                           *)

(* client.Do puts the request on the wire, unless its context is done.     *)
Send(h) ==
    /\ Moves(h, "send", "call")
    /\ ~gone[h]
    /\ UNCHANGED <<job, attempt, status, gone, gate, noCount>>

(* client.Do returns an error: a canceled context, a refused connection or *)
(* the client's timeout.                                                   *)
CallFails(h) ==
    /\ At(h, "send") \/ At(h, "call")
    /\ GiveUp(h)

(* The response's status line.  A provider can refuse any call; a usable   *)
(* count needs an endpoint that counts.                                    *)
CanAnswer(h, s) ==
    /\ s = "ok" => Messaging(h) \/ job[h].provider \in Countable
    /\ s = "garbled" => Counting(h) /\ job[h].provider \notin Countable

(* Slips: retrying every refusal, and the loop bound off by one each way.  *)
RetryAnyRefusal(h, s) == s \in {"throttled", "refused"} /\ attempt[h] < Retries
RetryOnceTooOften(h, s) == s = "throttled" /\ attempt[h] <= Retries
RetryOnceTooFew(h, s) == s = "throttled" /\ attempt[h] + 1 < Retries

RetryAgain(h, s) == s = "throttled" /\ attempt[h] < Retries

(* Slip: the slot is given up while the handler backs off.                 *)
AnswerYieldingSlot(h, s) ==
    /\ At(h, "call")
    /\ CanAnswer(h, s)
    /\ status' = [status EXCEPT ![h] = s]
    /\ IF RetryAgain(h, s)
       THEN Goto(h, "backoff") /\ Release(job[h].provider)
       ELSE Goto(h, "relay") /\ UNCHANGED gate
    /\ UNCHANGED <<job, attempt, gone, noCount>>

Answer(h, s) ==
    /\ At(h, "call")
    /\ CanAnswer(h, s)
    /\ status' = [status EXCEPT ![h] = s]
    /\ Goto(h, IF RetryAgain(h, s) THEN "backoff" ELSE "relay")
    /\ UNCHANGED <<job, attempt, gone, gate, noCount>>

(* The timer fires: the loop counts the attempt and sends the same body.   *)
Wake(h) ==
    /\ Moves(h, "backoff", "send")
    /\ attempt' = [attempt EXCEPT ![h] = @ + 1]
    /\ UNCHANGED <<job, status, gone, gate, noCount>>

BackoffCanceled(h) ==
    /\ At(h, "backoff")
    /\ gone[h]
    /\ GiveUp(h)

-----------------------------------------------------------------------------
(* After the call.                                                         *)

(* copyResponse, relayUpstreamError, streamOpenAI or completeOpenAI: the   *)
(* reply ends, well or badly, and the slot is given back.                  *)
Relay(h) ==
    /\ At(h, "relay") /\ Messaging(h)
    /\ Finish(h)

(* A 200 with a positive input_tokens is the answer.                       *)
CountArrives(h) ==
    /\ At(h, "relay") /\ Counting(h)
    /\ status[h] = "ok"
    /\ Return(h)
    /\ UNCHANGED <<gate, noCount>>

(* Any other status, and any body that does not yield a count: the error   *)
(* of ReadAll is dropped, so a usable answer cut off while it is read      *)
(* counts as unusable.                                                     *)
CountUnusable(h) ==
    /\ Counting(h)
    /\ Moves(h, "relay", "mark")
    /\ UNCHANGED <<job, attempt, status, gone, gate, noCount>>

(* markCountTokensUnsupported, in one critical section.                    *)
Mark(h) ==
    /\ Moves(h, "mark", "estimate")
    /\ noCount' = [noCount EXCEPT ![job[h].provider] = TRUE]
    /\ attempt' = [attempt EXCEPT ![h] = 0]
    /\ status' = [status EXCEPT ![h] = "none"]
    /\ UNCHANGED <<job, gone, gate>>

(* countInputTokens answers 200, or 500 when the tokenizer fails.          *)
Estimate(h) ==
    /\ At(h, "estimate")
    /\ Return(h)
    /\ UNCHANGED <<gate, noCount>>

-----------------------------------------------------------------------------
(* Steps that wait for a provider, steps of the gateway itself, and the    *)
(* end of a reply already under way.                                       *)
FromProvider(h) ==
    \/ \E s \in Answers : Answer(h, s)
    \/ CallFails(h)
    \/ Relay(h) \/ CountArrives(h) \/ CountUnusable(h)

Local(h) ==
    \/ PassUngated(h) \/ AcquireCanceled(h)
    \/ Probe(h) \/ Build(h) \/ BuildFails(h)
    \/ Send(h) \/ Wake(h) \/ BackoffCanceled(h)
    \/ Mark(h) \/ Estimate(h)

Next ==
    \E h \in Handlers :
        \/ \E j \in Jobs : Arrive(h, j)
        \/ Disconnect(h)
        \/ Acquire(h)
        \/ Local(h)
        \/ FromProvider(h)

(* The scheduler runs every goroutine and timers fire, so Local steps are  *)
(* weakly fair.  The calls of a responsive provider end (the http.Client   *)
(* has a timeout), and so do the replies made of them, as long as the      *)
(* client reads its reply or closes the connection: the server sets no     *)
(* write timeout.  A goroutine blocked in a channel send is queued and     *)
(* served in order as slots come free, hence strong fairness of Acquire.   *)
Fairness ==
    \A h \in Handlers :
        /\ WF_vars(Local(h))
        /\ WF_vars(job[h] # NoJob /\ job[h].provider \in Responsive /\ FromProvider(h))
        /\ SF_vars(Acquire(h))

Spec == Init /\ [][Next]_vars
FairSpec == Spec /\ Fairness
-----------------------------------------------------------------------------
(* Properties.                                                             *)

(* Every variable has its type.                                            *)
TypeOK ==
    /\ pc \in [Handlers -> Places]
    /\ job \in [Handlers -> Jobs \cup {NoJob}]
    /\ attempt \in [Handlers -> 0 .. Retries]
    /\ status \in [Handlers -> Answers \cup {"none"}]
    /\ gone \in [Handlers -> BOOLEAN]
    /\ gate \in [Providers -> Nat]
    /\ noCount \in [Providers -> BOOLEAN]

(* A handler without a job is idle, only messages wait for the gate and    *)
(* only counts probe, mark and estimate; whoever backs off has been        *)
(* throttled with retries left, whoever calls again has been throttled,    *)
(* and whoever relays or marks has an answer.                              *)
Placed ==
    \A h \in Handlers :
        /\ pc[h] = "idle" <=> job[h] = NoJob
        /\ pc[h] = "acquire" => Messaging(h)
        /\ pc[h] \in {"probe", "mark", "estimate"} => Counting(h)
        /\ pc[h] \in {"idle", "acquire", "probe", "build"} => attempt[h] = 0
        /\ pc[h] \in {"send", "call"} => attempt[h] = 0 \/ status[h] = "throttled"
        /\ pc[h] = "backoff" => attempt[h] < Retries /\ status[h] = "throttled"
        /\ pc[h] \in {"relay", "mark"} => status[h] \in Answers

(* Slots are neither lost nor invented, on any path out of a handler: the  *)
(* channel of a provider holds as many tokens as there are handlers        *)
(* between acquire and release, and never more than maxConcurrent.         *)
SlotsMatchHolders ==
    \A p \in Providers :
        /\ gate[p] = Cardinality(Holders(p))
        /\ Limited(p) => gate[p] <= MaxConcurrent[p]

OnTheWire(h) == pc[h] \in {"call", "relay"}
Calls(p) == {h \in Handlers : OnTheWire(h) /\ job[h].provider = p}

(* A limited provider never sees more messages calls at once than its      *)
(* maxConcurrent, a reply that is still being streamed included.           *)
MessageCallsBounded ==
    \A p \in Providers : Limited(p) =>
        Cardinality({h \in Calls(p) : Messaging(h)}) <= MaxConcurrent[p]

(* A body is put on the wire again only after the provider has throttled   *)
(* it: a refusal, a failed call or a usable answer is never replayed.      *)
NoReplayUnlessThrottled ==
    [][\A h \in Handlers :
          pc[h] = "send" /\ pc'[h] = "call" =>
              attempt[h] = 0 \/ status[h] = "throttled"]_vars

(* The client is shown a 429 or 503, and a provider is judged by one, only *)
(* after every entry of retryBackoff has been used.                        *)
ThrottledOnlyAfterRetries ==
    \A h \in Handlers :
        pc[h] \in {"relay", "mark"} /\ status[h] = "throttled" => attempt[h] = Retries

(* The latch closes on what a provider answered, never on a call that      *)
(* failed or was canceled: whoever closes it holds an answer to a count.   *)
LatchNeedsAnAnswer ==
    [][\A p \in Providers :
          ~noCount[p] /\ noCount'[p] =>
              \E h \in Handlers :
                  /\ Counting(h) /\ job[h].provider = p
                  /\ pc[h] = "mark" /\ status[h] \in Answers]_vars

(* Every request whose provider is responsive is answered or given up,     *)
(* however many clients queue or hang up at the gate, in a backoff or in a *)
(* call, and even if the other providers never answer.                     *)
EveryRequestAnswered ==
    \A h \in Handlers :
        (~At(h, "idle") /\ job[h].provider \in Responsive) ~> At(h, "idle")

Probing(p) ==
    \E h \in Handlers :
        Counting(h) /\ job[h].provider = p /\ pc[h] \in {"build", "send", "call", "backoff"}

(* Once a provider is latched, probes already past the check drain and no  *)
(* new one starts: from some point on it is never asked for a count again. *)
ProbingDiesOut ==
    \A p \in Responsive : noCount[p] ~> []~Probing(p)

-----------------------------------------------------------------------------
(* The counters implement the abstract gate: whoever is between acquire    *)
(* and release is inside.                                                  *)
Abstract == INSTANCE Gate WITH inside <- [p \in Providers |-> Inside(p)]

(* Every step of the handlers is an Enter, a Leave or no change of the     *)
(* abstract gate, so the limit holds in the sense Gate states it.          *)
ImplementsGate == Abstract!Spec

-----------------------------------------------------------------------------
(* What the code's own words claim and its steps refute.                   *)

(* count_tokens.go:126: a marked provider has no count_tokens endpoint.    *)
OnlyCountlessMarked ==
    \A p \in Providers : noCount[p] => p \notin Countable
=============================================================================
