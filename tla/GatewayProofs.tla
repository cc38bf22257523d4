--------------------------- MODULE GatewayProofs ----------------------------
(***************************************************************************)
(* Safety of Gateway for any number of handlers, providers, limits and     *)
(* retries.                                                                *)
(***************************************************************************)
EXTENDS Gateway, FiniteSetTheorems, TLAPS

(* What a single step of handler h does to who is inside, and to the       *)
(* counters: nothing, one Enter or one Leave.                              *)
Stays == gate' = gate /\ \A p \in Providers : Inside(p)' = Inside(p)

Enters(h) ==
    \E p \in Providers :
        /\ \A q \in Providers : h \notin Inside(q)
        /\ Limited(p) => gate[p] < MaxConcurrent[p]
        /\ \A q \in Providers : Inside(q)' = IF q = p THEN Inside(q) \cup {h} ELSE Inside(q)
        /\ gate' = IF Limited(p) THEN [gate EXCEPT ![p] = @ + 1] ELSE gate

Leaves(h) ==
    \E p \in Providers :
        /\ h \in Inside(p)
        /\ \A q \in Providers : Inside(q)' = IF q = p THEN Inside(q) \ {h} ELSE Inside(q)
        /\ Limited(p) => gate[p] > 0
        /\ gate' = IF Limited(p) THEN [gate EXCEPT ![p] = @ - 1] ELSE gate

-----------------------------------------------------------------------------
(* Type correctness and the places of the handlers, which need each other. *)

Control == TypeOK /\ Placed /\ ThrottledOnlyAfterRetries

(* The initial states satisfy it.                                          *)
LEMMA InitControl == Init => Control
BY RetriesAssumption, NoJobAssumption
DEF Init, Control, TypeOK, Placed, ThrottledOnlyAfterRetries, Places, Answers,
    Messaging, Counting

(* A handler that is not idle serves a job.                                *)
LEMMA BusyHasJob ==
    ASSUME Control, NEW h \in Handlers, pc[h] # "idle"
    PROVE  /\ job[h] \in Jobs
           /\ job[h].provider \in Providers
           /\ job[h].route \in {"messages", "count"}
           /\ Messaging(h) <=> ~Counting(h)
BY NoJobAssumption DEF Control, TypeOK, Placed, Jobs, Messaging, Counting

(* Return resets one handler, whatever else the step does.                 *)
LEMMA ReturnControl ==
    ASSUME Control, NEW h \in Handlers, Return(h),
           gate' \in [Providers -> Nat], noCount' \in [Providers -> BOOLEAN]
    PROVE  Control'
BY RetriesAssumption, NoJobAssumption
DEF Control, TypeOK, Placed, ThrottledOnlyAfterRetries, Places, Answers,
    Messaging, Counting, Return, Goto

(* Giving up returns from a messages request and estimates a count.        *)
LEMMA GiveUpControl ==
    ASSUME Control, NEW h \in Handlers, pc[h] # "idle", GiveUp(h)
    PROVE  Control'
<1>1. CASE Messaging(h) /\ Finish(h)
  <2>1. gate' \in [Providers -> Nat]
    BY <1>1, BusyHasJob DEF Finish, Release, Control, TypeOK
  <2>2. noCount' \in [Providers -> BOOLEAN]
    BY <1>1 DEF Finish, Control, TypeOK
  <2> QED BY <1>1, <2>1, <2>2, ReturnControl DEF Finish
<1>2. CASE Counting(h) /\ FallBack(h)
  BY <1>2, RetriesAssumption, NoJobAssumption
  DEF FallBack, Goto, Control, TypeOK, Placed, ThrottledOnlyAfterRetries,
      Places, Answers, Messaging, Counting
<1> QED BY <1>1, <1>2 DEF GiveUp

(* Every step preserves it.                                                *)
LEMMA NextControl == Control /\ [Next]_vars => Control'
<1> SUFFICES ASSUME Control, [Next]_vars PROVE Control'
  OBVIOUS
<1> USE RetriesAssumption, NoJobAssumption
<1>1. CASE UNCHANGED vars
  BY <1>1 DEF vars, Control, TypeOK, Placed, ThrottledOnlyAfterRetries, Messaging, Counting
<1>2. ASSUME NEW h \in Handlers, NEW j \in Jobs, Arrive(h, j) PROVE Control'
  BY <1>2 DEF Arrive, At, Goto, Control, TypeOK, Placed, ThrottledOnlyAfterRetries,
              Places, Jobs, Messaging, Counting
<1>3. ASSUME NEW h \in Handlers, Disconnect(h) PROVE Control'
  BY <1>3 DEF Disconnect, At, Control, TypeOK, Placed, ThrottledOnlyAfterRetries,
              Messaging, Counting
<1>4. ASSUME NEW h \in Handlers, Acquire(h) PROVE Control'
  <2>1. gate' \in [Providers -> Nat]
    BY <1>4, BusyHasJob DEF Acquire, Moves, At, Control, TypeOK
  <2> QED
    BY <1>4, <2>1 DEF Acquire, Moves, At, Goto, Control, TypeOK, Placed,
                      ThrottledOnlyAfterRetries, Places, Messaging, Counting
<1>5. ASSUME NEW h \in Handlers, PassUngated(h) \/ Build(h) \/ Send(h) PROVE Control'
  BY <1>5 DEF PassUngated, Build, Send, Moves, At, Goto, Control, TypeOK, Placed,
              ThrottledOnlyAfterRetries, Places, Messaging, Counting
<1>6. ASSUME NEW h \in Handlers, AcquireCanceled(h) \/ CountArrives(h) \/ Estimate(h)
      PROVE  Control'
  BY <1>6, ReturnControl DEF AcquireCanceled, CountArrives, Estimate, Control, TypeOK
<1>7. ASSUME NEW h \in Handlers, Probe(h) PROVE Control'
  BY <1>7 DEF Probe, At, Goto, Control, TypeOK, Placed, ThrottledOnlyAfterRetries,
              Places, Messaging, Counting
<1>8. ASSUME NEW h \in Handlers, BuildFails(h) \/ CallFails(h) \/ BackoffCanceled(h)
      PROVE  Control'
  BY <1>8, GiveUpControl DEF BuildFails, CallFails, BackoffCanceled, At
<1>9. ASSUME NEW h \in Handlers, NEW s \in Answers, Answer(h, s) PROVE Control'
  BY <1>9 DEF Answer, RetryAgain, At, Goto, Control, TypeOK, Placed,
              ThrottledOnlyAfterRetries, Places, Messaging, Counting
<1>10. ASSUME NEW h \in Handlers, Wake(h) PROVE Control'
  BY <1>10 DEF Wake, Moves, At, Goto, Control, TypeOK, Placed,
               ThrottledOnlyAfterRetries, Places, Messaging, Counting
<1>11. ASSUME NEW h \in Handlers, Relay(h) PROVE Control'
  BY <1>11, GiveUpControl DEF Relay, GiveUp, At
<1>12. ASSUME NEW h \in Handlers, CountUnusable(h) PROVE Control'
  BY <1>12 DEF CountUnusable, Moves, At, Goto, Control, TypeOK, Placed,
               ThrottledOnlyAfterRetries, Places, Messaging, Counting
<1>13. ASSUME NEW h \in Handlers, Mark(h) PROVE Control'
  <2>1. noCount' \in [Providers -> BOOLEAN]
    BY <1>13 DEF Mark, Control, TypeOK
  <2>2. /\ pc[h] = "mark" /\ pc' = [pc EXCEPT ![h] = "estimate"]
        /\ attempt' = [attempt EXCEPT ![h] = 0]
        /\ status' = [status EXCEPT ![h] = "none"]
        /\ UNCHANGED <<job, gone, gate>>
    BY <1>13 DEF Mark, Moves, At, Goto
  <2> QED
    BY <2>1, <2>2 DEF Control, TypeOK, Placed, ThrottledOnlyAfterRetries, Places,
                      Messaging, Counting
<1> QED
  BY <1>1, <1>2, <1>3, <1>4, <1>5, <1>6, <1>7, <1>8, <1>9, <1>10, <1>11, <1>12, <1>13
  DEF Next, Local, FromProvider

(* Types and places are invariant.                                         *)
LEMMA ControlInvariant == Spec => []Control
BY InitControl, NextControl, PTL DEF Spec

(* Type correctness, for any number of handlers and providers.             *)
THEOREM TypeCorrect == Spec => []TypeOK
BY ControlInvariant, PTL DEF Control

(* The client sees a throttled answer, and a provider is judged by one,    *)
(* only when every backoff has been used.                                  *)
THEOREM RetriesAreUsed == Spec => []ThrottledOnlyAfterRetries
BY ControlInvariant, PTL DEF Control

-----------------------------------------------------------------------------
(* Who is inside, step by step.                                            *)

(* A step that leaves the jobs alone and moves no handler across the gate  *)
(* changes nobody's admission.                                             *)
LEMMA StaysInside ==
    ASSUME Control, NEW h \in Handlers,
           NEW place, pc' = [pc EXCEPT ![h] = place], job' = job, gate' = gate,
           Counting(h) \/ (pc[h] # "acquire" /\ place # "acquire")
    PROVE  Stays
BY DEF Control, TypeOK, Stays, Inside, Admitted, Messaging, Counting

(* A handler that holds no slot and returns changes nobody's admission.    *)
LEMMA ReturnStays ==
    ASSUME Control, NEW h \in Handlers, Return(h), gate' = gate,
           Counting(h) \/ pc[h] = "acquire"
    PROVE  Stays
BY DEF Control, TypeOK, Stays, Inside, Admitted, Messaging, Counting, Return, Goto

(* The end of an admitted request is a Leave.                              *)
LEMMA FinishLeaves ==
    ASSUME Control, NEW h \in Handlers, Messaging(h), pc[h] \notin {"idle", "acquire"},
           Finish(h)
    PROVE  Leaves(h)
<1> DEFINE p == job[h].provider
<1>1. p \in Providers
  BY BusyHasJob
<1>2. h \in Inside(p) /\ \A q \in Providers : q # p => h \notin Inside(q)
  BY DEF Inside, Admitted
<1>3. /\ pc' = [pc EXCEPT ![h] = "idle"]
      /\ job' = [job EXCEPT ![h] = NoJob]
  BY DEF Finish, Return, Goto
<1>4. \A q \in Providers : Inside(q)' = IF q = p THEN Inside(q) \ {h} ELSE Inside(q)
  BY <1>2, <1>3 DEF Control, TypeOK, Inside, Admitted, Messaging
<1>5. /\ Limited(p) => gate[p] > 0
      /\ gate' = IF Limited(p) THEN [gate EXCEPT ![p] = @ - 1] ELSE gate
  BY DEF Finish, Release
<1> QED BY <1>1, <1>2, <1>4, <1>5 DEF Leaves

(* Passing the gate is an Enter.                                           *)
LEMMA PassingEnters ==
    ASSUME Control, NEW h \in Handlers, Acquire(h) \/ PassUngated(h)
    PROVE  Enters(h)
<1> DEFINE p == job[h].provider
<1>1. pc[h] = "acquire" /\ pc' = [pc EXCEPT ![h] = "build"] /\ job' = job
  BY DEF Acquire, PassUngated, Moves, At, Goto
<1>2. p \in Providers /\ Messaging(h)
  BY <1>1, BusyHasJob DEF Control, Placed
<1>3. \A q \in Providers : h \notin Inside(q)
  BY <1>1 DEF Inside, Admitted
<1>4. \A q \in Providers : Inside(q)' = IF q = p THEN Inside(q) \cup {h} ELSE Inside(q)
  BY <1>1, <1>2 DEF Control, TypeOK, Inside, Admitted, Messaging
<1>5. /\ Limited(p) => gate[p] < MaxConcurrent[p]
      /\ gate' = IF Limited(p) THEN [gate EXCEPT ![p] = @ + 1] ELSE gate
  BY DEF Acquire, PassUngated
<1> QED BY <1>2, <1>3, <1>4, <1>5 DEF Enters

(* Giving up leaves the provider, or was never inside.                     *)
LEMMA GiveUpMoves ==
    ASSUME Control, NEW h \in Handlers, pc[h] \notin {"idle", "acquire"}, GiveUp(h)
    PROVE  Stays \/ Leaves(h)
<1>1. CASE Messaging(h) /\ Finish(h)
  BY <1>1, FinishLeaves
<1>2. CASE Counting(h) /\ FallBack(h)
  BY <1>2, StaysInside DEF FallBack, Goto
<1> QED BY <1>1, <1>2 DEF GiveUp

(* Every step is an Enter, a Leave, or leaves admission alone.             *)
LEMMA StepsOfTheGate ==
    ASSUME Control, [Next]_vars
    PROVE  Stays \/ \E h \in Handlers : Enters(h) \/ Leaves(h)
<1>1. CASE UNCHANGED vars
  BY <1>1 DEF vars, Stays, Inside, Admitted, Messaging
<1>2. ASSUME NEW h \in Handlers, NEW j \in Jobs, Arrive(h, j) PROVE Stays
  <2>1. /\ pc[h] = "idle" /\ job[h] = NoJob /\ gate' = gate
        /\ pc' = [pc EXCEPT ![h] = IF j.route = "messages" THEN "acquire" ELSE "probe"]
        /\ job' = [job EXCEPT ![h] = j]
    BY <1>2 DEF Arrive, At, Goto, Control, Placed
  <2> QED
    BY <2>1, NoJobAssumption DEF Control, TypeOK, Jobs, Stays, Inside, Admitted, Messaging
<1>3. ASSUME NEW h \in Handlers, Disconnect(h) PROVE Stays
  BY <1>3 DEF Disconnect, Stays, Inside, Admitted, Messaging
<1>4. ASSUME NEW h \in Handlers, Acquire(h) \/ PassUngated(h) PROVE Enters(h)
  BY <1>4, PassingEnters
<1>5. ASSUME NEW h \in Handlers, Build(h) \/ Send(h) \/ Wake(h) \/ CountUnusable(h) \/ Mark(h)
      PROVE  Stays
  BY <1>5, StaysInside DEF Build, Send, Wake, CountUnusable, Mark, Moves, At, Goto
<1>6. ASSUME NEW h \in Handlers, NEW s \in Answers, Answer(h, s) PROVE Stays
  BY <1>6, StaysInside DEF Answer, At, Goto
<1>7. ASSUME NEW h \in Handlers, Probe(h) PROVE Stays
  BY <1>7, StaysInside DEF Probe, At, Goto
<1>8. ASSUME NEW h \in Handlers, AcquireCanceled(h) \/ CountArrives(h) \/ Estimate(h)
      PROVE  Stays
  BY <1>8, ReturnStays DEF AcquireCanceled, CountArrives, Estimate, At, Control, Placed
<1>9. ASSUME NEW h \in Handlers, BuildFails(h) \/ CallFails(h) \/ BackoffCanceled(h)
      PROVE  Stays \/ Leaves(h)
  BY <1>9, GiveUpMoves DEF BuildFails, CallFails, BackoffCanceled, At
<1>10. ASSUME NEW h \in Handlers, Relay(h) PROVE Leaves(h)
  BY <1>10, FinishLeaves DEF Relay, At
<1> QED
  BY <1>1, <1>2, <1>3, <1>4, <1>5, <1>6, <1>7, <1>8, <1>9, <1>10
  DEF Next, Local, FromProvider

-----------------------------------------------------------------------------
(* The counters match the holders.                                         *)

SafeGate == Control /\ SlotsMatchHolders

(* Initially nobody is inside.                                             *)
LEMMA InitSafeGate == Init => SafeGate
<1> SUFFICES ASSUME Init PROVE SafeGate
  OBVIOUS
<1>1. Control
  BY InitControl
<1>2. \A p \in Providers : Holders(p) = {}
  BY DEF Init, Holders, Inside, Admitted, Messaging
<1>3. \A p \in Providers : gate[p] = 0 /\ (Limited(p) => 0 <= MaxConcurrent[p])
  BY LimitsAssumption DEF Init, Limited
<1> QED BY <1>1, <1>2, <1>3, FS_EmptySet DEF SafeGate, SlotsMatchHolders

(* Holders are finitely many: they are handlers.                           *)
LEMMA HoldersFinite ==
    ASSUME NEW p \in Providers
    PROVE  IsFiniteSet(Inside(p)) /\ IsFiniteSet(Holders(p))
<1>1. Inside(p) \subseteq Handlers
  BY DEF Inside
<1>2. IsFiniteSet(Inside(p))
  BY <1>1, HandlersAssumption, FS_Subset
<1> QED BY <1>2, FS_EmptySet DEF Holders

(* Every step keeps the counters right: an Enter adds one holder and one   *)
(* token, a Leave takes both away.                                         *)
LEMMA NextSafeGate == SafeGate /\ [Next]_vars => SafeGate'
<1> SUFFICES ASSUME SafeGate, [Next]_vars PROVE SafeGate'
  OBVIOUS
<1>1. Control /\ Control'
  BY NextControl DEF SafeGate
<1> SUFFICES ASSUME NEW p \in Providers
             PROVE  /\ gate'[p] = Cardinality(Holders(p)')
                    /\ Limited(p) => gate'[p] <= MaxConcurrent[p]
  BY <1>1 DEF SafeGate, SlotsMatchHolders, Limited
<1>2. /\ gate[p] = Cardinality(Holders(p))
      /\ Limited(p) => gate[p] <= MaxConcurrent[p]
      /\ gate \in [Providers -> Nat]
      /\ MaxConcurrent[p] \in Nat
  BY LimitsAssumption DEF SafeGate, SlotsMatchHolders, Control, TypeOK
<1>3. Holders(p)' = IF Limited(p) THEN Inside(p)' ELSE {}
  BY DEF Holders, Limited
<1>4. CASE Stays
  BY <1>2, <1>3, <1>4 DEF Stays, Holders
<1>5. ASSUME NEW h \in Handlers, Enters(h)
      PROVE  /\ gate'[p] = Cardinality(Holders(p)')
             /\ Limited(p) => gate'[p] <= MaxConcurrent[p]
  <2>1. PICK r \in Providers :
           /\ \A q \in Providers : h \notin Inside(q)
           /\ Limited(r) => gate[r] < MaxConcurrent[r]
           /\ \A q \in Providers :
                 Inside(q)' = IF q = r THEN Inside(q) \cup {h} ELSE Inside(q)
           /\ gate' = IF Limited(r) THEN [gate EXCEPT ![r] = @ + 1] ELSE gate
    BY <1>5 DEF Enters
  <2>2. CASE p = r /\ Limited(p)
    <3>1. Holders(p)' = Holders(p) \cup {h} /\ h \notin Holders(p)
      BY <1>3, <2>1, <2>2 DEF Holders
    <3>2. Cardinality(Holders(p)') = Cardinality(Holders(p)) + 1
      BY <3>1, HoldersFinite, FS_AddElement
    <3> QED BY <1>2, <2>1, <2>2, <3>2
  <2>3. CASE ~(p = r /\ Limited(p))
    BY <1>2, <1>3, <2>1, <2>3 DEF Holders
  <2> QED BY <2>2, <2>3
<1>6. ASSUME NEW h \in Handlers, Leaves(h)
      PROVE  /\ gate'[p] = Cardinality(Holders(p)')
             /\ Limited(p) => gate'[p] <= MaxConcurrent[p]
  <2>1. PICK r \in Providers :
           /\ h \in Inside(r)
           /\ \A q \in Providers :
                 Inside(q)' = IF q = r THEN Inside(q) \ {h} ELSE Inside(q)
           /\ Limited(r) => gate[r] > 0
           /\ gate' = IF Limited(r) THEN [gate EXCEPT ![r] = @ - 1] ELSE gate
    BY <1>6 DEF Leaves
  <2>2. CASE p = r /\ Limited(p)
    <3>1. Holders(p)' = Holders(p) \ {h} /\ h \in Holders(p)
      BY <1>3, <2>1, <2>2 DEF Holders
    <3>2. Cardinality(Holders(p)') = Cardinality(Holders(p)) - 1
      BY <3>1, HoldersFinite, FS_RemoveElement
    <3> QED BY <1>2, <2>1, <2>2, <3>2
  <2>3. CASE ~(p = r /\ Limited(p))
    BY <1>2, <1>3, <2>1, <2>3 DEF Holders
  <2> QED BY <2>2, <2>3
<1> QED BY <1>1, <1>4, <1>5, <1>6, StepsOfTheGate

(* No slot is lost or invented, and no gate holds more than its limit.     *)
THEOREM SlotsAreKept == Spec => []SlotsMatchHolders
<1>1. SafeGate => SlotsMatchHolders
  BY DEF SafeGate
<1> QED BY InitSafeGate, NextSafeGate, <1>1, PTL DEF Spec

(* Handlers are only where their kind of request and the answers so far    *)
(* take them.                                                              *)
THEOREM HandlersAreInPlace == Spec => []Placed
<1>1. SafeGate => Placed
  BY DEF SafeGate, Control
<1> QED BY InitSafeGate, NextSafeGate, <1>1, PTL DEF Spec

(* A limited provider never has more messages calls than its limit: they   *)
(* are all made by holders.                                                *)
THEOREM MessageCallsAreBounded == Spec => []MessageCallsBounded
<1>1. SafeGate => MessageCallsBounded
  <2> SUFFICES ASSUME SafeGate, NEW p \in Providers, Limited(p)
               PROVE  Cardinality({h \in Calls(p) : Messaging(h)}) <= MaxConcurrent[p]
    BY DEF MessageCallsBounded
  <2> DEFINE C == {h \in Calls(p) : Messaging(h)}
  <2>1. C \subseteq Holders(p)
    BY DEF Calls, OnTheWire, Holders, Inside, Admitted
  <2>2. Cardinality(C) <= Cardinality(Holders(p)) /\ Cardinality(C) \in Nat
    BY <2>1, HoldersFinite, FS_Subset, FS_CardinalityType
  <2>3. Cardinality(Holders(p)) <= MaxConcurrent[p] /\ Cardinality(Holders(p)) \in Nat
    BY HoldersFinite, FS_CardinalityType DEF SafeGate, SlotsMatchHolders
  <2> QED BY <2>2, <2>3, LimitsAssumption
<1> QED BY InitSafeGate, NextSafeGate, <1>1, PTL DEF Spec

-----------------------------------------------------------------------------
(* Action properties.                                                      *)

(* A body goes out again only after a throttled answer.                    *)
THEOREM ReplaysAreThrottled == Spec => NoReplayUnlessThrottled
<1>1. Control /\ [Next]_vars =>
         [\A h \in Handlers :
             pc[h] = "send" /\ pc'[h] = "call" =>
                 attempt[h] = 0 \/ status[h] = "throttled"]_vars
  BY DEF Control, Placed
<1> QED BY ControlInvariant, <1>1, PTL DEF Spec, NoReplayUnlessThrottled

(* Only Mark touches the latch.                                            *)
LEMMA OnlyMarkLatches ==
    ASSUME [Next]_vars
    PROVE  noCount' = noCount \/ \E h \in Handlers : Mark(h)
<1>1. CASE UNCHANGED vars
  BY <1>1 DEF vars
<1>2. ASSUME NEW h \in Handlers, GiveUp(h) \/ Finish(h) PROVE noCount' = noCount
  BY <1>2 DEF GiveUp, Finish, FallBack
<1>3. ASSUME NEW h \in Handlers, FromProvider(h) PROVE noCount' = noCount
  BY <1>2, <1>3 DEF FromProvider, Answer, CallFails, Relay, CountArrives, CountUnusable
<1>4. ASSUME NEW h \in Handlers, Local(h) PROVE noCount' = noCount \/ Mark(h)
  BY <1>2, <1>4 DEF Local, PassUngated, AcquireCanceled, Probe, Build, BuildFails, Send,
                    Wake, BackoffCanceled, Estimate
<1>5. ASSUME NEW h \in Handlers, Disconnect(h) \/ Acquire(h) \/ \E j \in Jobs : Arrive(h, j)
      PROVE  noCount' = noCount
  BY <1>5 DEF Disconnect, Acquire, Arrive
<1> QED BY <1>1, <1>3, <1>4, <1>5 DEF Next

(* The latch of a provider closes only on an answer of that provider to a  *)
(* count.                                                                  *)
THEOREM LatchFollowsAnAnswer == Spec => LatchNeedsAnAnswer
<1> DEFINE Justified ==
      \A p \in Providers :
          ~noCount[p] /\ noCount'[p] =>
              \E h \in Handlers :
                  /\ Counting(h) /\ job[h].provider = p
                  /\ pc[h] = "mark" /\ status[h] \in Answers
<1>1. Control /\ [Next]_vars => [Justified]_vars
  <2> SUFFICES ASSUME Control, [Next]_vars,
                      NEW p \in Providers, ~noCount[p], noCount'[p]
               PROVE  \E h \in Handlers :
                          /\ Counting(h) /\ job[h].provider = p
                          /\ pc[h] = "mark" /\ status[h] \in Answers
    OBVIOUS
  <2>1. PICK h \in Handlers : Mark(h)
    BY OnlyMarkLatches
  <2>2. pc[h] = "mark" /\ noCount' = [noCount EXCEPT ![job[h].provider] = TRUE]
    BY <2>1 DEF Mark, Moves, At
  <2>3. job[h].provider = p
    BY <2>2 DEF Control, TypeOK
  <2> QED BY <2>2, <2>3 DEF Control, Placed
<1> QED BY ControlInvariant, <1>1, PTL DEF Spec, LatchNeedsAnAnswer

-----------------------------------------------------------------------------
(* Refinement.                                                             *)

(* The handlers and the channel implement the abstract gate.               *)
THEOREM GatewayImplementsGate == Spec => ImplementsGate
<1> DEFINE admitted == [p \in Providers |-> Inside(p)]
<1>1. Init => Abstract!Init
  BY DEF Init, Abstract!Init, Inside, Admitted, Messaging
<1>2. SafeGate /\ [Next]_vars => [Abstract!Next]_admitted
  <2> SUFFICES ASSUME SafeGate, [Next]_vars PROVE [Abstract!Next]_admitted
    OBVIOUS
  <2>1. CASE Stays
    BY <2>1 DEF Stays
  <2>2. ASSUME NEW h \in Handlers, Enters(h) PROVE Abstract!Next
    <3>1. PICK p \in Providers :
             /\ \A q \in Providers : h \notin Inside(q)
             /\ Limited(p) => gate[p] < MaxConcurrent[p]
             /\ \A q \in Providers :
                   Inside(q)' = IF q = p THEN Inside(q) \cup {h} ELSE Inside(q)
      BY <2>2 DEF Enters
    <3>2. Abstract!Limited(p) => Abstract!Cardinality(admitted[p]) < MaxConcurrent[p]
      <4>1. Abstract!Cardinality(Inside(p)) = Cardinality(Inside(p))
        BY DEF Abstract!Cardinality, Cardinality
      <4> QED
        BY <3>1, <4>1 DEF SafeGate, SlotsMatchHolders, Holders, Limited, Abstract!Limited
    <3>3. admitted' = [admitted EXCEPT ![p] = @ \cup {h}]
      BY <3>1
    <3> QED
      BY <3>1, <3>2, <3>3 DEF Abstract!Next, Abstract!Enter
  <2>3. ASSUME NEW h \in Handlers, Leaves(h) PROVE Abstract!Next
    <3>1. PICK p \in Providers :
             /\ h \in Inside(p)
             /\ \A q \in Providers :
                   Inside(q)' = IF q = p THEN Inside(q) \ {h} ELSE Inside(q)
      BY <2>3 DEF Leaves
    <3>2. admitted' = [admitted EXCEPT ![p] = @ \ {h}]
      BY <3>1
    <3> QED BY <3>1, <3>2 DEF Abstract!Next, Abstract!Leave
  <2> QED BY <2>1, <2>2, <2>3, StepsOfTheGate DEF SafeGate
<1> QED BY InitSafeGate, NextSafeGate, <1>1, <1>2, PTL DEF Spec, ImplementsGate, Abstract!Spec
=============================================================================
