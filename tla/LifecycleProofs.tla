-------------------------- MODULE LifecycleProofs ---------------------------
(* Theorems about Lifecycle, for any connections, configurations and lists. *)
EXTENDS Lifecycle, TLAPS

(* What a list says becomes a table of rates.                              *)
LEMMA RatesTyped ==
    ASSUME NEW a, NEW list \in PriceLists
    PROVE  RatesOf(a, list) \in Tables
<1>1. ASSUME NEW w \in Written PROVE ParsePrice(w) \in Rate
  BY <1>1 DEF ParsePrice, Written, Forms, Rate, Free
<1>2. Free \in Rate
  BY DEF Free, Rate
<1>3. ASSUME NEW id \in Ids, list[id] # NoRate
      PROVE  /\ [k \in Kinds |-> ParsePrice(list[id][k])] \in Rates
             /\ [k \in Kinds |-> Free] \in Rates
  <2>1. list[id] \in [Kinds -> Written]
    BY <1>3 DEF PriceLists
  <2> QED BY <2>1, <1>1, <1>2 DEF Rates
<1> QED BY <1>3 DEF RatesOf, OllamaRates, OpenRouterRates, Tables

(* Tables merged are a table.                                               *)
LEMMA MergedTyped ==
    ASSUME NEW new \in Tables, NEW old \in Tables
    PROVE  Merged(new, old) \in Tables
BY DEF Merged, Tables

-----------------------------------------------------------------------------
(* Type correctness.                                                       *)
LEMMA TypeInit == Init => TypeOK
<1> SUFFICES ASSUME Init PROVE TypeOK
  OBVIOUS
<1>1. EmptyTable \in Tables
  BY DEF EmptyTable, Tables
<1>2. answered = << >> /\ Len(answered) <= Len(cfg.apis)
  BY ConfigsAssumption DEF Init
<1>3. answered \in Seq(Tables \cup {NoTable})
  BY <1>2
<1>4. conn \in [Conns -> ConnStates] /\ asked \in [Conns -> Origins \cup {Message}]
  BY DEF Init, ConnStates
<1> QED BY <1>1, <1>2, <1>3, <1>4 DEF Init, TypeOK

(* Every step keeps the types.                                              *)
LEMMA TypeNext == TypeOK /\ [Next]_vars => TypeOK'
<1> SUFFICES ASSUME TypeOK, [Next]_vars PROVE TypeOK'
  OBVIOUS
<1> USE DEF TypeOK, detection, requests
<1>0. cfg.apis \in Seq({"openrouter", "ollama", "other"})
  BY ConfigsAssumption
<1>1. ASSUME NEW how \in {"clean", "failed", "killed"}, End(how) PROVE TypeOK'
  <2>1. conn' \in [Conns -> ConnStates]
    BY <1>1 DEF End, ConnStates, Served
  <2> QED BY <1>1, <2>1 DEF End
<1>2. CASE Load
  BY <1>2 DEF Load
<1>3. CASE LoadFails \/ ListenerEnds \/ ShutdownFails
  BY <1>3, <1>1 DEF LoadFails, ListenerEnds, ShutdownFails
<1>4. CASE SignalKills
  BY <1>4, <1>1 DEF SignalKills
<1>5. CASE ShutdownReturns
  BY <1>5, <1>1 DEF ShutdownReturns
<1>6. CASE Skip
  BY <1>6, <1>0 DEF Skip, Asking
<1>7. CASE FetchFails
  BY <1>7, <1>0 DEF FetchFails, Asking
<1>8. CASE DeadlinePasses
  BY <1>8 DEF DeadlinePasses
<1>9. ASSUME NEW list \in Lists, FetchAnswers(list) PROVE TypeOK'
  <2>1. RatesOf(api, list) \in Tables
    BY ListsAssumption, RatesTyped
  <2>2. table' \in Tables
    BY <1>9, <2>1, MergedTyped DEF FetchAnswers
  <2> QED BY <1>9, <1>0, <2>1, <2>2 DEF FetchAnswers, Asking
<1>10. CASE StartServing
  BY <1>10 DEF StartServing
<1>11. CASE Signal
  BY <1>11 DEF Signal
<1>12. ASSUME NEW result \in {"open", "failed"}, Listen(result) PROVE TypeOK'
  BY <1>12 DEF Listen
<1>13. CASE BeginShutdown
  BY <1>13 DEF BeginShutdown
<1>14. CASE GracePasses
  BY <1>14 DEF GracePasses
<1>15. ASSUME NEW c \in Conns, ConnStep(c) PROVE TypeOK'
  <2>1. CASE Connect(c)
    BY <2>1 DEF Connect, ConnStates, Served
  <2>2. ASSUME NEW what \in Origins \cup {Message}, Request(c, what) PROVE TypeOK'
    BY <2>2 DEF Request, ConnStates, Served
  <2>3. CASE Answer(c)
    <3>1. conn' \in [Conns -> ConnStates] /\ asked' \in [Conns -> Origins \cup {Message}]
      BY <2>3 DEF Answer, ConnStates, Served
    <3>2. doc' = [d \in Conns |-> doc'[d]]
      BY <2>3 DEF Answer
    <3> QED BY <2>3, <3>1, <3>2 DEF Answer
  <2>4. CASE HangUp(c)
    BY <2>4 DEF HangUp, ConnStates, Served
  <2>5. CASE HandlerReturns(c)
    BY <2>5 DEF HandlerReturns, ConnStates, Served
  <2>6. CASE Drop(c)
    BY <2>6 DEF Drop, ConnStates, Served
  <2> QED BY <1>15, <2>1, <2>2, <2>3, <2>4, <2>5, <2>6 DEF ConnStep
<1>16. CASE UNCHANGED vars
  BY <1>16 DEF vars
<1> QED
  BY <1>2, <1>3, <1>4, <1>5, <1>6, <1>7, <1>8, <1>9, <1>10, <1>11, <1>12, <1>13, <1>14,
     <1>15, <1>16 DEF Next

(* Every reachable state has its types.                                    *)
THEOREM TypeCorrect == Spec => []TypeOK
BY TypeInit, TypeNext, PTL DEF Spec
-----------------------------------------------------------------------------
(* What holds in each phase.                                               *)

(* Nothing is served before the phase of serving, a process has its exit   *)
(* when it has ended, and only one that failed late or without a listener  *)
(* has cut connections.                                                    *)
Placed ==
    /\ phase \in {"load", "detect"} => \A c \in Conns : conn[c] = "none" /\ doc[c] = NoDoc
    /\ phase = "ended" <=> exit # "none"
    /\ \A c \in Conns : conn[c] = "cut" =>
           exit = "failed" /\ (late \/ listener = "failed")
    /\ exit = "clean" => \A c \in Conns : conn[c] \notin Served

(* It begins with nothing open.                                             *)
LEMMA PlacedInit == Init => Placed
BY DEF Init, Placed

(* An end puts everything in its place, as long as it cuts only late.      *)
LEMMA EndPlaced ==
    ASSUME TypeOK, Placed, phase # "ended",
           NEW how \in {"clean", "failed", "killed"}, End(how),
           \A c \in Conns : conn[c] = "active" =>
               how = "failed" /\ (late \/ listener = "failed")
    PROVE  Placed'
<1>1. \A c \in Conns : conn'[c] \notin Served
  <2> SUFFICES ASSUME NEW c \in Conns PROVE conn'[c] \notin Served
    OBVIOUS
  <2>1. conn[c] \in ConnStates
    BY DEF TypeOK
  <2> QED BY <2>1 DEF End, ConnStates, Served
<1>2. \A c \in Conns : conn'[c] = "cut" => conn[c] \in {"active", "cut"}
  <2> SUFFICES ASSUME NEW c \in Conns, conn'[c] = "cut" PROVE conn[c] \in {"active", "cut"}
    OBVIOUS
  <2>1. conn[c] \in ConnStates
    BY DEF TypeOK
  <2> QED BY <2>1 DEF End, ConnStates, Served
<1>3. \A c \in Conns : conn[c] # "cut"
  BY DEF Placed
<1> QED BY <1>1, <1>2, <1>3 DEF End, Placed

(* Every step keeps everything in its place.                                *)
LEMMA PlacedNext == TypeOK /\ Placed /\ [Next]_vars => Placed'
<1> SUFFICES ASSUME TypeOK, Placed, [Next]_vars PROVE Placed'
  OBVIOUS
<1>1. CASE LoadFails \/ SignalKills
  <2>1. PICK how \in {"failed", "killed"} : End(how)
    BY <1>1 DEF LoadFails, SignalKills
  <2>2. phase \in {"load", "detect"}
    BY <1>1 DEF LoadFails, SignalKills
  <2> QED BY <2>1, <2>2, EndPlaced DEF Placed
<1>2. CASE ListenerEnds \/ ShutdownFails
  BY <1>2, EndPlaced DEF ListenerEnds, ShutdownFails
<1>3. CASE ShutdownReturns
  BY <1>3, EndPlaced DEF ShutdownReturns, Served
<1>4. CASE Load \/ Skip \/ FetchFails \/ DeadlinePasses
  BY <1>4 DEF Load, Skip, FetchFails, DeadlinePasses, Asking, Placed, requests, detection
<1>5. ASSUME NEW list \in Lists, FetchAnswers(list) PROVE Placed'
  BY <1>5 DEF FetchAnswers, Asking, Placed, requests
<1>6. CASE StartServing
  BY <1>6 DEF StartServing, Placed, requests
<1>7. CASE Signal \/ GracePasses
  BY <1>7 DEF Signal, GracePasses, Placed, requests, detection
<1>8. ASSUME NEW result \in {"open", "failed"}, Listen(result) PROVE Placed'
  BY <1>8 DEF Listen, Placed, requests
<1>9. CASE BeginShutdown
  BY <1>9 DEF BeginShutdown, Placed, requests
<1>10. ASSUME NEW c \in Conns, ConnStep(c) PROVE Placed'
  <2>1. /\ phase \in {"serve", "drain"} /\ exit' = exit /\ phase' = phase
        /\ late' = late /\ listener' = listener
    BY <1>10 DEF ConnStep, Connect, Request, Answer, HangUp, HandlerReturns, Drop, Serving
  <2>2. conn' \in [Conns -> ConnStates] /\ \A d \in Conns : conn'[d] # "cut"
    BY <1>10, <2>1 DEF ConnStep, Connect, Request, Answer, HangUp, HandlerReturns, Drop,
                       TypeOK, Placed, ConnStates, Served
  <2> QED BY <2>1, <2>2 DEF Placed
<1>11. CASE UNCHANGED vars
  BY <1>11 DEF vars, Placed
<1> QED
  BY <1>1, <1>2, <1>3, <1>4, <1>5, <1>6, <1>7, <1>8, <1>9, <1>10, <1>11 DEF Next

(* A process cuts replies only after the grace period or without a         *)
(* listener, and never when it ends well.                                  *)
THEOREM RepliesAreKept == Spec => []RepliesAreCutOnlyLate
<1>1. Placed => RepliesAreCutOnlyLate
  BY DEF Placed, RepliesAreCutOnlyLate
<1> QED BY <1>1, TypeInit, TypeNext, PlacedInit, PlacedNext, PTL DEF Spec
-----------------------------------------------------------------------------
(* The prices.                                                             *)

(* table has for each model the rates of the last list that names it.      *)
LastListed ==
    \A id \in Ids :
        \/ Listing(id) = {} /\ table[id] = NoRate
        \/ \E i \in Listing(id) :
               /\ \A j \in Listing(id) : j <= i
               /\ table[id] = answered[i][id]

(* A document was given by a server that had the final table.              *)
Documented ==
    /\ phase \in {"serve", "drain"} => Len(answered) = Len(cfg.apis) /\ rates = table
    /\ \A c \in Conns : doc[c] # NoDoc =>
           /\ Len(answered) = Len(cfg.apis) /\ rates = table
           /\ doc[c].keys = Document(cfg, doc[c].origin, rates)

PricesInv == LastListed /\ Documented

(* The table is what the last lists say.                                    *)
LEMMA LastListedIsFinal == TypeOK /\ LastListed => table = FinalTable
<1> SUFFICES ASSUME TypeOK, LastListed PROVE table = FinalTable
  OBVIOUS
<1>1. ASSUME NEW id \in Ids, Listing(id) # {}
      PROVE  table[id] = answered[Last(Listing(id))][id]
  <2>1. PICK i \in Listing(id) : (\A j \in Listing(id) : j <= i) /\ table[id] = answered[i][id]
    BY <1>1 DEF LastListed
  <2>2. Listing(id) \subseteq Int
    BY DEF Listing
  <2>3. Last(Listing(id)) \in Listing(id) /\ \A j \in Listing(id) : j <= Last(Listing(id))
    BY <2>1 DEF Last
  <2>4. Last(Listing(id)) <= i /\ i <= Last(Listing(id))
    BY <2>1, <2>3
  <2>5. Last(Listing(id)) = i
    BY <2>2, <2>3, <2>4
  <2> QED BY <2>1, <2>5
<1>2. \A id \in Ids : table[id] = FinalTable[id]
  BY <1>1 DEF FinalTable, LastListed
<1> QED BY <1>2 DEF FinalTable, TypeOK, Tables

(* One more answer.                                                        *)
LEMMA AnswerKeepsLast ==
    ASSUME TypeOK, LastListed,
           NEW t \in Tables \cup {NoTable},
           answered' = Append(answered, t),
           table' = IF t = NoTable THEN table ELSE Merged(t, table)
    PROVE  LastListed'
<1> DEFINE n == Len(answered) + 1
<1>1. /\ answered \in Seq(Tables \cup {NoTable})
      /\ Len(answered) \in Nat
      /\ Len(answered') = n /\ answered'[n] = t
      /\ \A i \in 1 .. Len(answered) : answered'[i] = answered[i]
  BY DEF TypeOK
<1> SUFFICES ASSUME NEW id \in Ids
             PROVE  \/ Listing(id)' = {} /\ table'[id] = NoRate
                    \/ \E i \in Listing(id)' :
                           /\ \A j \in Listing(id)' : j <= i
                           /\ table'[id] = answered'[i][id]
  BY DEF LastListed
<1>2. CASE t # NoTable /\ t[id] # NoRate
  <2>1. n \in Listing(id)' /\ \A j \in Listing(id)' : j <= n
    BY <1>1, <1>2 DEF Listing
  <2>2. table'[id] = answered'[n][id]
    BY <1>1, <1>2 DEF Merged
  <2> QED BY <2>1, <2>2
<1>3. CASE t = NoTable \/ t[id] = NoRate
  <2>1. Listing(id)' = Listing(id)
    BY <1>1, <1>3 DEF Listing
  <2>2. table'[id] = table[id]
    BY <1>3, NoneAssumption DEF Merged
  <2>3. \A i \in Listing(id) : answered'[i] = answered[i]
    BY <1>1 DEF Listing
  <2> QED BY <2>1, <2>2, <2>3 DEF LastListed
<1> QED BY <1>2, <1>3

(* It begins with no lists and no documents.                                *)
LEMMA PricesInit == Init => PricesInv
<1> SUFFICES ASSUME Init PROVE PricesInv
  OBVIOUS
<1>1. answered = << >> /\ Len(answered) = 0
  BY DEF Init
<1>2. ASSUME NEW id \in Ids PROVE Listing(id) = {} /\ table[id] = NoRate
  <2>1. table[id] = NoRate
    BY DEF Init, EmptyTable
  <2>2. ASSUME NEW i \in Listing(id) PROVE FALSE
    BY <1>1, <2>2 DEF Listing
  <2> QED BY <2>1, <2>2
<1> QED BY <1>2 DEF Init, PricesInv, LastListed, Documented

(* Every step keeps the prices.                                             *)
LEMMA PricesNext == TypeOK /\ Placed /\ PricesInv /\ [Next]_vars => PricesInv'
<1> SUFFICES ASSUME TypeOK, Placed, PricesInv, [Next]_vars PROVE PricesInv'
  OBVIOUS
<1>1. ASSUME UNCHANGED detection, UNCHANGED doc, phase' = phase \/ phase' \notin {"serve", "drain"}
             \/ phase \in {"serve", "drain"}
      PROVE  PricesInv'
  BY <1>1 DEF detection, PricesInv, LastListed, Listing, Documented
<1>2. CASE LoadFails \/ SignalKills \/ ListenerEnds \/ ShutdownReturns \/ ShutdownFails
  BY <1>1, <1>2 DEF LoadFails, SignalKills, ListenerEnds, ShutdownReturns, ShutdownFails, End
<1>3. CASE Load \/ Signal \/ BeginShutdown \/ GracePasses
  BY <1>1, <1>3 DEF Load, Signal, BeginShutdown, GracePasses, requests
<1>4. ASSUME NEW result \in {"open", "failed"}, Listen(result) PROVE PricesInv'
  BY <1>1, <1>4 DEF Listen, requests
<1>5. CASE Skip \/ FetchFails
  <2>1. answered' = Append(answered, NoTable) /\ table' = table
    BY <1>5 DEF Skip, FetchFails
  <2>2. LastListed'
    BY <2>1, AnswerKeepsLast DEF PricesInv
  <2>3. phase' = "detect" /\ \A c \in Conns : doc'[c] = NoDoc
    BY <1>5 DEF Skip, FetchFails, Asking, requests, Placed
  <2> QED BY <2>2, <2>3 DEF PricesInv, Documented
<1>6. ASSUME NEW list \in Lists, FetchAnswers(list) PROVE PricesInv'
  <2>1. RatesOf(api, list) \in Tables
    BY ListsAssumption, RatesTyped
  <2>2. /\ answered' = Append(answered, RatesOf(api, list))
        /\ table' = Merged(RatesOf(api, list), table)
    BY <1>6 DEF FetchAnswers
  <2>3. LastListed'
    BY <2>1, <2>2, AnswerKeepsLast, NoneAssumption DEF PricesInv
  <2>4. phase' = "detect" /\ \A c \in Conns : doc'[c] = NoDoc
    BY <1>6 DEF FetchAnswers, Asking, requests, Placed
  <2> QED BY <2>3, <2>4 DEF PricesInv, Documented
<1>7. CASE DeadlinePasses
  BY <1>7 DEF DeadlinePasses, requests, PricesInv, LastListed, Listing, Documented
<1>8. CASE StartServing
  BY <1>8 DEF StartServing, requests, PricesInv, LastListed, Listing, Documented, Placed
<1>9. ASSUME NEW c \in Conns, ConnStep(c) PROVE PricesInv'
  <2>1. CASE Connect(c) \/ HangUp(c) \/ HandlerReturns(c) \/ Drop(c)
    BY <1>1, <2>1 DEF Connect, HangUp, HandlerReturns, Drop
  <2>2. ASSUME NEW what \in Origins \cup {Message}, Request(c, what) PROVE PricesInv'
    BY <1>1, <2>2 DEF Request
  <2>3. CASE Answer(c)
    <3>1. /\ phase \in {"serve", "drain"} /\ phase' = phase
          /\ UNCHANGED detection
      BY <2>3 DEF Answer, Serving
    <3>2. LastListed'
      BY <3>1 DEF detection, PricesInv, LastListed, Listing
    <3>3. /\ Len(answered') = Len(cfg'.apis) /\ rates' = table'
          /\ cfg' = cfg /\ rates' = rates
      BY <3>1 DEF detection, PricesInv, Documented
    <3>4. ASSUME NEW d \in Conns, doc'[d] # NoDoc
          PROVE  doc'[d].keys = Document(cfg, doc'[d].origin, rates)
      <4>1. CASE doc'[d] = doc[d]
        BY <3>4, <4>1 DEF PricesInv, Documented
      <4>2. CASE doc'[d] # doc[d]
        <5>1. doc'[d] = [origin |-> asked[d], keys |-> Document(cfg, asked[d], rates)]
          BY <2>3, <4>2 DEF Answer, TypeOK
        <5> QED BY <5>1
      <4> QED BY <4>1, <4>2
    <3> QED BY <3>2, <3>3, <3>4 DEF PricesInv, Documented
  <2> QED BY <1>9, <2>1, <2>2, <2>3 DEF ConnStep
<1>10. CASE UNCHANGED vars
  BY <1>1, <1>10 DEF vars, detection
<1> QED
  BY <1>2, <1>3, <1>4, <1>5, <1>6, <1>7, <1>8, <1>9, <1>10 DEF Next

(* No document has other prices than those of the finished detection.      *)
THEOREM PricesAreFinal == Spec => []ServedPricesAreFinal
<1>1. TypeOK /\ PricesInv => ServedPricesAreFinal
  BY LastListedIsFinal DEF PricesInv, Documented, ServedPricesAreFinal
<1> QED
  BY <1>1, TypeInit, TypeNext, PlacedInit, PlacedNext, PricesInit, PricesNext, PTL DEF Spec
-----------------------------------------------------------------------------
(* The settings of a document.                                             *)

(* Whoever got past Load has had the import checked.                       *)
Checked ==
    /\ phase \in {"detect", "serve", "drain"} => ValidImport(cfg.settings)
    /\ \A c \in Conns : doc[c] # NoDoc => ValidImport(cfg.settings)

(* Nothing is loaded yet.                                                   *)
LEMMA CheckedInit == Init => Checked
BY DEF Init, Checked

(* Only a configuration that was checked gets past Load.                    *)
LEMMA CheckedNext == Checked /\ TypeOK /\ [Next]_vars => Checked'
<1> SUFFICES ASSUME Checked, TypeOK, [Next]_vars PROVE Checked'
  OBVIOUS
<1>1. ASSUME UNCHANGED <<cfg, doc>>, phase \in {"detect", "serve", "drain"} \/ phase' = phase
             \/ phase' = "ended"
      PROVE  Checked'
  BY <1>1 DEF Checked
<1>2. CASE LoadFails \/ SignalKills \/ ListenerEnds \/ ShutdownReturns \/ ShutdownFails
  BY <1>1, <1>2
     DEF LoadFails, SignalKills, ListenerEnds, ShutdownReturns, ShutdownFails, End, detection
<1>3. CASE Load
  BY <1>3 DEF Load, Checked, detection, requests
<1>4. CASE Skip \/ FetchFails \/ DeadlinePasses \/ StartServing \/ Signal \/ BeginShutdown
           \/ GracePasses
  BY <1>1, <1>4 DEF Skip, FetchFails, DeadlinePasses, StartServing, Signal, BeginShutdown,
                    GracePasses, Asking, detection, requests
<1>5. ASSUME NEW list \in Lists, FetchAnswers(list) PROVE Checked'
  BY <1>1, <1>5 DEF FetchAnswers, Asking, requests
<1>6. ASSUME NEW result \in {"open", "failed"}, Listen(result) PROVE Checked'
  BY <1>1, <1>6 DEF Listen, detection, requests
<1>7. ASSUME NEW c \in Conns, ConnStep(c) PROVE Checked'
  <2>1. CASE Connect(c) \/ HangUp(c) \/ HandlerReturns(c) \/ Drop(c)
    BY <1>1, <2>1 DEF Connect, HangUp, HandlerReturns, Drop, detection
  <2>2. ASSUME NEW what \in Origins \cup {Message}, Request(c, what) PROVE Checked'
    BY <1>1, <2>2 DEF Request, detection
  <2>3. CASE Answer(c)
    BY <2>3 DEF Answer, Serving, Checked, detection
  <2> QED BY <1>7, <2>1, <2>2, <2>3 DEF ConnStep
<1>8. CASE UNCHANGED vars
  BY <1>1, <1>8 DEF vars, detection, requests
<1> QED BY <1>2, <1>3, <1>4, <1>5, <1>6, <1>7, <1>8 DEF Next

(* Where a name is given once, the first element that has it is the last.  *)
LEMMA OnceNamed ==
    ASSUME NEW settings, NamedOnce(settings), NEW n \in Names(settings)
    PROVE  \E i \in 1 .. Len(settings) :
               /\ settings[i].name = n
               /\ Named(settings, n) = {i}
               /\ First(Named(settings, n)) = i
               /\ Last(Named(settings, n)) = i
<1>1. PICK i \in 1 .. Len(settings) : Named(settings, n) = {i}
  BY DEF NamedOnce
<1>2. settings[i].name = n
  BY <1>1 DEF Named
<1>3. i \in Int /\ i <= i
  OBVIOUS
<1>4. First({i}) = i
  BY <1>3 DEF First
<1>5. Last({i}) = i
  BY <1>3 DEF Last
<1> QED BY <1>1, <1>2, <1>4, <1>5

(* A name that is not set has no places.                                    *)
LEMMA Unnamed ==
    ASSUME NEW settings, NEW n, n \notin Names(settings)
    PROVE  Named(settings, n) = {}
BY DEF Named, Names

(* An object has, under each name, the text that validate has looked at.   *)
LEMMA ObjectAsRead ==
    ASSUME NEW children, NamedOnce(children), NEW n
    PROVE  EntryOf(ObjectOf(children), n) = TextOf(children, n)
<1>1. CASE n \in Names(children)
  <2>1. PICK i : /\ Named(children, n) = {i}
                 /\ First(Named(children, n)) = i
                 /\ Last(Named(children, n)) = i
    BY <1>1, OnceNamed
  <2>2. ObjectOf(children)[n] = children[i].text
    BY <1>1, <2>1 DEF ObjectOf
  <2>3. TextOf(children, n) = children[i].text
    BY <2>1 DEF TextOf
  <2> QED BY <1>1, <2>2, <2>3 DEF EntryOf, ObjectOf
<1>2. CASE n \notin Names(children)
  BY <1>2, Unnamed DEF EntryOf, ObjectOf, TextOf
<1> QED BY <1>1, <1>2

(* What the overlay does not name, the gateway's own keys decide.          *)
LEMMA KeysOfDocument ==
    ASSUME NEW c, NEW origin, NEW t
    PROVE  LET keys == Document(c, origin, t)
           IN  /\ "claudeAiImport" \in DOMAIN keys => "claudeAiImport" \in Names(c.settings)
               /\ "modelPrefer1mContext" \in DOMAIN keys =>
                      "modelPrefer1mContext" \in Names(c.settings)
               /\ \A n \in Names(c.settings) :
                      n \in DOMAIN keys /\ keys[n] = Overlay(c.settings)[n]
               /\ "inferenceModels" \notin Names(c.settings) =>
                      keys["inferenceModels"] = ModelEntries(c)
<1> DEFINE base == BaseKeys(c)
           gateway == GatewayKeys(c, origin)
           prices == PriceKeys(c, t)
           own == Over(prices, Over(gateway, base))
           keys == Document(c, origin, t)
<1>1. /\ DOMAIN base = {"inferenceProvider", "modelDiscoveryEnabled", "inferenceModels"}
      /\ base["inferenceModels"] = ModelEntries(c)
  BY DEF BaseKeys
<1>2. DOMAIN gateway \subseteq GatewayKeyNames
  BY DEF GatewayKeys
<1>3. DOMAIN prices \subseteq {"inferenceModelPricingEnabled", "inferenceModelPricing"}
  BY DEF PriceKeys
<1>4. /\ DOMAIN own = DOMAIN prices \cup DOMAIN gateway \cup DOMAIN base
      /\ own["inferenceModels"] = ModelEntries(c)
  BY <1>1, <1>2, <1>3 DEF Over, GatewayKeyNames
<1>5. DOMAIN Overlay(c.settings) = Names(c.settings)
  BY DEF Overlay
<1>6. keys = Over(Overlay(c.settings), own)
  BY DEF Document
<1>7. /\ DOMAIN keys = DOMAIN own \cup Names(c.settings)
      /\ \A n \in DOMAIN keys :
             keys[n] = IF n \in Names(c.settings) THEN Overlay(c.settings)[n] ELSE own[n]
  BY <1>5, <1>6 DEF Over
<1> HIDE DEF keys, own
<1>8. "claudeAiImport" \notin DOMAIN own /\ "modelPrefer1mContext" \notin DOMAIN own
  BY <1>1, <1>2, <1>3, <1>4 DEF GatewayKeyNames
<1>9. "inferenceModels" \in DOMAIN keys
  BY <1>1, <1>4, <1>7
<1>10. /\ "claudeAiImport" \in DOMAIN keys => "claudeAiImport" \in Names(c.settings)
       /\ "modelPrefer1mContext" \in DOMAIN keys =>
              "modelPrefer1mContext" \in Names(c.settings)
       /\ \A n \in Names(c.settings) :
              n \in DOMAIN keys /\ keys[n] = Overlay(c.settings)[n]
       /\ "inferenceModels" \notin Names(c.settings) =>
              keys["inferenceModels"] = ModelEntries(c)
  BY <1>4, <1>7, <1>8, <1>9
<1> QED BY <1>10 DEF keys

(* Clients get the settings that validate has checked.                     *)
THEOREM SettingsAreAsChecked == Spec => []SettingsAreServedAsChecked
<1>1. ASSUME Checked, Documented,
             NEW c \in Conns, doc[c] # NoDoc,
             NamedOnce(cfg.settings),
             \A i \in 1 .. Len(cfg.settings) :
                 /\ NamedOnce(cfg.settings[i].children) /\ ~IsList(cfg.settings[i])
                 /\ cfg.settings[i].name = "claudeAiImport" => cfg.settings[i].children # << >>
                 /\ cfg.settings[i].name = "modelPrefer1mContext" =>
                        cfg.settings[i].children = << >>
      PROVE  LET keys == doc[c].keys
             IN  /\ "claudeAiImport" \in DOMAIN keys => ImportServed(keys["claudeAiImport"])
                 /\ "inferenceModels" \notin Names(cfg.settings) =>
                        \A i \in 1 .. Len(cfg.models) :
                            keys["inferenceModels"][i].preferOneM =
                                (/\ cfg.models[i].oneM
                                 /\ EntryOf(keys, "modelPrefer1mContext") = "true")
  <2> DEFINE settings == cfg.settings
             keys == doc[c].keys
  <2>1. keys = Document(cfg, doc[c].origin, rates)
    BY <1>1 DEF Documented
  <2>2. ASSUME NEW n \in Names(settings)
        PROVE  \E i \in 1 .. Len(settings) :
                   /\ settings[i].name = n
                   /\ First(Named(settings, n)) = i /\ Named(settings, n) # {}
                   /\ Overlay(settings)[n] = Value(settings[i])
    <3>1. PICK i \in 1 .. Len(settings) : /\ settings[i].name = n
                                          /\ Named(settings, n) = {i}
                                          /\ First(Named(settings, n)) = i
                                          /\ Last(Named(settings, n)) = i
      BY <1>1, OnceNamed
    <3> QED BY <3>1 DEF Overlay
  <2>3. ASSUME "claudeAiImport" \in DOMAIN keys PROVE ImportServed(keys["claudeAiImport"])
    <3>1. "claudeAiImport" \in Names(settings)
      BY <2>1, <2>3, KeysOfDocument
    <3>2. PICK i \in 1 .. Len(settings) :
              /\ settings[i].name = "claudeAiImport"
              /\ First(Named(settings, "claudeAiImport")) = i
              /\ Named(settings, "claudeAiImport") # {}
              /\ Overlay(settings)["claudeAiImport"] = Value(settings[i])
      BY <2>2, <3>1
    <3> DEFINE children == settings[i].children
    <3>3. Value(settings[i]) = ObjectOf(children)
      BY <1>1, <3>2 DEF Value
    <3>4. keys["claudeAiImport"] = ObjectOf(children)
      BY <2>1, <3>1, <3>2, <3>3, KeysOfDocument
    <3>5. WholeImport([n \in Endpoint \cup {"bannerBehavior"} |-> TextOf(children, n)])
      BY <1>1, <3>2 DEF Checked, ValidImport
    <3>6. \A n : EntryOf(ObjectOf(children), n) = TextOf(children, n)
      BY <1>1, ObjectAsRead
    <3>7. [n \in Endpoint \cup {"bannerBehavior"} |-> EntryOf(ObjectOf(children), n)]
          = [n \in Endpoint \cup {"bannerBehavior"} |-> TextOf(children, n)]
      BY <3>6
    <3> QED BY <3>4, <3>5, <3>7 DEF ImportServed
  <2>4. (EntryOf(keys, "modelPrefer1mContext") = "true")
        <=> Bool(settings, "modelPrefer1mContext")
    <3>1. CASE "modelPrefer1mContext" \in Names(settings)
      <4>1. PICK i \in 1 .. Len(settings) :
                /\ settings[i].name = "modelPrefer1mContext"
                /\ First(Named(settings, "modelPrefer1mContext")) = i
                /\ Named(settings, "modelPrefer1mContext") # {}
                /\ Overlay(settings)["modelPrefer1mContext"] = Value(settings[i])
        BY <2>2, <3>1
      <4>2. Value(settings[i]) = settings[i].text
        BY <1>1, <4>1 DEF Value
      <4>3. /\ "modelPrefer1mContext" \in DOMAIN keys
            /\ keys["modelPrefer1mContext"] = Overlay(settings)["modelPrefer1mContext"]
        BY <2>1, <3>1, KeysOfDocument
      <4>4. keys["modelPrefer1mContext"] = settings[i].text
        BY <4>1, <4>2, <4>3
      <4>5. EntryOf(keys, "modelPrefer1mContext") = settings[i].text
        BY <4>3, <4>4, Zenon DEF EntryOf
      <4>6. TextOf(settings, "modelPrefer1mContext") = settings[i].text
        BY <4>1 DEF TextOf
      <4> QED BY <4>5, <4>6 DEF Bool
    <3>2. CASE "modelPrefer1mContext" \notin Names(settings)
      <4>1. EntryOf(keys, "modelPrefer1mContext") = ""
        BY <2>1, <3>2, KeysOfDocument, ZenonT(60) DEF EntryOf
      <4>2. TextOf(settings, "modelPrefer1mContext") = ""
        BY <3>2, Unnamed DEF TextOf
      <4> QED BY <4>1, <4>2 DEF Bool
    <3> QED BY <3>1, <3>2
  <2>5. ASSUME "inferenceModels" \notin Names(settings), NEW i \in 1 .. Len(cfg.models)
        PROVE  keys["inferenceModels"][i].preferOneM =
                   (cfg.models[i].oneM /\ EntryOf(keys, "modelPrefer1mContext") = "true")
    <3>1. keys["inferenceModels"] = ModelEntries(cfg)
      BY <2>1, <2>5, KeysOfDocument
    <3>2. ModelEntries(cfg)[i].preferOneM =
              (cfg.models[i].oneM /\ Bool(settings, "modelPrefer1mContext"))
      BY DEF ModelEntries
    <3> QED BY <2>4, <3>1, <3>2
  <2> QED BY <2>3, <2>5
<1>2. Checked /\ PricesInv => SettingsAreServedAsChecked
  BY <1>1 DEF PricesInv, SettingsAreServedAsChecked
<1> QED
  BY <1>2, TypeInit, TypeNext, PlacedInit, PlacedNext, PricesInit, PricesNext,
     CheckedInit, CheckedNext, PTL DEF Spec

-----------------------------------------------------------------------------
(* The rows of a document.                                                 *)
LEMMA RowsValid ==
    ASSUME NEW models, NEW t, NEW a \in DOMAIN PriceRows(models, t)
    PROVE  /\ a \in {models[i].alias : i \in 1 .. Len(models)}
           /\ Valid(PriceRows(models, t)[a])
<1> DEFINE priced == {i \in 1 .. Len(models) :
                         /\ Lookup(t, models[i]) # NoRate
                         /\ Valid(Lookup(t, models[i]))}
           choice == CHOOSE i \in priced : models[i].alias = a
<1>1. a \in {models[i].alias : i \in priced}
  BY DEF PriceRows
<1>2. choice \in priced
  BY <1>1
<1>3. PriceRows(models, t)[a] = Lookup(t, models[choice])
  BY <1>1 DEF PriceRows
<1> QED BY <1>1, <1>2, <1>3

(* The pricing key that is not the overlay's is that of PriceKeys.         *)
LEMMA PricingKey ==
    ASSUME NEW c, NEW o, NEW t,
           "inferenceModelPricing" \in DOMAIN Document(c, o, t) \ Names(c.settings)
    PROVE  /\ Document(c, o, t)["inferenceModelPricing"] = PriceRows(c.models, t)
           /\ DOMAIN PriceRows(c.models, t) # {}
<1> DEFINE p == "inferenceModelPricing"
           inner == Over(GatewayKeys(c, o), BaseKeys(c))
           outer == Over(PriceKeys(c, t), inner)
<1>1. DOMAIN Overlay(c.settings) = Names(c.settings)
  BY DEF Overlay
<1>2. p \notin DOMAIN inner
  <2>1. p \notin DOMAIN GatewayKeys(c, o)
    BY DEF GatewayKeys, GatewayKeyNames
  <2>2. p \notin DOMAIN BaseKeys(c)
    BY DEF BaseKeys
  <2> QED BY <2>1, <2>2 DEF Over
<1>3. DOMAIN Document(c, o, t) = DOMAIN outer \cup DOMAIN Overlay(c.settings)
  BY DEF Document, Over
<1>4. p \in DOMAIN outer /\ Document(c, o, t)[p] = outer[p]
  BY <1>1, <1>3 DEF Document, Over
<1>5. p \in DOMAIN PriceKeys(c, t) /\ outer[p] = PriceKeys(c, t)[p]
  BY <1>2, <1>4 DEF Over
<1>6. DOMAIN PriceRows(c.models, t) # {} /\ PriceKeys(c, t)[p] = PriceRows(c.models, t)
  BY <1>5 DEF PriceKeys
<1> QED BY <1>4, <1>5, <1>6

(* The rows of every document are such that the client accepts them.       *)
THEOREM RowsAreAccepted == Spec => []RowsAreAcceptable
<1>1. PricesInv => RowsAreAcceptable
  <2> SUFFICES ASSUME PricesInv, NEW c \in Conns, doc[c] # NoDoc,
                      "inferenceModelPricing" \in DOMAIN doc[c].keys \ Names(cfg.settings)
               PROVE  LET rows == doc[c].keys["inferenceModelPricing"]
                      IN  /\ DOMAIN rows # {}
                          /\ DOMAIN rows \subseteq {cfg.models[i].alias : i \in 1 .. Len(cfg.models)}
                          /\ \A a \in DOMAIN rows, k \in Kinds :
                                 /\ rows[a][k].finite
                                 /\ 0 <= rows[a][k].value /\ rows[a][k].value <= MaxRate
    BY DEF RowsAreAcceptable
  <2>1. doc[c].keys = Document(cfg, doc[c].origin, rates)
    BY DEF PricesInv, Documented
  <2>2. /\ doc[c].keys["inferenceModelPricing"] = PriceRows(cfg.models, rates)
        /\ DOMAIN PriceRows(cfg.models, rates) # {}
    BY <2>1, PricingKey
  <2>3. \A a \in DOMAIN PriceRows(cfg.models, rates) :
           /\ a \in {cfg.models[i].alias : i \in 1 .. Len(cfg.models)}
           /\ Valid(PriceRows(cfg.models, rates)[a])
    BY RowsValid
  <2> QED BY <2>2, <2>3 DEF Valid
<1> QED
  BY <1>1, TypeInit, TypeNext, PlacedInit, PlacedNext, PricesInit, PricesNext, PTL DEF Spec

-----------------------------------------------------------------------------
(* The promise to clients.                                                 *)
LEMMA PromisedInit == Init => Promised!Init
BY DEF Init, Promised!Init, Mode, Waiting, Cut

(* An end is one of Service's, a good one only when nobody is waiting.     *)
LEMMA EndPromised ==
    ASSUME TypeOK, Placed, phase # "ended",
           NEW how \in {"clean", "failed", "killed"}, End(how),
           how = "clean" => phase \in {"serve", "drain"} /\ Waiting = {}
    PROVE  Promised!EndWell \/ Promised!Fail
<1>1. Waiting' = {} /\ Cut' = Waiting
  <2>1. ASSUME NEW c \in Conns
        PROVE  conn'[c] # "active" /\ (conn'[c] = "cut" <=> conn[c] = "active")
    <3>1. conn[c] \in ConnStates /\ conn[c] # "cut"
      BY DEF TypeOK, Placed
    <3> QED BY <3>1 DEF End, ConnStates, Served
  <2> QED BY <2>1 DEF Waiting, Cut
<1>2. Mode \in {"down", "up"} /\ Cut = {}
  BY DEF TypeOK, Placed, Mode, Cut
<1>3. Mode' = IF how = "clean" THEN "clean" ELSE "failed"
  BY DEF End, Mode
<1> QED BY <1>1, <1>2, <1>3 DEF Promised!EndWell, Promised!Fail, Mode

(* Every step is one of Service's or changes nothing it speaks of.          *)
LEMMA PromisedNext ==
    TypeOK /\ Placed /\ [Next]_vars => [Promised!Next]_(Promised!vars)
<1> SUFFICES ASSUME TypeOK, Placed, [Next]_vars
             PROVE  Promised!Next \/ UNCHANGED <<Mode, Waiting, Cut>>
  BY DEF Promised!vars
<1>1. ASSUME UNCHANGED conn, Mode' = Mode PROVE UNCHANGED <<Mode, Waiting, Cut>>
  BY <1>1 DEF Waiting, Cut
<1>2. CASE LoadFails \/ ListenerEnds \/ ShutdownFails \/ SignalKills
  <2>1. PICK how \in {"failed", "killed"} : End(how)
    BY <1>2 DEF LoadFails, ListenerEnds, ShutdownFails, SignalKills
  <2>2. phase # "ended"
    BY <1>2 DEF LoadFails, ListenerEnds, ShutdownFails, SignalKills
  <2> QED BY <2>1, <2>2, EndPromised DEF Promised!Next
<1>3. CASE ShutdownReturns
  <2>1. Waiting = {}
    BY <1>3 DEF ShutdownReturns, Waiting, Served
  <2> QED BY <1>3, <2>1, EndPromised DEF ShutdownReturns, Promised!Next
<1>4. CASE Load \/ Skip \/ FetchFails \/ DeadlinePasses
  BY <1>1, <1>4 DEF Load, Skip, FetchFails, DeadlinePasses, Asking, requests, Mode
<1>5. ASSUME NEW list \in Lists, FetchAnswers(list) PROVE UNCHANGED <<Mode, Waiting, Cut>>
  BY <1>1, <1>5 DEF FetchAnswers, Asking, requests, Mode
<1>6. CASE StartServing
  BY <1>6 DEF StartServing, requests, Promised!Next, Promised!Up, Mode, Waiting, Cut
<1>7. CASE Signal \/ GracePasses \/ BeginShutdown
  BY <1>1, <1>7 DEF Signal, GracePasses, BeginShutdown, requests, Mode
<1>8. ASSUME NEW result \in {"open", "failed"}, Listen(result)
      PROVE  UNCHANGED <<Mode, Waiting, Cut>>
  BY <1>1, <1>8 DEF Listen, requests, Mode
<1>9. ASSUME NEW c \in Conns, ConnStep(c) PROVE Promised!Next \/ UNCHANGED <<Mode, Waiting, Cut>>
  <2>1. Mode = "up" /\ Mode' = "up" /\ phase' = phase
    BY <1>9 DEF ConnStep, Connect, Request, Answer, HangUp, HandlerReturns, Drop, Serving, Mode
  <2>2. ASSUME NEW what \in Origins \cup {Message}, Request(c, what)
        PROVE  Waiting' = Waiting \cup {c} /\ Cut' = Cut
    BY <2>2 DEF Request, TypeOK, Waiting, Cut
  <2>3. CASE Connect(c) \/ Answer(c) \/ HangUp(c) \/ HandlerReturns(c) \/ Drop(c)
    <3>1. /\ conn' \in [Conns -> ConnStates] /\ conn'[c] \notin {"active", "cut"}
          /\ \A d \in Conns \ {c} : conn'[d] = conn[d]
          /\ conn[c] # "cut"
      BY <2>3 DEF Connect, Answer, HangUp, HandlerReturns, Drop, TypeOK, ConnStates, Served
    <3>2. Waiting' = Waiting \ {c} /\ Cut' = Cut
      BY <3>1 DEF Waiting, Cut
    <3> QED BY <2>1, <3>2 DEF Promised!Next, Promised!Release
  <2>4. ASSUME NEW what \in Origins \cup {Message}, Request(c, what) PROVE Promised!Next
    BY <2>1, <2>2, <2>4 DEF Promised!Next, Promised!Take
  <2> QED BY <1>9, <2>3, <2>4 DEF ConnStep
<1>10. CASE UNCHANGED vars
  BY <1>10 DEF vars, Mode, Waiting, Cut
<1> QED
  BY <1>2, <1>3, <1>4, <1>5, <1>6, <1>7, <1>8, <1>9, <1>10 DEF Next

(* The process keeps what Service promises.                                *)
THEOREM LifecycleImplementsService == Spec => ImplementsService
BY TypeInit, TypeNext, PlacedInit, PlacedNext, PromisedInit, PromisedNext, PTL
DEF Spec, ImplementsService, Promised!Spec
=============================================================================
