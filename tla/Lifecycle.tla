----------------------------- MODULE Lifecycle ------------------------------
(***************************************************************************)
(* The process, cmd/liberated-claude: run loads the configuration, asks    *)
(* the providers for their prices under one deadline, serves until it is   *)
(* signalled or its listener fails, and shuts down with ten seconds of     *)
(* grace for the replies under way.  Connections are those of net/http;    *)
(* what its server does with them is external.                             *)
(***************************************************************************)
EXTENDS Bootstrap

CONSTANTS
    Conns,      \* connections
    Configs,    \* configurations
    Lists,      \* price lists a provider may answer with
    Origins,    \* origins a bootstrap document is asked for at
    NoTable,    \* a provider that gave no list
    Message,    \* a messages request
    NoDoc       \* no document yet

ASSUME ListsAssumption == Lists \subseteq PriceLists
ASSUME ConfigsAssumption == \A c \in Configs : c.apis \in Seq({"openrouter", "ollama", "other"})
ASSUME NoneAssumption == NoTable \notin Tables /\ NoRate \notin Rates

VARIABLES
    phase,      \* "load", "detect", "serve", "drain" or "ended"
    cfg,        \* the configuration
    expired,    \* discoveryTimeout has passed
    answered,   \* what each provider asked so far had to say
    table,      \* out, in detectRates
    rates,      \* rates, in the server
    signalled,  \* ctx is done
    listener,   \* "none", "starting", "open", "closed" or "failed"
    conn,       \* the state of each connection
    asked,      \* its request under way: an origin, for a bootstrap document, or Message
    doc,        \* the last document it was given, and for which origin
    late,       \* the ten seconds have passed
    exit        \* "none", "clean", "failed" or "killed"

vars == <<phase, cfg, expired, answered, table, rates, signalled, listener, conn, asked,
          doc, late, exit>>
detection == <<cfg, expired, answered, table, rates>>
requests == <<conn, asked, doc>>

(* "left": its client is gone, but its handler has not returned.           *)
Served == {"new", "active", "left", "idle"}
ConnStates == {"none", "closed", "cut"} \cup Served

Init ==
    /\ phase = "load"
    /\ cfg \in Configs
    /\ expired = FALSE
    /\ answered = << >>
    /\ table = EmptyTable
    /\ rates = EmptyTable
    /\ signalled = FALSE
    /\ listener = "none"
    /\ conn = [c \in Conns |-> "none"]
    /\ asked = [c \in Conns |-> Message]
    /\ doc = [c \in Conns |-> NoDoc]
    /\ late = FALSE
    /\ exit = "none"

(* The process ends, and its connections with it.                          *)
End(how) ==
    /\ phase' = "ended"
    /\ exit' = how
    /\ conn' = [c \in Conns |->
                   CASE conn[c] = "active" -> "cut"
                     [] conn[c] \in Served \ {"active"} -> "closed"
                     [] OTHER -> conn[c]]
    /\ UNCHANGED <<detection, signalled, listener, asked, doc, late>>

-----------------------------------------------------------------------------
(* Start.                                                                  *)

Load ==
    /\ phase = "load"
    /\ ValidImport(cfg.settings)
    /\ phase' = "detect"
    /\ UNCHANGED <<detection, signalled, listener, requests, late, exit>>

LoadFails == phase = "load" /\ ~ValidImport(cfg.settings) /\ End("failed")

Asking == phase = "detect" /\ Len(answered) < Len(cfg.apis)
api == cfg.apis[Len(answered) + 1]

(* A provider that publishes no list is not asked.                         *)
Skip ==
    /\ Asking /\ api = "other"
    /\ answered' = Append(answered, NoTable)
    /\ UNCHANGED <<phase, cfg, expired, table, rates, signalled, listener, requests, late, exit>>

(* Slip: the first provider to name a model is believed.                   *)
FetchAnswersFirst(list) ==
    /\ Asking /\ api # "other" /\ ~expired
    /\ answered' = Append(answered, RatesOf(api, list))
    /\ table' = Merged(table, RatesOf(api, list))
    /\ UNCHANGED <<phase, cfg, expired, rates, signalled, listener, requests, late, exit>>

(* A later list has the last word on the IDs that it names.                *)
FetchAnswers(list) ==
    /\ Asking /\ api # "other" /\ ~expired
    /\ answered' = Append(answered, RatesOf(api, list))
    /\ table' = Merged(RatesOf(api, list), table)
    /\ UNCHANGED <<phase, cfg, expired, rates, signalled, listener, requests, late, exit>>

(* Slip: the fetch under way is not bound to the deadline.                 *)
FetchFailsUnbound ==
    /\ Asking /\ api # "other" /\ ~expired
    /\ answered' = Append(answered, NoTable)
    /\ UNCHANGED <<phase, cfg, expired, table, rates, signalled, listener, requests, late, exit>>

FetchFails ==
    /\ Asking /\ api # "other"
    /\ answered' = Append(answered, NoTable)
    /\ UNCHANGED <<phase, cfg, expired, table, rates, signalled, listener, requests, late, exit>>

(* The one deadline of all providers: the fetch under way fails, and every *)
(* fetch after it.                                                         *)
DeadlinePasses ==
    /\ phase = "detect" /\ ~expired
    /\ expired' = TRUE
    /\ UNCHANGED <<phase, cfg, answered, table, rates, signalled, listener, requests, late, exit>>
FetchExpires == expired /\ FetchFails

(* SetRates, NotifyContext, and the goroutine of the listener.             *)
StartServing ==
    /\ phase = "detect" /\ Len(answered) = Len(cfg.apis)
    /\ phase' = "serve"
    /\ rates' = table
    /\ listener' = "starting"
    /\ UNCHANGED <<cfg, expired, answered, table, signalled, requests, late, exit>>

-----------------------------------------------------------------------------
(* Signals and the listener.                                               *)

(* Before NotifyContext a signal kills; after the first one they are lost. *)
SignalKills == phase \in {"load", "detect"} /\ End("killed")

Signal ==
    /\ phase = "serve" /\ ~signalled
    /\ signalled' = TRUE
    /\ UNCHANGED <<phase, detection, listener, requests, late, exit>>

Listen(result) ==
    /\ phase = "serve"
    /\ \/ listener = "starting" /\ result \in {"open", "failed"}
       \/ listener = "open" /\ result = "failed"
    /\ listener' = result
    /\ UNCHANGED <<phase, detection, signalled, requests, late, exit>>

(* The select in run takes either of its cases when both are ready.        *)
ListenerEnds == phase = "serve" /\ listener = "failed" /\ End("failed")

BeginShutdown ==
    /\ phase = "serve" /\ signalled
    /\ phase' = "drain"
    /\ listener' = IF listener = "failed" THEN "failed" ELSE "closed"
    /\ UNCHANGED <<detection, signalled, requests, late, exit>>

-----------------------------------------------------------------------------
(* Connections.                                                            *)
Serving == phase \in {"serve", "drain"}

Connect(c) ==
    /\ Serving /\ listener = "open" /\ conn[c] = "none"
    /\ conn' = [conn EXCEPT ![c] = "new"]
    /\ UNCHANGED <<phase, detection, signalled, listener, asked, doc, late, exit>>

(* A connection that is open is served once more even during shutdown.     *)
Request(c, what) ==
    /\ Serving /\ conn[c] \in {"new", "idle"}
    /\ conn' = [conn EXCEPT ![c] = "active"]
    /\ asked' = [asked EXCEPT ![c] = what]
    /\ UNCHANGED <<phase, detection, signalled, listener, doc, late, exit>>

(* The handler returns; the answer to a bootstrap request is its document, *)
(* from the rates of that moment.                                          *)
Answer(c) ==
    /\ Serving /\ conn[c] = "active"
    /\ conn' = [conn EXCEPT ![c] = IF phase = "drain" THEN "closed" ELSE "idle"]
    /\ asked' = [asked EXCEPT ![c] = Message]
    /\ doc' = IF asked[c] = Message THEN doc
              ELSE [doc EXCEPT ![c] = [origin |-> asked[c],
                                       keys |-> Document(cfg, asked[c], rates)]]
    /\ UNCHANGED <<phase, detection, signalled, listener, late, exit>>

(* The client leaves.  A handler that is under way finds out later.        *)
HangUp(c) ==
    /\ Serving /\ conn[c] \in {"new", "idle", "active"}
    /\ conn' = [conn EXCEPT ![c] = IF @ = "active" THEN "left" ELSE "closed"]
    /\ asked' = [asked EXCEPT ![c] = Message]
    /\ UNCHANGED <<phase, detection, signalled, listener, doc, late, exit>>
HandlerReturns(c) ==
    /\ Serving /\ conn[c] = "left"
    /\ conn' = [conn EXCEPT ![c] = "closed"]
    /\ UNCHANGED <<phase, detection, signalled, listener, asked, doc, late, exit>>

(* The server closes a connection without a request: one whose first       *)
(* request does not come in time, and in a shutdown any idle one.          *)
Drop(c) ==
    /\ Serving
    /\ \/ conn[c] = "new"
       \/ conn[c] = "idle" /\ phase = "drain"
    /\ conn' = [conn EXCEPT ![c] = "closed"]
    /\ UNCHANGED <<phase, detection, signalled, listener, asked, doc, late, exit>>

-----------------------------------------------------------------------------
(* Shutdown.                                                               *)

(* Slip: the process ends well without waiting for its connections.        *)
ShutdownReturnsAtOnce == phase = "drain" /\ End("clean")

ShutdownReturns ==
    /\ phase = "drain"
    /\ \A c \in Conns : conn[c] \notin Served
    /\ End("clean")

(* Slip: the shutdown has no deadline.                                     *)
GraceWithoutLimit == phase = "drain" /\ ~late /\ UNCHANGED vars

GracePasses ==
    /\ phase = "drain" /\ ~late
    /\ late' = TRUE
    /\ UNCHANGED <<phase, detection, signalled, listener, requests, exit>>

ShutdownFails == phase = "drain" /\ late /\ End("failed")

ConnStep(c) ==
    \/ Connect(c) \/ Answer(c) \/ HangUp(c) \/ HandlerReturns(c) \/ Drop(c)
    \/ \E what \in Origins \cup {Message} : Request(c, what)

Next ==
    \/ Load \/ LoadFails
    \/ Skip \/ FetchFails \/ DeadlinePasses
    \/ \E list \in Lists : FetchAnswers(list)
    \/ StartServing
    \/ SignalKills \/ Signal
    \/ \E result \in {"open", "failed"} : Listen(result)
    \/ ListenerEnds \/ BeginShutdown
    \/ \E c \in Conns : ConnStep(c)
    \/ ShutdownReturns \/ GracePasses \/ ShutdownFails

Spec == Init /\ [][Next]_vars

(* What the process does by itself; no provider has to answer, no client   *)
(* has to leave, no handler has to return, and no listener to open or to   *)
(* fail.                                                                   *)
Fairness ==
    /\ WF_vars(Load) /\ WF_vars(LoadFails)
    /\ WF_vars(Skip) /\ WF_vars(DeadlinePasses) /\ WF_vars(FetchExpires)
    /\ WF_vars(StartServing) /\ WF_vars(ListenerEnds)
    /\ WF_vars(BeginShutdown) /\ WF_vars(GracePasses) /\ WF_vars(ShutdownFails)

FairSpec == Spec /\ Fairness
-----------------------------------------------------------------------------
(* Properties.                                                             *)

(* Every variable has its type.                                            *)
TypeOK ==
    /\ phase \in {"load", "detect", "serve", "drain", "ended"}
    /\ cfg \in Configs
    /\ expired \in BOOLEAN /\ signalled \in BOOLEAN /\ late \in BOOLEAN
    /\ answered \in Seq(Tables \cup {NoTable}) /\ Len(answered) <= Len(cfg.apis)
    /\ table \in Tables
    /\ rates \in Tables
    /\ listener \in {"none", "starting", "open", "closed", "failed"}
    /\ conn \in [Conns -> ConnStates]
    /\ asked \in [Conns -> Origins \cup {Message}]
    /\ doc = [c \in Conns |-> doc[c]]
    /\ exit \in {"none", "clean", "failed", "killed"}

(* main.go:79-89: no client loses a reply to a process that ends well, and *)
(* none loses it at all but to the end of the grace period or the failure  *)
(* of the listener; a signal alone never does it.                          *)
RepliesAreCutOnlyLate ==
    (\E c \in Conns : conn[c] = "cut") =>
        exit = "failed" /\ (late \/ listener = "failed")

(* The providers that named a model in their list, of those asked.         *)
Listing(id) == {i \in 1 .. Len(answered) : answered[i] # NoTable /\ answered[i][id] # NoRate}

(* Every document, whenever and however often it is fetched, has the rates *)
(* of a detection that is over: for each model those of the last provider  *)
(* that named it, and nothing of providers that did not answer in time.    *)
FinalTable ==
    [id \in Ids |-> IF Listing(id) = {} THEN NoRate ELSE answered[Last(Listing(id))][id]]
ServedPricesAreFinal ==
    \A c \in Conns :
        doc[c] # NoDoc =>
            /\ Len(answered) = Len(cfg.apis)
            /\ doc[c].keys = Document(cfg, doc[c].origin, FinalTable)

(* bootstrap.go:93: the rows that the gateway works out are such that the  *)
(* client accepts the key: for advertised models, finite and in range,     *)
(* whatever the providers wrote for a price.                               *)
RowsAreAcceptable ==
    \A c \in Conns :
        /\ doc[c] # NoDoc
        /\ "inferenceModelPricing" \in DOMAIN doc[c].keys \ Names(cfg.settings)
        => LET rows == doc[c].keys["inferenceModelPricing"]
           IN  /\ DOMAIN rows # {}
               /\ DOMAIN rows \subseteq {cfg.models[i].alias : i \in 1 .. Len(cfg.models)}
               /\ \A a \in DOMAIN rows, k \in Kinds :
                      /\ rows[a][k].finite
                      /\ 0 <= rows[a][k].value /\ rows[a][k].value <= MaxRate

(* What validate has checked is what clients get, as long as the overlay   *)
(* names nothing twice and gives each setting its shape: an import with    *)
(* its endpoint whole, and models that prefer their long context where the *)
(* setting beside them says so.                                            *)
NamedOnce(settings) == \A n \in Names(settings) : \E i \in 1 .. Len(settings) : Named(settings, n) = {i}
EntryOf(object, name) == IF name \in DOMAIN object THEN object[name] ELSE ""
ImportServed(value) == WholeImport([n \in Endpoint \cup {"bannerBehavior"} |-> EntryOf(value, n)])
SettingsAreServedAsChecked ==
    \A c \in Conns :
        /\ doc[c] # NoDoc
        /\ NamedOnce(cfg.settings)
        /\ \A i \in 1 .. Len(cfg.settings) :
               /\ NamedOnce(cfg.settings[i].children) /\ ~IsList(cfg.settings[i])
               /\ cfg.settings[i].name = "claudeAiImport" => cfg.settings[i].children # << >>
               /\ cfg.settings[i].name = "modelPrefer1mContext" => cfg.settings[i].children = << >>
        => LET keys == doc[c].keys
           IN  /\ "claudeAiImport" \in DOMAIN keys => ImportServed(keys["claudeAiImport"])
               /\ "inferenceModels" \notin Names(cfg.settings) =>
                      \A i \in 1 .. Len(cfg.models) :
                          keys["inferenceModels"][i].preferOneM =
                              (/\ cfg.models[i].oneM
                               /\ EntryOf(keys, "modelPrefer1mContext") = "true")

(* main.go:121: whatever the providers do, the gateway gets to serve, or   *)
(* has ended for another reason.                                           *)
StartsWhateverProvidersDo == <>(phase \in {"serve", "drain", "ended"})

(* A process that is told to stop does, whatever its clients and handlers  *)
(* do.                                                                     *)
StopsWhenTold == signalled ~> phase = "ended"

(* The promise to clients, in the terms of Service.                        *)
Mode ==
    CASE phase \in {"load", "detect"} -> "down"
      [] phase \in {"serve", "drain"} -> "up"
      [] phase = "ended" -> IF exit = "clean" THEN "clean" ELSE "failed"
Waiting == {c \in Conns : conn[c] = "active"}
Cut == {c \in Conns : conn[c] = "cut"}
Promised == INSTANCE Service WITH mode <- Mode, waiting <- Waiting, cut <- Cut
ImplementsService == Promised!Spec
=============================================================================
