------------------------------ MODULE Catalog -------------------------------
(***************************************************************************)
(* Which models the gateway serves and under which IDs: config.go from the *)
(* environment to a validated catalogue, the IDs alias.go advertises, and  *)
(* Resolve, which takes them back.  Claude Desktop remembers the IDs it    *)
(* has discovered while the gateway is restarted with another environment  *)
(* or another configuration.                                               *)
(*                                                                         *)
(* An ID is a name, or the hex form of a name, with any number of [1m]     *)
(* markers after it; a hex form may hold markers of its own.  Configured   *)
(* IDs are names of upstream models and never themselves a hex form.       *)
(***************************************************************************)
EXTENDS Naturals, Sequences

CONSTANTS
    Names,      \* names of upstream models
    Accepted,   \* those that Claude Desktop's screen admits
    Providers,
    Variables,  \* environment variables
    Documents   \* configurations an operator may start the gateway with

ASSUME NamesAssumption == Accepted \subseteq Names

Ids == [name : Names, hex : BOOLEAN, inner : Nat, marks : Nat]
UpstreamIds == {id \in Ids : ~id.hex /\ id.inner = 0}

(* sound FALSE: an attribute that validateModel refuses.  server and needs *)
(* are the variables that the server and a provider refer to; listen is    *)
(* whether it names an address; sound providers are those whose attributes *)
(* validate accepts.                                                       *)
Model == [provider : Providers, id : UpstreamIds, sound : BOOLEAN]
Document == [server : SUBSET Variables, listen : BOOLEAN,
             providers : SUBSET Providers, sound : SUBSET Providers,
             needs : [Providers -> SUBSET Variables], models : Seq(Model)]

ASSUME DocumentsAssumption ==
    \A d \in Documents :
        /\ d \in Document
        /\ \A i \in 1 .. Len(d.models) : d.models[i].provider \in d.providers

VARIABLES
    pc,       \* "expand", "validate", "running" or "failed"
    doc,      \* the document the process has read
    env,      \* its environment
    kept,     \* providers not skipped
    at,       \* the model validateModel looks at next
    seen,     \* seenAlias
    learned   \* what Claude Desktop remembers: IDs and the models behind them

vars == <<pc, doc, env, kept, at, seen, learned>>

-----------------------------------------------------------------------------
(* alias.go.                                                               *)

(* A hex form starts with claude-lc-, and [1m] neither adds nor takes away *)
(* what the screen looks for.                                              *)
Accepts(id) == id.hex \/ id.name \in Accepted

(* Slip: the hex form leaves out what follows the name.                    *)
EncodeNameOnly(id) ==
    IF Accepts(id) THEN id
    ELSE [name |-> id.name, hex |-> TRUE, inner |-> 0, marks |-> 0]

Encode(id) ==
    IF Accepts(id) THEN id
    ELSE [name |-> id.name, hex |-> TRUE, inner |-> id.marks, marks |-> 0]

(* A hex form with anything after it is malformed and stays as it is.      *)
Decode(id) ==
    IF id.hex /\ id.marks = 0
    THEN [name |-> id.name, hex |-> FALSE, inner |-> 0, marks |-> id.inner]
    ELSE id

WithOneM(id) == [id EXCEPT !.marks = @ + 1]
SplitOneM(id) == IF id.marks = 0 THEN id ELSE [id EXCEPT !.marks = @ - 1]

-----------------------------------------------------------------------------
(* The catalogue.                                                          *)

IdOf(i) == doc.models[i].id

(* Models: the models of the providers kept, in document order.            *)
Models == {i \in 1 .. Len(doc.models) : doc.models[i].provider \in kept}

Matches(i, id) ==
    LET base == SplitOneM(id)
    IN  IdOf(i) = Decode(base) \/ Encode(IdOf(i)) = base

(* Resolve returns the first match.                                        *)
ResolvesTo(id, i) ==
    /\ i \in Models
    /\ Matches(i, id)
    /\ \A j \in Models : Matches(j, id) => i <= j

Start(d, e) ==
    /\ pc' = "expand"
    /\ doc' = d
    /\ env' = e
    /\ kept' = {}
    /\ at' = 1
    /\ seen' = {}

Init ==
    /\ pc = "expand"
    /\ doc \in Documents
    /\ env \in SUBSET Variables
    /\ kept = {}
    /\ at = 1
    /\ seen = {}
    /\ learned = {}

(* An unset variable of the server ends the start, one of a provider costs *)
(* that provider.                                                          *)
Expand ==
    /\ pc = "expand"
    /\ IF doc.server \subseteq env
       THEN /\ pc' = "validate"
            /\ kept' = {p \in doc.providers : doc.needs[p] \subseteq env}
       ELSE pc' = "failed" /\ UNCHANGED kept
    /\ UNCHANGED <<doc, env, at, seen, learned>>

(* What validate refuses in the server and the providers kept.             *)
Refused ==
    \/ ~doc.listen
    \/ kept = {}
    \/ \E p \in kept :
          p \notin doc.sound \/ ~\E i \in Models : doc.models[i].provider = p

Refuse ==
    /\ pc = "validate" /\ Refused
    /\ pc' = "failed"
    /\ UNCHANGED <<doc, env, kept, at, seen, learned>>

(* Slip: the aliases looked at are not remembered.                         *)
ValidateModelForgetting ==
    /\ pc = "validate" /\ at <= Len(doc.models)
    /\ at' = at + 1
    /\ IF at \in Models /\ ~doc.models[at].sound
       THEN pc' = "failed" ELSE UNCHANGED pc
    /\ UNCHANGED <<doc, env, kept, seen, learned>>

(* Slip: the loop runs one model too far.                                  *)
ValidateModelPastTheEnd ==
    /\ pc = "validate"
    /\ at' = at + 1
    /\ UNCHANGED <<pc, doc, env, kept, seen, learned>>

(* A model of a skipped provider is not there to be looked at.             *)
ValidateModel ==
    /\ pc = "validate" /\ at <= Len(doc.models)
    /\ at' = at + 1
    /\ IF at \notin Models
       THEN UNCHANGED <<pc, seen>>
       ELSE IF ~doc.models[at].sound \/ Encode(IdOf(at)) \in seen
       THEN pc' = "failed" /\ UNCHANGED seen
       ELSE seen' = seen \cup {Encode(IdOf(at))} /\ UNCHANGED pc
    /\ UNCHANGED <<doc, env, kept, learned>>

Serve ==
    /\ pc = "validate" /\ at > Len(doc.models) /\ ~Refused
    /\ pc' = "running"
    /\ UNCHANGED <<doc, env, kept, at, seen, learned>>

(* handleModels: discovery.                                                *)
Discover ==
    /\ pc = "running"
    /\ learned' = learned \cup {[id |-> Encode(IdOf(i)), model |-> IdOf(i)] : i \in Models}
    /\ UNCHANGED <<pc, doc, env, kept, at, seen>>

Restart ==
    /\ \E d \in Documents, e \in SUBSET Variables : Start(d, e)
    /\ UNCHANGED learned

Next == Expand \/ Refuse \/ ValidateModel \/ Serve \/ Discover \/ Restart

Spec == Init /\ [][Next]_vars

-----------------------------------------------------------------------------
(* Properties.                                                             *)

(* Every variable has its type.                                            *)
TypeOK ==
    /\ pc \in {"expand", "validate", "running", "failed"}
    /\ doc \in Documents
    /\ env \in SUBSET Variables
    /\ kept \in SUBSET Providers
    /\ at \in 1 .. Len(doc.models) + 1
    /\ seen \in SUBSET Ids
    /\ learned \in SUBSET [id : Ids, model : UpstreamIds]

(* Once the gateway serves, what it advertises for a model resolves to     *)
(* that model and no other with a [1m] marker added, and so does the       *)
(* upstream's ID; and as it stands either does if it has no marker of its  *)
(* own, which would be taken for an added one and lead elsewhere.          *)
EveryModelIsReached ==
    pc = "running" =>
        \A i \in Models :
            \A id \in {Encode(IdOf(i)), IdOf(i)} :
                /\ ResolvesTo(WithOneM(id), i)
                /\ id.marks = 0 => ResolvesTo(id, i)

(* An ID that Claude Desktop has learned means one model for good,         *)
(* whatever configurations and environments follow: the model it was       *)
(* learned for; but if it ends in [1m], the model it names without that,   *)
(* which is another.                                                       *)
LearnedIdsMeanOneModel ==
    pc = "running" =>
        \A e \in learned, i \in Models :
            ResolvesTo(e.id, i) =>
                IdOf(i) = IF e.id.marks = 0 THEN e.model ELSE SplitOneM(e.id)
=============================================================================
