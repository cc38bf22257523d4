---------------------------- MODULE CatalogProofs ---------------------------
(***************************************************************************)
(* Theorems about Catalog for any names, providers, environments and       *)
(* configurations.                                                         *)
(***************************************************************************)
EXTENDS Catalog, TLAPS

(* The aliases of the models validated so far are the ones seen, no two of *)
(* them are equal, and a gateway that serves has validated all.            *)
Validated(n) == {i \in Models : i < n}

AliasesDistinct ==
    \A i, j \in Validated(at) : Encode(IdOf(i)) = Encode(IdOf(j)) => i = j

AliasesSeen == seen = {Encode(IdOf(i)) : i \in Validated(at)}

Remembered == \A e \in learned : e.id = Encode(e.model)

IInv ==
    /\ TypeOK
    /\ pc = "expand" => at = 1 /\ kept = {} /\ seen = {}
    /\ pc \in {"validate", "running"} => AliasesDistinct /\ AliasesSeen
    /\ pc = "running" => at = Len(doc.models) + 1
    /\ Remembered

(* Encoding gives an ID that the screen admits, Decode takes it back, and  *)
(* what ends in a marker has been left as it is.                           *)
LEMMA EncodeId ==
  ASSUME NEW id \in UpstreamIds
  PROVE  /\ Encode(id) \in Ids
         /\ Accepts(Encode(id))
         /\ Decode(Encode(id)) = id
         /\ Encode(id).marks # 0 => Encode(id) = id
         /\ ~Encode(id).hex => Encode(id) = id
  BY DEF UpstreamIds, Ids, Encode, Decode, Accepts

(* A marker that is added is the one stripped.                             *)
LEMMA MarkerStripped ==
  ASSUME NEW id \in Ids
  PROVE  SplitOneM(WithOneM(id)) = id
<1>1. PICK n \in Names, h \in BOOLEAN, k \in Nat, l \in Nat :
        id = [name |-> n, hex |-> h, inner |-> k, marks |-> l]
  BY DEF Ids
<1>2. WithOneM(id) = [name |-> n, hex |-> h, inner |-> k, marks |-> l + 1]
  BY <1>1 DEF WithOneM
<1>3. l + 1 # 0 /\ (l + 1) - 1 = l
  OBVIOUS
<1>4. SplitOneM(WithOneM(id)) = [name |-> n, hex |-> h, inner |-> k, marks |-> (l + 1) - 1]
  BY <1>2, <1>3 DEF SplitOneM
<1> QED
  BY <1>1, <1>3, <1>4

(* Without a marker nothing is stripped.                                   *)
LEMMA Unmarked ==
  ASSUME NEW id \in Ids, id.marks = 0
  PROVE  SplitOneM(id) = id
  BY DEF SplitOneM

(* Every configured model has an upstream's ID.                            *)
LEMMA ConfiguredIds ==
  ASSUME doc \in Documents, NEW i \in Models
  PROVE  i \in 1 .. Len(doc.models) /\ IdOf(i) \in UpstreamIds
<1>1. i \in 1 .. Len(doc.models)
  BY DEF Models
<1>2. doc.models \in Seq(Model)
  BY DocumentsAssumption DEF Document
<1>3. doc.models[i] \in Model
  BY <1>1, <1>2
<1> QED
  BY <1>1, <1>3 DEF IdOf, Model

(* The invariant holds when the process has read its document.             *)
LEMMA InitEstablishes == Init => IInv
<1> SUFFICES ASSUME Init PROVE IInv
  OBVIOUS
<1>1. Len(doc.models) \in Nat
  BY DocumentsAssumption DEF Init, Document
<1> QED
  BY <1>1 DEF Init, IInv, TypeOK, Remembered

(* Every step keeps it: the loop adds one alias to those seen, and only if *)
(* it is new.                                                              *)
LEMMA StepPreserves == IInv /\ [Next]_vars => IInv'
<1> SUFFICES ASSUME IInv, [Next]_vars PROVE IInv'
  OBVIOUS
<1> USE DEF IInv
<1>0. Len(doc.models) \in Nat /\ doc.models \in Seq(Model) /\ at \in Nat
  BY DocumentsAssumption DEF TypeOK, Document
<1>1. CASE Expand
  <2>1. TypeOK'
    <3>1. doc.providers \subseteq Providers
      BY DocumentsAssumption DEF TypeOK, Document
    <3> QED
      BY <1>1, <3>1 DEF Expand, TypeOK
  <2>2. ASSUME pc' = "validate" PROVE Validated(at)' = {} /\ seen' = {}
    BY <1>1, <2>2 DEF Expand, Validated, Models
  <2>3. (pc' = "validate") => AliasesDistinct' /\ AliasesSeen'
    BY <2>2 DEF AliasesDistinct, AliasesSeen
  <2> QED
    BY <1>1, <2>1, <2>3 DEF Expand, Remembered
<1>2. CASE Refuse
  BY <1>2 DEF Refuse, TypeOK, Remembered
<1>3. CASE ValidateModel
  <2>1. at' = at + 1 /\ at \in 1 .. Len(doc.models)
    BY <1>0, <1>3 DEF ValidateModel, TypeOK
  <2>2. UNCHANGED <<doc, env, kept, learned>> /\ pc = "validate"
    BY <1>3 DEF ValidateModel
  <2>3. AliasesDistinct /\ AliasesSeen
    BY <2>2
  <2>4. pc' \in {"validate", "failed"}
    BY <1>3 DEF ValidateModel
  <2>5. CASE at \notin Models
    <3>1. Validated(at)' = Validated(at) /\ seen' = seen
      BY <1>0, <1>3, <2>1, <2>2, <2>5 DEF ValidateModel, Validated, Models
    <3>2. AliasesDistinct' /\ AliasesSeen'
      BY <2>2, <2>3, <3>1 DEF AliasesDistinct, AliasesSeen, IdOf
    <3> QED
      BY <1>0, <2>1, <2>2, <2>4, <3>1, <3>2 DEF TypeOK, Remembered
  <2>6. CASE at \in Models /\ pc' = "failed"
    <3>1. seen' = seen
      BY <1>3, <2>2, <2>6 DEF ValidateModel
    <3> QED
      BY <1>0, <2>1, <2>2, <2>6, <3>1 DEF TypeOK, Remembered
  <2>7. CASE at \in Models /\ pc' # "failed"
    <3>1. Encode(IdOf(at)) \notin seen /\ seen' = seen \cup {Encode(IdOf(at))}
      BY <1>3, <2>2, <2>7 DEF ValidateModel
    <3>2. Validated(at)' = Validated(at) \cup {at}
      BY <1>0, <2>1, <2>2, <2>7 DEF Validated, Models
    <3>3. \A i : (Encode(IdOf(i)))' = Encode(IdOf(i))
      BY <2>2 DEF IdOf
    <3>4. AliasesSeen'
      BY <2>3, <3>1, <3>2, <3>3 DEF AliasesSeen
    <3>5. AliasesDistinct'
      BY <2>3, <3>1, <3>2, <3>3 DEF AliasesDistinct, AliasesSeen
    <3>6. seen' \subseteq Ids
      BY <2>2, <2>7, <3>1, ConfiguredIds, EncodeId DEF TypeOK
    <3> QED
      BY <1>0, <2>1, <2>2, <2>4, <3>4, <3>5, <3>6 DEF TypeOK, Remembered
  <2> QED
    BY <2>5, <2>6, <2>7
<1>4. CASE Serve
  <2>1. at = Len(doc.models) + 1
    BY <1>0, <1>4 DEF Serve, TypeOK
  <2>2. UNCHANGED <<doc, env, kept, at, seen, learned>> /\ pc = "validate" /\ pc' = "running"
    BY <1>4 DEF Serve
  <2>3. AliasesDistinct' /\ AliasesSeen'
    BY <2>2 DEF AliasesDistinct, AliasesSeen, Validated, Models, IdOf
  <2> QED
    BY <2>1, <2>2, <2>3 DEF TypeOK, Remembered
<1>5. CASE Discover
  <2>1. UNCHANGED <<pc, doc, env, kept, at, seen>> /\ pc = "running"
    BY <1>5 DEF Discover
  <2>2. AliasesDistinct' /\ AliasesSeen'
    BY <2>1 DEF AliasesDistinct, AliasesSeen, Validated, Models, IdOf
  <2>3. learned' \in SUBSET [id : Ids, model : UpstreamIds]
    <3>1. \A i \in Models : IdOf(i) \in UpstreamIds /\ Encode(IdOf(i)) \in Ids
      BY ConfiguredIds, EncodeId DEF TypeOK
    <3> QED
      BY <1>5, <3>1 DEF Discover, TypeOK
  <2>4. Remembered'
    BY <1>5 DEF Discover, Remembered
  <2> QED
    BY <2>1, <2>2, <2>3, <2>4 DEF TypeOK
<1>6. CASE Restart
  <2>1. doc' \in Documents /\ env' \in SUBSET Variables
    BY <1>6 DEF Restart, Start
  <2>2. Len(doc'.models) \in Nat
    BY <2>1, DocumentsAssumption DEF Document
  <2>3. pc' = "expand" /\ kept' = {} /\ at' = 1 /\ seen' = {} /\ learned' = learned
    BY <1>6 DEF Restart, Start
  <2> QED
    BY <2>1, <2>2, <2>3 DEF TypeOK, Remembered
<1>7. CASE UNCHANGED vars
  BY <1>7 DEF vars, TypeOK, AliasesDistinct, AliasesSeen, Validated, Models, IdOf, Remembered
<1> QED
  BY <1>1, <1>2, <1>3, <1>4, <1>5, <1>6, <1>7 DEF Next

(* The invariant holds throughout.                                         *)
THEOREM Invariant == Spec => []IInv
  BY InitEstablishes, StepPreserves, PTL DEF Spec

(* Catalogue, loop and memory keep their types.                            *)
THEOREM TypeCorrect == Spec => []TypeOK
  BY Invariant, PTL DEF IInv

(* No two models of a gateway that serves advertise one ID.                *)
LEMMA ServedAliasesDiffer ==
  ASSUME IInv, pc = "running", NEW i \in Models, NEW j \in Models,
         Encode(IdOf(i)) = Encode(IdOf(j))
  PROVE  i = j
<1>1. i < at /\ j < at
  BY DocumentsAssumption DEF IInv, TypeOK, Models, Document
<1> QED
  BY <1>1 DEF IInv, AliasesDistinct, Validated

(* An ID whose base decodes to a model's own, or is its alias, and matches *)
(* no other model, resolves to that model.                                 *)
LEMMA OneMatch ==
  ASSUME IInv, pc = "running", NEW i \in Models, NEW id \in Ids,
         \/ SplitOneM(id) = Encode(IdOf(i))
         \/ SplitOneM(id) = IdOf(i)
  PROVE  ResolvesTo(id, i)
<1> DEFINE m == IdOf(i)
<1>1. \A j \in Models : j \in Nat /\ IdOf(j) \in UpstreamIds
  BY ConfiguredIds DEF IInv, TypeOK
<1>2. m \in UpstreamIds /\ Decode(m) = m
  BY <1>1 DEF UpstreamIds, Ids, Decode
<1>3. Matches(i, id)
  BY <1>2, EncodeId DEF Matches
<1>4. ASSUME NEW j \in Models, Matches(j, id) PROVE j = i
  <2>1. CASE SplitOneM(id) = Encode(m)
    <3>1. IdOf(j) = m \/ Encode(IdOf(j)) = Encode(m)
      BY <1>2, <1>4, <2>1, EncodeId DEF Matches
    <3> QED
      BY <3>1, ServedAliasesDiffer
  <2>2. CASE SplitOneM(id) = m
    <3>1. IdOf(j) = m \/ Encode(IdOf(j)) = m
      BY <1>2, <1>4, <2>2 DEF Matches
    <3>2. Encode(IdOf(j)) = m => IdOf(j) = m
      BY <1>1, <1>2, EncodeId
    <3> QED
      BY <3>1, <3>2, ServedAliasesDiffer
  <2> QED
    BY <2>1, <2>2
<1> QED
  BY <1>1, <1>3, <1>4 DEF ResolvesTo

(* A gateway that serves can be asked for every model it advertises, by    *)
(* its alias or by its own ID with a marker added, and without one if      *)
(* there is none in it.                                                    *)
THEOREM ModelsAreReached == Spec => []EveryModelIsReached
<1>1. IInv => EveryModelIsReached
  <2> SUFFICES ASSUME IInv, pc = "running", NEW i \in Models,
                      NEW id \in {Encode(IdOf(i)), IdOf(i)}
               PROVE  /\ ResolvesTo(WithOneM(id), i)
                      /\ id.marks = 0 => ResolvesTo(id, i)
    BY DEF EveryModelIsReached
  <2>1. IdOf(i) \in UpstreamIds /\ IdOf(i) \in Ids
    BY ConfiguredIds DEF IInv, TypeOK, UpstreamIds
  <2>2. id \in Ids /\ WithOneM(id) \in Ids
    BY <2>1, EncodeId DEF WithOneM, Ids
  <2>3. ResolvesTo(WithOneM(id), i)
    BY <2>2, MarkerStripped, OneMatch
  <2>4. ASSUME id.marks = 0 PROVE ResolvesTo(id, i)
    BY <2>2, <2>4, Unmarked, OneMatch
  <2> QED
    BY <2>3, <2>4
<1> QED
  BY <1>1, Invariant, PTL

(* What Claude Desktop has learned means one model for good, that of its   *)
(* own unless it ends in a marker.                                         *)
THEOREM LearnedIdsAreKept == Spec => []LearnedIdsMeanOneModel
<1>1. IInv => LearnedIdsMeanOneModel
  <2> SUFFICES ASSUME IInv, pc = "running", NEW e \in learned, NEW i \in Models,
                      ResolvesTo(e.id, i)
               PROVE  IdOf(i) = IF e.id.marks = 0 THEN e.model ELSE SplitOneM(e.id)
    BY DEF LearnedIdsMeanOneModel
  <2>1. e.model \in UpstreamIds /\ e.id \in Ids /\ e.id = Encode(e.model)
    BY DEF IInv, TypeOK, Remembered
  <2>2. IdOf(i) \in UpstreamIds
    BY ConfiguredIds DEF IInv, TypeOK
  <2>3. \/ IdOf(i) = Decode(SplitOneM(e.id))
        \/ Encode(IdOf(i)) = SplitOneM(e.id)
    BY DEF ResolvesTo, Matches
  <2>4. CASE e.id.marks = 0
    <3>1. SplitOneM(e.id) = e.id /\ Decode(e.id) = e.model
      BY <2>1, <2>4, EncodeId, Unmarked
    <3>2. IdOf(i) = e.model \/ Encode(IdOf(i)) = Encode(e.model)
      BY <2>1, <2>3, <3>1
    <3> QED
      BY <2>1, <2>2, <2>4, <3>2, EncodeId
  <2>5. CASE e.id.marks # 0
    <3>1. e.id = e.model /\ ~e.id.hex
      BY <2>1, <2>5, EncodeId DEF UpstreamIds
    <3>2. ~SplitOneM(e.id).hex /\ Decode(SplitOneM(e.id)) = SplitOneM(e.id)
      BY <2>1, <3>1 DEF SplitOneM, Decode, Ids
    <3> QED
      BY <2>2, <2>3, <2>5, <3>2, EncodeId
  <2> QED
    BY <2>4, <2>5
<1> QED
  BY <1>1, Invariant, PTL
=============================================================================
