------------------------- MODULE StreamClientProofs -------------------------
(***************************************************************************)
(* What a client puts together of a translated stream is what the upstream *)
(* sent, for any chunks, any number of them and any tool calls.            *)
(***************************************************************************)
EXTENDS StreamClient, StreamProofs, SequenceLemmas

(* The events that start a block and those that fill one.                  *)
StartEvents ==
    [name : {"content_block_start"}, index : Nat, typ : Types, call : Calls \cup {NoCall}]
DeltaEvents == [name : {"content_block_delta"}, index : Nat, piece : Pieces]

OfName(name) == [e \in Events |-> IF e.name = name THEN <<e>> ELSE << >>]

(* The events of a name are those that OfName keeps.                       *)
LEMMA NamedMap ==
    ASSUME NEW s \in Seq(Events), NEW name
    PROVE  FlattenSeq([i \in 1 .. Len(s) |-> IF s[i].name = name THEN <<s[i]>> ELSE << >>])
           = FlatMap(s, OfName(name))
<1>1. \A i \in 1 .. Len(s) : s[i] \in Events
  BY ElementOfSeq
<1>2. [i \in 1 .. Len(s) |-> IF s[i].name = name THEN <<s[i]>> ELSE << >>]
      = [i \in 1 .. Len(s) |-> OfName(name)[s[i]]]
  BY <1>1 DEF OfName
<1> QED BY <1>2 DEF FlatMap

(* They are of the shape that goes with the name.                          *)
LEMMA NamedType ==
    ASSUME NEW s \in Seq(Events)
    PROVE  /\ \A name : FlatMap(s, OfName(name)) \in Seq(Events)
           /\ FlatMap(s, OfName("content_block_start")) \in Seq(StartEvents)
           /\ FlatMap(s, OfName("content_block_delta")) \in Seq(DeltaEvents)
<1>1. ASSUME NEW name PROVE OfName(name) \in [Events -> Seq(Events)]
  BY DEF OfName
<1>2. ASSUME NEW e \in Events
      PROVE  /\ e.name = "content_block_start" => e \in StartEvents
             /\ e.name = "content_block_delta" => e \in DeltaEvents
  BY SMT DEF Events, StartEvents, DeltaEvents
<1>3. OfName("content_block_start") \in [Events -> Seq(StartEvents)]
  BY <1>2 DEF OfName
<1>4. OfName("content_block_delta") \in [Events -> Seq(DeltaEvents)]
  BY <1>2 DEF OfName
<1> QED BY <1>1, <1>3, <1>4, FlatMapType

(* An event is added to those of its name.                                 *)
LEMMA EmitNamed ==
    ASSUME out \in Seq(Events), NEW e \in Events, Emit(e), NEW name
    PROVE  Named(name)' = IF e.name = name THEN Append(Named(name), e) ELSE Named(name)
<1> DEFINE G == OfName(name)
<1>1. out' = Append(out, e) /\ out' \in Seq(Events)
  BY AppendProperties DEF Emit
<1>2. Named(name) = FlatMap(out, G) /\ Named(name)' = FlatMap(out', G)
  BY <1>1, NamedMap DEF Named
<1>3. G \in [Events -> Seq(Events)] /\ G[e] = IF e.name = name THEN <<e>> ELSE << >>
  BY DEF OfName
<1> HIDE DEF G
<1>4. FlatMap(out', G) = FlatMap(out, G) \o G[e] /\ FlatMap(out, G) \in Seq(Events)
  BY <1>1, <1>3, FlatMapAppend, FlatMapType, ZenonT(60)
<1>5. /\ FlatMap(out, G) \o <<e>> = Append(FlatMap(out, G), e)
      /\ FlatMap(out, G) \o << >> = FlatMap(out, G)
  BY <1>4, AppendIsConcat, ConcatEmptySeq
<1> QED BY <1>2, <1>3, <1>4, <1>5

(* No event, none of its name.                                             *)
LEMMA SilentNamed == ASSUME UNCHANGED out, NEW name PROVE Named(name)' = Named(name)
BY DEF Named

(* What the client has collected is typed.                                 *)
LEMMA CollectedType ==
    ASSUME TypeOK
    PROVE  /\ Starts \in Seq(StartEvents) /\ Deltas \in Seq(DeltaEvents)
           /\ Len(Starts) \in Nat /\ Len(Deltas) \in Nat
           /\ \A name : Named(name) \in Seq(Events)
<1>1. out \in Seq(Events)
  BY DEF TypeOK
<1>2. \A name : Named(name) = FlatMap(out, OfName(name))
  BY <1>1, NamedMap DEF Named
<1> QED BY <1>1, <1>2, NamedType, LenProperties DEF Starts, Deltas

-----------------------------------------------------------------------------
(* The steps, as a client sees them.                                       *)

Quiet == UNCHANGED <<Starts, Deltas, current, nextIndex, started>>

Opened(typ, call) ==
    /\ Starts' = Append(Starts, [name |-> "content_block_start", index |-> nextIndex,
                                 typ |-> typ, call |-> call])
    /\ current' = [typ |-> typ, index |-> nextIndex]
    /\ nextIndex' = nextIndex + 1
    /\ started' = IF typ = "tool_use" THEN started \cup {call} ELSE started
    /\ call \notin started
    /\ IF typ = "tool_use" THEN call \in Calls ELSE call = NoCall /\ ~InBlock(typ)
    /\ UNCHANGED <<Deltas, pc, read, pending>>

Filled(piece) ==
    /\ Deltas' = Append(Deltas, [name |-> "content_block_delta", index |-> current.index,
                                 piece |-> piece])
    /\ current # NoBlock
    /\ piece.typ # "tool_use" => current.typ = piece.typ
    /\ UNCHANGED <<Starts, current, nextIndex, started>>

(* An event that neither starts nor fills a block.                         *)
LEMMA EmitQuiet ==
    ASSUME out \in Seq(Events), NEW e \in Events, Emit(e),
           e.name \notin {"content_block_start", "content_block_delta"}
    PROVE  UNCHANGED <<Starts, Deltas>>
BY EmitNamed DEF Starts, Deltas

(* No event at all.                                                        *)
LEMMA SilentQuiet == ASSUME UNCHANGED out PROVE UNCHANGED <<Starts, Deltas>>
BY SilentNamed DEF Starts, Deltas

(* Stopping a block leaves what it holds.                                  *)
LEMMA StopBlockQuiet == ASSUME Inv, current # NoBlock, StopBlock PROVE Quiet
<1>1. current.index \in Nat
  BY DEF Inv, TypeOK, Blocks
<1>2. out \in Seq(Events) /\ [name |-> "content_block_stop", index |-> current.index] \in Events
  BY <1>1, BlockEvents DEF Inv, TypeOK
<1> QED BY <1>2, EmitQuiet DEF StopBlock, Quiet

(* A new block either has its predecessor stopped or is opened.            *)
LEMMA OpenBlockKinds ==
    ASSUME Inv, NEW typ \in Types, NEW call \in Calls \cup {NoCall}, OpenBlock(typ, call),
           call \notin started,
           IF typ = "tool_use" THEN call \in Calls ELSE call = NoCall /\ ~InBlock(typ)
    PROVE  (Quiet /\ UNCHANGED <<pc, read, pending>>) \/ Opened(typ, call)
<1>1. CASE current # NoBlock /\ StopBlock
  BY <1>1, StopBlockQuiet DEF StopBlock
<1>2. CASE /\ current = NoBlock \/ stopped
           /\ StartBlock(typ, call)
           /\ started' = IF typ = "tool_use" THEN started \cup {call} ELSE started
  <2> DEFINE e == [name |-> "content_block_start", index |-> nextIndex,
                   typ |-> typ, call |-> call]
  <2>1. out \in Seq(Events) /\ e \in Events /\ Emit(e) /\ e.name = "content_block_start"
    BY <1>2, BlockEvents DEF StartBlock, Inv, TypeOK
  <2> HIDE DEF e
  <2>2. Starts' = Append(Starts, e) /\ Deltas' = Deltas
    BY <2>1, EmitNamed DEF Starts, Deltas
  <2> QED BY <1>2, <2>2 DEF StartBlock, Opened, e
<1> QED BY <1>1, <1>2 DEF OpenBlock

(* Filling the current block.                                              *)
LEMMA FillBlockKinds ==
    ASSUME Inv, current # NoBlock, NEW piece \in Pieces, FillBlock(piece),
           piece.typ # "tool_use" => current.typ = piece.typ,
           UNCHANGED <<current, nextIndex, started>>
    PROVE  Filled(piece)
<1> DEFINE e == [name |-> "content_block_delta", index |-> current.index, piece |-> piece]
<1>1. current.index \in Nat
  BY DEF Inv, TypeOK, Blocks
<1>2. out \in Seq(Events) /\ e \in Events /\ Emit(e) /\ e.name = "content_block_delta"
  BY <1>1, BlockEvents DEF FillBlock, Inv, TypeOK
<1> HIDE DEF e
<1>3. Deltas' = Append(Deltas, e) /\ Starts' = Starts
  BY <1>2, EmitNamed DEF Starts, Deltas
<1> QED BY <1>3 DEF Filled, e

-----------------------------------------------------------------------------
(* The parts of the chunks, and those of the last one still to handle.     *)

PartSet ==
    {part \in [piece : Pieces, payload : BOOLEAN] :
        /\ part.piece.typ = "tool_use" <=> part.piece.call # NoCall
        /\ part.piece.typ # "tool_use" => part.payload}

Remaining ==
    CASE pc = "reasoning" ->
            ProseParts(Len(read), chunk)
            \o (TextParts(Len(read), chunk) \o CallParts(Len(read), pending))
      [] pc = "text" -> TextParts(Len(read), chunk) \o CallParts(Len(read), pending)
      [] pc = "calls" -> CallParts(Len(read), pending)
      [] OTHER -> << >>

(* The parts that are prose.                                               *)
LEMMA ProseType ==
    ASSUME NEW n \in Nat, NEW c
    PROVE  /\ Part(n, "thinking", NoCall, TRUE) \in PartSet
           /\ Part(n, "text", NoCall, TRUE) \in PartSet
           /\ ProseParts(n, c) \in Seq(PartSet) /\ TextParts(n, c) \in Seq(PartSet)
<1>1. /\ Part(n, "thinking", NoCall, TRUE) \in PartSet
      /\ Part(n, "text", NoCall, TRUE) \in PartSet
  BY NoneAssumption DEF Part, PartSet, Pieces, Types
<1>2. ASSUME NEW x \in PartSet PROVE <<x>> \in Seq(PartSet)
  OBVIOUS
<1>3. << >> \in Seq(PartSet)
  BY EmptySeq
<1> QED BY <1>1, <1>2, <1>3, Zenon DEF ProseParts, TextParts

(* The fragments of a chunk as parts: as many, the first for the first.    *)
LEMMA CallPartsType ==
    ASSUME NEW n \in Nat, NEW calls \in Seq(Fragment)
    PROVE  /\ CallParts(n, calls) \in Seq(PartSet)
           /\ Len(CallParts(n, calls)) = Len(calls)
           /\ calls # << >> =>
                 /\ CallParts(n, calls) # << >>
                 /\ Head(CallParts(n, calls))
                    = Part(n, "tool_use", Head(calls).index, Head(calls).args)
                 /\ Tail(CallParts(n, calls)) = CallParts(n, Tail(calls))
           /\ calls = << >> => CallParts(n, calls) = << >>
<1>1. ASSUME NEW f \in Fragment
      PROVE  Part(n, "tool_use", f.index, f.args) \in PartSet
  BY NoneAssumption DEF Fragment, Part, PartSet, Pieces, Types
<1>2. ASSUME NEW fs \in Seq(Fragment)
      PROVE  CallParts(n, fs) \in Seq(PartSet) /\ Len(CallParts(n, fs)) = Len(fs)
  <2>1. Len(fs) \in Nat /\ \A i \in 1 .. Len(fs) : fs[i] \in Fragment
    BY LenProperties, ElementOfSeq
  <2>2. CallParts(n, fs) \in [1 .. Len(fs) -> PartSet]
    BY <1>1, <2>1 DEF CallParts
  <2>3. CallParts(n, fs) \in Seq(PartSet)
    BY <2>1, <2>2, SeqDef
  <2> QED BY <2>1, <2>2, <2>3, LenProperties
<1>3. ASSUME calls # << >>
      PROVE  /\ CallParts(n, calls) # << >>
             /\ Head(CallParts(n, calls))
                = Part(n, "tool_use", Head(calls).index, Head(calls).args)
             /\ Tail(CallParts(n, calls)) = CallParts(n, Tail(calls))
  <2> DEFINE parts == CallParts(n, calls)
             rest == CallParts(n, Tail(calls))
  <2>1. /\ Head(calls) = calls[1] /\ Tail(calls) \in Seq(Fragment) /\ Len(calls) \in Nat \ {0}
        /\ Len(Tail(calls)) = Len(calls) - 1
        /\ \A i \in 1 .. Len(Tail(calls)) : Tail(calls)[i] = calls[i + 1]
    <3>1. Len(calls) \in Nat \ {0}
      BY <1>3, LenProperties, EmptySeq
    <3>2. /\ Head(calls) = calls[1] /\ Tail(calls) \in Seq(Fragment)
          /\ Len(Tail(calls)) = Len(calls) - 1
          /\ \A i \in 1 .. Len(Tail(calls)) : Tail(calls)[i] = calls[i + 1]
      BY <1>3, HeadTailProperties
    <3> QED BY <3>1, <3>2
  <2>2. /\ parts \in Seq(PartSet) /\ Len(parts) = Len(calls)
        /\ rest \in Seq(PartSet) /\ Len(rest) = Len(calls) - 1
    BY <1>2, <2>1, Zenon
  <2>3. /\ \A i \in 1 .. Len(calls) :
              parts[i] = Part(n, "tool_use", calls[i].index, calls[i].args)
        /\ \A i \in 1 .. Len(Tail(calls)) :
              rest[i] = Part(n, "tool_use", Tail(calls)[i].index, Tail(calls)[i].args)
    BY DEF CallParts
  <2> HIDE DEF parts, rest
  <2>4. parts # << >>
    BY <2>1, <2>2, EmptySeq
  <2>5. /\ Head(parts) = parts[1] /\ Tail(parts) \in Seq(PartSet)
        /\ Len(Tail(parts)) = Len(parts) - 1
        /\ \A i \in 1 .. Len(Tail(parts)) : Tail(parts)[i] = parts[i + 1]
    BY <2>2, <2>4, HeadTailProperties
  <2>6. Head(parts) = Part(n, "tool_use", Head(calls).index, Head(calls).args)
    BY <2>1, <2>3, <2>5
  <2>7. ASSUME NEW i \in 1 .. Len(rest) PROVE Tail(parts)[i] = rest[i]
    <3>1. i \in 1 .. Len(Tail(calls)) /\ i \in 1 .. Len(Tail(parts)) /\ i + 1 \in 1 .. Len(calls)
      BY <2>1, <2>2, <2>5
    <3>2. Tail(parts)[i] = parts[i + 1] /\ Tail(calls)[i] = calls[i + 1]
      BY <2>1, <2>5, <3>1
    <3> QED BY <2>3, <3>1, <3>2
  <2>8. Tail(parts) = rest
    BY <2>2, <2>5, <2>7, SeqEqual
  <2> QED BY <2>4, <2>6, <2>8 DEF parts, rest
<1>4. calls = << >> => CallParts(n, calls) = << >>
  BY <1>2, EmptySeq
<1> QED BY <1>2, <1>3, <1>4

(* The parts of a chunk are parts, and so is what remains of it.           *)
LEMMA PartsType ==
    ASSUME NEW n \in Nat, NEW c \in Chunk
    PROVE  PartsOf(n, c) \in Seq(PartSet)
<1>1. c.calls \in Seq(Fragment)
  BY DEF Chunk
<1>2. TextParts(n, c) \o CallParts(n, c.calls) \in Seq(PartSet)
  BY <1>1, ProseType, CallPartsType, ConcatProperties
<1>3. ProseParts(n, c) \o (TextParts(n, c) \o CallParts(n, c.calls)) \in Seq(PartSet)
  BY <1>2, ProseType, ConcatProperties
<1> QED BY <1>3, EmptySeq DEF PartsOf

(* What remains is a list of parts.                                        *)
LEMMA RemainingType == ASSUME TypeOK PROVE Remaining \in Seq(PartSet)
<1>1. Len(read) \in Nat /\ pending \in Seq(Fragment)
  BY LenProperties DEF TypeOK
<1>2. /\ ProseParts(Len(read), chunk) \in Seq(PartSet)
      /\ TextParts(Len(read), chunk) \in Seq(PartSet)
      /\ CallParts(Len(read), pending) \in Seq(PartSet)
  BY <1>1, ProseType, CallPartsType
<1>3. /\ TextParts(Len(read), chunk) \o CallParts(Len(read), pending) \in Seq(PartSet)
      /\ ProseParts(Len(read), chunk)
         \o (TextParts(Len(read), chunk) \o CallParts(Len(read), pending)) \in Seq(PartSet)
  BY <1>2, ConcatProperties
<1> QED BY <1>2, <1>3, EmptySeq DEF Remaining

(* It stays while the same part of the same chunk is handled.              *)
LEMMA SameRemaining == ASSUME UNCHANGED <<pc, read, pending>> PROVE UNCHANGED Remaining
BY DEF Remaining, chunk

(* The reasoning remains with the rest, then the text, then the calls.     *)
LEMMA RemainingAt ==
    ASSUME TypeOK
    PROVE  LET calls == CallParts(Len(read), pending)
               text == TextParts(Len(read), chunk) \o calls
           IN  /\ pc = "reasoning" /\ chunk.reasoning =>
                     /\ Remaining # << >> /\ Tail(Remaining) = text
                     /\ Head(Remaining) = Part(Len(read), "thinking", NoCall, TRUE)
               /\ pc = "reasoning" /\ ~chunk.reasoning => Remaining = text
               /\ pc = "text" /\ chunk.text =>
                     /\ Remaining # << >> /\ Tail(Remaining) = calls
                     /\ Head(Remaining) = Part(Len(read), "text", NoCall, TRUE)
               /\ pc = "text" /\ ~chunk.text => Remaining = calls
               /\ pc = "calls" => Remaining = calls
<1> DEFINE calls == CallParts(Len(read), pending)
           text == TextParts(Len(read), chunk) \o calls
<1>1. Len(read) \in Nat /\ pending \in Seq(Fragment)
  BY LenProperties DEF TypeOK
<1>2. /\ calls \in Seq(PartSet) /\ TextParts(Len(read), chunk) \in Seq(PartSet)
      /\ Part(Len(read), "thinking", NoCall, TRUE) \in PartSet
      /\ Part(Len(read), "text", NoCall, TRUE) \in PartSet
  BY <1>1, ProseType, CallPartsType
<1>3. text \in Seq(PartSet)
  BY <1>2, ConcatProperties
<1>4. << >> \o text = text /\ << >> \o calls = calls
  BY <1>2, <1>3, ConcatEmptySeq
<1>5. pc = "text" => Remaining = text
  BY DEF Remaining
<1>6. pc = "reasoning" => Remaining = ProseParts(Len(read), chunk) \o text
  BY DEF Remaining
<1>11. pc = "calls" => Remaining = calls
  BY DEF Remaining
<1> HIDE DEF calls
<1>7. pc = "text" /\ ~chunk.text => Remaining = calls
  BY <1>4, <1>5 DEF TextParts
<1>8. CASE pc = "text" /\ chunk.text
  <2>1. Remaining = <<Part(Len(read), "text", NoCall, TRUE)>> \o calls
    BY <1>5, <1>8 DEF TextParts
  <2>2. /\ Remaining # << >> /\ Tail(Remaining) = calls
        /\ Head(Remaining) = Part(Len(read), "text", NoCall, TRUE)
    BY <1>2, <2>1, PutBefore
  <2> QED BY <1>8, <2>2 DEF calls
<1> HIDE DEF text
<1>9. pc = "reasoning" /\ ~chunk.reasoning => Remaining = text
  BY <1>4, <1>6 DEF ProseParts
<1>10. CASE pc = "reasoning" /\ chunk.reasoning
  <2>1. Remaining = <<Part(Len(read), "thinking", NoCall, TRUE)>> \o text
    BY <1>6, <1>10 DEF ProseParts
  <2>2. /\ Remaining # << >> /\ Tail(Remaining) = text
        /\ Head(Remaining) = Part(Len(read), "thinking", NoCall, TRUE)
    BY <1>2, <1>3, <2>1, PutBefore
  <2> QED BY <1>10, <2>2 DEF text, calls
<1> QED BY <1>7, <1>8, <1>9, <1>10, <1>11 DEF text, calls

-----------------------------------------------------------------------------
(* Every step is one of five, as far as the client and what was sent go.   *)

Took(c) ==
    /\ pc # "failed" /\ pc' # "failed"
    /\ Remaining = << >>
    /\ read' = Append(read, c)
    /\ Remaining' = PartsOf(Len(read'), c)
    /\ Quiet

Calm == pc # "failed" /\ pc' # "failed" /\ Quiet /\ UNCHANGED <<read, Remaining>>

OpenedNext(typ, call) ==
    /\ pc # "failed" /\ pc' # "failed"
    /\ Opened(typ, call)
    /\ Remaining # << >>
    /\ Head(Remaining).piece.typ = typ /\ Head(Remaining).piece.call = call
    /\ UNCHANGED <<read, Remaining>>

Handled(part) ==
    /\ pc # "failed" /\ pc' # "failed"
    /\ Remaining # << >> /\ Head(Remaining) = part
    /\ Remaining' = Tail(Remaining)
    /\ part.piece.typ = "tool_use" => part.piece.call \in Calls
    /\ part.piece.call # NoCall => part.piece.call \in started
    /\ IF part.payload THEN Filled(part.piece) ELSE Quiet
    /\ UNCHANGED read

Gone == pc' = "failed" /\ Quiet /\ UNCHANGED read

(* A chunk is taken, with all its parts to handle.                         *)
LEMMA ReadTakes == ASSUME Inv, NEW c \in Chunks, Read(c) PROVE Took(c)
<1>1. c \in Chunk /\ c.calls \in Seq(Fragment)
  BY ChunksAssumption DEF Chunk
<1>2. /\ pc = "scan" /\ pc' \in {"scan", "reasoning"} /\ read' = Append(read, c)
      /\ c.delta => pc' = "reasoning" /\ pending' = c.calls
      /\ ~c.delta => pc' = "scan"
      /\ UNCHANGED <<current, nextIndex, started, out>>
  BY <1>1 DEF Read, At, Goto
<1>3. chunk' = c
  BY <1>2, AppendProperties DEF chunk, Inv, TypeOK
<1>4. Remaining = << >>
  BY <1>2 DEF Remaining
<1>5. Remaining' = PartsOf(Len(read'), c)
  BY <1>2, <1>3 DEF Remaining, PartsOf
<1>6. Quiet
  BY <1>2, SilentQuiet DEF Quiet
<1> QED BY <1>2, <1>4, <1>5, <1>6 DEF Took

(* Opening a block for the part that comes next.                           *)
LEMMA OpenSteps ==
    ASSUME Inv, NEW typ \in Types, NEW call \in Calls \cup {NoCall}, OpenBlock(typ, call),
           call \notin started,
           IF typ = "tool_use" THEN call \in Calls ELSE call = NoCall /\ ~InBlock(typ),
           pc # "failed", Remaining # << >>,
           Head(Remaining).piece.typ = typ, Head(Remaining).piece.call = call
    PROVE  Calm \/ OpenedNext(typ, call)
<1>1. UNCHANGED <<pc, read, pending>>
  BY DEF OpenBlock, StopBlock, StartBlock
<1>2. UNCHANGED Remaining
  BY <1>1, SameRemaining
<1>3. Quiet \/ Opened(typ, call)
  BY OpenBlockKinds
<1> QED BY <1>1, <1>2, <1>3 DEF Calm, OpenedNext

(* Every step of the translation is one of the five.                       *)
LEMMA StepKinds ==
    ASSUME Inv, [Next]_vars
    PROVE  \/ \E c \in Chunks : Took(c)
           \/ Calm
           \/ \E typ \in Types, call \in Calls \cup {NoCall} : OpenedNext(typ, call)
           \/ \E part \in PartSet : Handled(part)
           \/ Gone
<1>0. /\ TypeOK /\ out \in Seq(Events) /\ Len(read) \in Nat /\ NoCall \notin started
      /\ Remaining \in Seq(PartSet)
  BY RemainingType, LenProperties, NoneAssumption DEF Inv, TypeOK
<1>1. CASE UNCHANGED vars
  <2>1. Quiet /\ UNCHANGED <<pc, read, pending>>
    BY <1>1, SilentQuiet DEF vars, Quiet
  <2> QED BY <2>1, SameRemaining DEF Calm, Gone
<1>2. CASE \E c \in Chunks : Read(c)
  BY <1>2, ReadTakes
<1>3. CASE \/ MessageStart \/ ReadEnd \/ CallsDone \/ TakeUsage \/ CloseLast \/ Closed
           \/ MessageDelta \/ MessageStop
  <2>1. Remaining = << >>
    <3>1. pc \in {"begin", "scan", "usage", "close", "delta", "stop"} => Remaining = << >>
      BY DEF Remaining
    <3>2. pc = "calls" /\ pending = << >> => Remaining = << >>
      BY <1>0, CallPartsType DEF Remaining, TypeOK
    <3> QED BY <1>3, <3>1, <3>2
        DEF MessageStart, ReadEnd, CallsDone, TakeUsage, CloseLast, Closed, MessageDelta,
            MessageStop, At
  <2>2. pc # "failed" /\ pc' \notin {"reasoning", "text", "calls", "failed"}
    BY <1>3
    DEF MessageStart, ReadEnd, CallsDone, TakeUsage, CloseLast, StopBlock, Closed, MessageDelta,
        MessageStop, At, Goto
  <2>3. Remaining' = << >>
    BY <2>2 DEF Remaining
  <2>4. UNCHANGED <<read, current, nextIndex, started>>
    BY <1>3
    DEF MessageStart, ReadEnd, CallsDone, TakeUsage, CloseLast, StopBlock, Closed, MessageDelta,
        MessageStop
  <2>5. UNCHANGED <<Starts, Deltas>>
    <3>1. MessageStart \/ MessageStop => UNCHANGED <<Starts, Deltas>>
      BY <1>0, MessageEvents, EmitQuiet DEF MessageStart, MessageStop
    <3>2. ASSUME MessageDelta PROVE UNCHANGED <<Starts, Deltas>>
      <4>1. [stopReason |-> stopReason, usage |-> totals] \in Closings
        BY DEF Inv, TypeOK, Closings
      <4> QED BY <1>0, <3>2, <4>1, MessageEvents, EmitQuiet DEF MessageDelta
    <3>3. CloseLast => UNCHANGED <<Starts, Deltas>>
      BY StopBlockQuiet DEF CloseLast, Quiet
    <3> QED BY <1>3, <3>1, <3>2, <3>3, SilentQuiet DEF ReadEnd, CallsDone, TakeUsage, Closed
  <2> QED BY <2>1, <2>2, <2>3, <2>4, <2>5 DEF Calm, Quiet
<1>4. CASE NoReasoning \/ NoText
  <2>1. /\ \/ pc = "reasoning" /\ ~chunk.reasoning /\ pc' = "text"
           \/ pc = "text" /\ ~chunk.text /\ pc' = "calls"
        /\ UNCHANGED <<read, pending, current, nextIndex, started, out>>
    BY <1>4 DEF NoReasoning, NoText, At, Goto
  <2>2. UNCHANGED Remaining
    <3>1. CASE pc = "reasoning" /\ ~chunk.reasoning /\ pc' = "text"
      <4>1. Remaining = TextParts(Len(read), chunk) \o CallParts(Len(read), pending)
        BY <1>0, <3>1, RemainingAt
      <4>2. Remaining' = TextParts(Len(read), chunk) \o CallParts(Len(read), pending)
        BY <2>1, <3>1 DEF Remaining, chunk
      <4> QED BY <4>1, <4>2
    <3>2. CASE pc = "text" /\ ~chunk.text /\ pc' = "calls"
      <4>1. Remaining = CallParts(Len(read), pending)
        BY <1>0, <3>2, RemainingAt
      <4>2. Remaining' = CallParts(Len(read), pending)
        BY <2>1, <3>2 DEF Remaining
      <4> QED BY <4>1, <4>2
    <3> QED BY <2>1, <3>1, <3>2
  <2>3. Quiet
    BY <2>1, SilentQuiet DEF Quiet
  <2> QED BY <2>1, <2>2, <2>3 DEF Calm
<1>5. CASE ReadFails \/ BadText \/ WriteFails
  <2>1. pc' = "failed" /\ UNCHANGED <<read, current, nextIndex, started, out>>
    BY <1>5 DEF ReadFails, BadText, WriteFails, Goto
  <2> QED BY <2>1, SilentQuiet DEF Gone, Quiet
<1>6. CASE OpenThinking \/ OpenText
  <2>1. PICK typ \in {"thinking", "text"} :
           /\ OpenBlock(typ, NoCall) /\ ~InBlock(typ)
           /\ \/ pc = "reasoning" /\ chunk.reasoning /\ typ = "thinking"
              \/ pc = "text" /\ chunk.text /\ typ = "text"
    BY <1>6 DEF OpenThinking, OpenText, At
  <2>2. /\ Remaining # << >>
        /\ Head(Remaining).piece.typ = typ /\ Head(Remaining).piece.call = NoCall
    BY <1>0, <2>1, RemainingAt DEF Part
  <2>3. typ \in Types /\ typ # "tool_use" /\ pc # "failed" /\ NoCall \in Calls \cup {NoCall}
    BY <2>1 DEF Types
  <2>4. Calm \/ OpenedNext(typ, NoCall)
    BY <1>0, <2>1, <2>2, <2>3, OpenSteps
  <2> QED BY <2>3, <2>4
<1>7. CASE OpenCall
  <2>1. pc = "calls" /\ pending # << >> /\ Head(pending).index \in Calls
    BY <1>0, <1>7, FragmentType DEF OpenCall, At
  <2>2. PICK call \in Calls : /\ call = Head(pending).index /\ call \notin started
                              /\ OpenBlock("tool_use", call)
    BY <1>7, <2>1 DEF OpenCall
  <2>3. /\ Remaining # << >>
        /\ Head(Remaining).piece.typ = "tool_use" /\ Head(Remaining).piece.call = call
    <3>1. pending \in Seq(Fragment)
      BY <1>0 DEF TypeOK
    <3>2. /\ Remaining # << >>
          /\ Head(Remaining) = Part(Len(read), "tool_use", call, Head(pending).args)
      BY <1>0, <2>1, <2>2, <3>1, CallPartsType DEF Remaining
    <3> QED BY <3>2 DEF Part
  <2>4. "tool_use" \in Types /\ call \in Calls \cup {NoCall} /\ pc # "failed"
    BY <2>1 DEF Types
  <2>5. Calm \/ OpenedNext("tool_use", call)
    BY <2>2, <2>3, <2>4, OpenSteps
  <2> QED BY <2>4, <2>5
<1>8. CASE ThinkingDelta \/ TextDelta
  <2>1. PICK typ \in {"thinking", "text"} :
           /\ InBlock(typ) /\ FillBlock(Piece(typ, NoCall))
           /\ \/ pc = "reasoning" /\ chunk.reasoning /\ typ = "thinking" /\ pc' = "text"
              \/ pc = "text" /\ chunk.text /\ typ = "text" /\ pc' = "calls"
           /\ UNCHANGED <<read, pending, current, nextIndex, started>>
    BY <1>8 DEF ThinkingDelta, TextDelta, At, Goto
  <2> DEFINE part == Part(Len(read), typ, NoCall, TRUE)
  <2>2. part \in PartSet /\ part.piece = Piece(typ, NoCall) /\ part.payload
        /\ Piece(typ, NoCall).typ = typ /\ Piece(typ, NoCall).call = NoCall
    BY <1>0, <2>1, ProseType DEF Part, Piece
  <2>3. Remaining # << >> /\ Head(Remaining) = part
    BY <1>0, <2>1, RemainingAt
  <2>4. Remaining' = Tail(Remaining)
    <3>1. CASE pc = "reasoning"
      <4>1. Tail(Remaining) = TextParts(Len(read), chunk) \o CallParts(Len(read), pending)
        BY <1>0, <2>1, <3>1, RemainingAt
      <4>2. Remaining' = TextParts(Len(read), chunk) \o CallParts(Len(read), pending)
        BY <2>1, <3>1 DEF Remaining, chunk
      <4> QED BY <4>1, <4>2
    <3>2. CASE pc = "text"
      <4>1. Tail(Remaining) = CallParts(Len(read), pending)
        BY <1>0, <2>1, <3>2, RemainingAt
      <4>2. Remaining' = CallParts(Len(read), pending)
        BY <2>1, <3>2 DEF Remaining
      <4> QED BY <4>1, <4>2
    <3> QED BY <2>1, <3>1, <3>2
  <2>5. Piece(typ, NoCall) \in Pieces
    BY <1>0, PieceType DEF Types
  <2> HIDE DEF part
  <2>6. Filled(Piece(typ, NoCall))
    BY <2>1, <2>2, <2>5, FillBlockKinds DEF InBlock
  <2>7. Handled(part)
    BY <2>1, <2>2, <2>3, <2>4, <2>6 DEF Handled
  <2> QED BY <2>2, <2>7
<1>9. CASE CallDelta
  <2> DEFINE call == Head(pending).index
             part == Part(Len(read), "tool_use", call, Head(pending).args)
  <2>1. /\ pc = "calls" /\ pc' = "calls" /\ pending # << >> /\ call \in started
        /\ IF Head(pending).args THEN FillBlock(Piece("tool_use", call)) ELSE UNCHANGED out
        /\ pending' = Tail(pending)
        /\ UNCHANGED <<read, current, nextIndex, started>>
    BY <1>9 DEF CallDelta, At
  <2>2. call \in Calls /\ pending \in Seq(Fragment) /\ current # NoBlock
    BY <1>0, <2>1, FragmentType DEF TypeOK, Inv, Orderly
  <2>3. /\ Remaining = CallParts(Len(read), pending)
        /\ Remaining' = CallParts(Len(read), Tail(pending))
    BY <2>1 DEF Remaining
  <2>4. Remaining # << >> /\ Head(Remaining) = part /\ Remaining' = Tail(Remaining)
    BY <1>0, <2>1, <2>2, <2>3, CallPartsType
  <2>5. part \in PartSet
    BY <1>0, <2>4, HeadTailProperties
  <2>6. /\ part.piece = Piece("tool_use", call) /\ part.payload = Head(pending).args
        /\ Piece("tool_use", call).typ = "tool_use" /\ Piece("tool_use", call).call = call
    BY DEF Part, Piece
  <2>7. Piece("tool_use", call) \in Pieces
    BY <1>0, <2>2, PieceType DEF Types
  <2> HIDE DEF part, call
  <2>8. IF Head(pending).args THEN Filled(Piece("tool_use", call)) ELSE Quiet
    BY <2>1, <2>2, <2>6, <2>7, FillBlockKinds, SilentQuiet DEF Quiet
  <2>9. Handled(part)
    BY <2>1, <2>2, <2>4, <2>6, <2>8 DEF Handled
  <2> QED BY <2>5, <2>9
<1> QED
  BY <1>1, <1>2, <1>3, <1>4, <1>5, <1>6, <1>7, <1>8, <1>9 DEF Next

-----------------------------------------------------------------------------
(* The blocks as the client holds them.                                    *)

(* Blocks are numbered in the order they are started, a delta belongs to   *)
(* one that was, and the current block is the one started last.            *)
Numbered ==
    /\ Len(Starts) = nextIndex
    /\ \A k \in 1 .. Len(Starts) : Starts[k].index = k - 1
    /\ \A i \in 1 .. Len(Deltas) : Deltas[i].index < nextIndex
    /\ current = NoBlock <=> nextIndex = 0
    /\ current # NoBlock =>
          current.typ = Starts[nextIndex].typ /\ current.index = nextIndex - 1

(* Prose is in a block that was started for it.                            *)
ProseAsStarted ==
    \A i \in 1 .. Len(Deltas) :
        Deltas[i].piece.typ # "tool_use" =>
            Starts[Deltas[i].index + 1].typ = Deltas[i].piece.typ

(* The calls that have been started are those with a block, one each.      *)
OneEach ==
    /\ \A j, k \in 1 .. Len(Starts) :
          Starts[j].call = Starts[k].call /\ Starts[j].call # NoCall => j = k
    /\ \A k \in 1 .. Len(Starts) : Starts[k].call # NoCall => Starts[k].call \in started
    /\ \A t \in started : \E k \in 1 .. Len(Starts) : Starts[k].call = t

Held == Numbered /\ ProseAsStarted /\ OneEach

(* The client has collected nothing at first.                              *)
LEMMA InitCollected == Init => \A name : Named(name) = << >>
<1> SUFFICES ASSUME Init, NEW name PROVE Named(name) = << >>
  OBVIOUS
<1>1. out = << >> /\ out \in Seq(Events)
  BY EmptySeq DEF Init
<1>2. Named(name) = FlatMap(out, OfName(name))
  BY <1>1, NamedMap DEF Named
<1> QED BY <1>1, <1>2, FlatMapEmpty

(* Neither blocks nor deltas.                                              *)
LEMMA InitHeld == Init => Held
<1> SUFFICES ASSUME Init PROVE Held
  OBVIOUS
<1>1. Len(Starts) = 0 /\ Len(Deltas) = 0
  BY InitCollected, EmptySeq DEF Starts, Deltas
<1> QED BY <1>1 DEF Init, Held, Numbered, ProseAsStarted, OneEach

(* What appending to a list leaves in place and puts last.                 *)
LEMMA Appended ==
    ASSUME NEW S, NEW s \in Seq(S), NEW e \in S
    PROVE  /\ Len(Append(s, e)) = Len(s) + 1 /\ Len(s) \in Nat
           /\ \A i \in 1 .. Len(s) : Append(s, e)[i] = s[i]
           /\ Append(s, e)[Len(s) + 1] = e
           /\ Append(s, e) \in Seq(S)
BY AppendProperties, LenProperties

(* A delta goes to a block that was started.                               *)
LEMMA DeltaIndex ==
    ASSUME TypeOK, Numbered, NEW i \in 1 .. Len(Deltas)
    PROVE  Deltas[i] \in DeltaEvents /\ Deltas[i].index \in Nat /\ Deltas[i].index < nextIndex
<1>1. Deltas[i] \in DeltaEvents
  BY CollectedType, ElementOfSeq
<1> QED BY <1>1 DEF DeltaEvents, Numbered

(* Opening a block.                                                        *)
LEMMA OpenedHeld ==
    ASSUME Inv, Held, NEW typ \in Types, NEW call \in Calls \cup {NoCall}, Opened(typ, call)
    PROVE  Held'
<1> DEFINE e == [name |-> "content_block_start", index |-> nextIndex, typ |-> typ, call |-> call]
<1>1. /\ nextIndex \in Nat /\ started \in SUBSET Calls /\ Len(Deltas) \in Nat
      /\ Starts \in Seq(StartEvents) /\ Deltas \in Seq(DeltaEvents)
  BY CollectedType DEF Inv, TypeOK
<1>2. e \in StartEvents
  BY <1>1 DEF StartEvents
<1>3. /\ Starts' = Append(Starts, e) /\ Deltas' = Deltas /\ nextIndex' = nextIndex + 1
      /\ current' = [typ |-> typ, index |-> nextIndex]
      /\ started' = IF typ = "tool_use" THEN started \cup {call} ELSE started
      /\ call \notin started
      /\ IF typ = "tool_use" THEN call \in Calls ELSE call = NoCall
  BY DEF Opened
<1>4. e.index = nextIndex /\ e.typ = typ /\ e.call = call
  OBVIOUS
<1> HIDE DEF e
<1>5. /\ Len(Starts') = nextIndex + 1 /\ Len(Starts) = nextIndex
      /\ \A i \in 1 .. nextIndex : Starts'[i] = Starts[i]
      /\ Starts'[nextIndex + 1] = e
  BY <1>1, <1>2, <1>3, Appended DEF Held, Numbered
<1>6. current' # NoBlock
  BY <1>1, <1>3, NoBlockAssumption DEF Blocks
<1>7. Numbered'
  <2>1. \A k \in 1 .. Len(Starts') : Starts'[k].index = k - 1
    BY <1>1, <1>4, <1>5 DEF Held, Numbered
  <2>2. \A i \in 1 .. Len(Deltas') : Deltas'[i].index < nextIndex'
    <3> SUFFICES ASSUME NEW i \in 1 .. Len(Deltas) PROVE Deltas[i].index < nextIndex + 1
      BY <1>3
    <3>1. Deltas[i] \in DeltaEvents /\ Deltas[i].index < nextIndex
      BY <1>1, ElementOfSeq DEF Held, Numbered
    <3> QED BY <1>1, <3>1 DEF DeltaEvents
  <2>3. current'.typ = Starts'[nextIndex'].typ /\ current'.index = nextIndex' - 1
    BY <1>1, <1>3, <1>4, <1>5
  <2>4. nextIndex' # 0
    BY <1>1, <1>3
  <2> QED BY <1>3, <1>5, <1>6, <2>1, <2>2, <2>3, <2>4 DEF Numbered
<1>8. ProseAsStarted'
  <2> SUFFICES ASSUME NEW i \in 1 .. Len(Deltas), Deltas[i].piece.typ # "tool_use"
               PROVE  Starts'[Deltas[i].index + 1].typ = Deltas[i].piece.typ
    BY <1>3 DEF ProseAsStarted
  <2>1. Deltas[i].index \in Nat /\ Deltas[i].index < nextIndex
    BY DeltaIndex DEF Held, Inv
  <2>2. Starts'[Deltas[i].index + 1] = Starts[Deltas[i].index + 1]
    BY <1>1, <1>5, <2>1
  <2> QED BY <2>2 DEF Held, ProseAsStarted
<1>9. OneEach'
  <2>1. ASSUME NEW k \in 1 .. nextIndex
        PROVE  Starts'[k] = Starts[k] /\ (Starts[k].call # NoCall => Starts[k].call \in started)
    BY <1>5 DEF Held, OneEach
  <2>2. ASSUME NEW k \in 1 .. Len(Starts'), k \notin 1 .. nextIndex
        PROVE  Starts'[k].call = call /\ k = nextIndex + 1
    BY <1>1, <1>4, <1>5, <2>2
  <2>3. ASSUME NEW j \in 1 .. Len(Starts'), NEW k \in 1 .. Len(Starts'),
               Starts'[j].call = Starts'[k].call, Starts'[j].call # NoCall
        PROVE  j = k
    <3>1. CASE j \in 1 .. nextIndex /\ k \in 1 .. nextIndex
      BY <1>5, <2>1, <2>3, <3>1 DEF Held, OneEach
    <3>2. CASE j \notin 1 .. nextIndex /\ k \in 1 .. nextIndex
      BY <1>3, <2>1, <2>2, <2>3, <3>2
    <3>3. CASE j \in 1 .. nextIndex /\ k \notin 1 .. nextIndex
      BY <1>3, <2>1, <2>2, <2>3, <3>3
    <3>4. CASE j \notin 1 .. nextIndex /\ k \notin 1 .. nextIndex
      BY <2>2, <3>4
    <3> QED BY <3>1, <3>2, <3>3, <3>4
  <2>4. ASSUME NEW k \in 1 .. Len(Starts'), Starts'[k].call # NoCall
        PROVE  Starts'[k].call \in started'
    <3>1. CASE k \in 1 .. nextIndex
      BY <1>3, <2>1, <2>4, <3>1
    <3>2. CASE k \notin 1 .. nextIndex
      BY <1>3, <2>2, <2>4, <3>2
    <3> QED BY <3>1, <3>2
  <2>5. ASSUME NEW t \in started' PROVE \E k \in 1 .. Len(Starts') : Starts'[k].call = t
    <3>1. CASE t \in started
      <4>1. PICK k \in 1 .. nextIndex : Starts[k].call = t
        BY <1>5, <3>1 DEF Held, OneEach
      <4>2. k \in 1 .. Len(Starts') /\ Starts'[k].call = t
        BY <1>1, <1>5, <4>1
      <4> QED BY <4>2
    <3>2. CASE t = call
      <4>1. nextIndex + 1 \in 1 .. Len(Starts') /\ Starts'[nextIndex + 1].call = t
        BY <1>1, <1>4, <1>5, <3>2
      <4> QED BY <4>1
    <3> QED BY <1>3, <2>5, <3>1, <3>2
  <2> QED BY <2>3, <2>4, <2>5 DEF OneEach
<1> QED BY <1>7, <1>8, <1>9 DEF Held

(* Filling one.                                                            *)
LEMMA FilledHeld ==
    ASSUME Inv, Held, NEW piece \in Pieces, Filled(piece)
    PROVE  Held'
<1> DEFINE e == [name |-> "content_block_delta", index |-> current.index, piece |-> piece]
<1>1. /\ nextIndex \in Nat /\ Len(Deltas) \in Nat /\ current.index \in Nat
      /\ Starts \in Seq(StartEvents) /\ Deltas \in Seq(DeltaEvents)
      /\ current # NoBlock
  BY CollectedType DEF Inv, TypeOK, Filled, Blocks
<1>2. e \in DeltaEvents
  BY <1>1 DEF DeltaEvents
<1>3. /\ Deltas' = Append(Deltas, e) /\ UNCHANGED <<Starts, current, nextIndex, started>>
      /\ piece.typ # "tool_use" => current.typ = piece.typ
      /\ current.typ = Starts[nextIndex].typ /\ current.index = nextIndex - 1
  BY <1>1 DEF Filled, Held, Numbered
<1>4. e.index = current.index /\ e.piece = piece
  OBVIOUS
<1> HIDE DEF e
<1>5. /\ Len(Deltas') = Len(Deltas) + 1
      /\ \A i \in 1 .. Len(Deltas) : Deltas'[i] = Deltas[i]
      /\ Deltas'[Len(Deltas) + 1] = e
  BY <1>1, <1>2, <1>3, Appended
<1>6. ASSUME NEW i \in 1 .. Len(Deltas')
      PROVE  \/ i \in 1 .. Len(Deltas) /\ Deltas'[i] = Deltas[i]
         \/ Deltas'[i] = e
  BY <1>1, <1>5
<1>7. Numbered'
  <2>1. \A i \in 1 .. Len(Deltas') : Deltas'[i].index < nextIndex'
    BY <1>1, <1>3, <1>4, <1>6 DEF Held, Numbered
  <2> QED BY <1>3, <2>1 DEF Held, Numbered
<1>8. ProseAsStarted'
  <2> SUFFICES ASSUME NEW i \in 1 .. Len(Deltas'), Deltas'[i].piece.typ # "tool_use"
               PROVE  Starts[Deltas'[i].index + 1].typ = Deltas'[i].piece.typ
    BY <1>3 DEF ProseAsStarted
  <2>1. CASE i \in 1 .. Len(Deltas) /\ Deltas'[i] = Deltas[i]
    BY <2>1 DEF Held, ProseAsStarted
  <2>2. CASE Deltas'[i] = e
    <3>1. Deltas'[i].index + 1 = nextIndex
      BY <1>1, <1>3, <1>4, <2>2
    <3> QED BY <1>3, <1>4, <2>2, <3>1
  <2> QED BY <1>6, <2>1, <2>2
<1>9. OneEach'
  BY <1>3 DEF Held, OneEach
<1> QED BY <1>7, <1>8, <1>9 DEF Held

(* Doing neither.                                                          *)
LEMMA QuietHeld == ASSUME Held, Quiet PROVE Held'
BY DEF Held, Numbered, ProseAsStarted, OneEach, Quiet

(* Every step keeps the blocks in order.                                   *)
LEMMA NextHeld == Inv /\ Held /\ [Next]_vars => Held'
<1> SUFFICES ASSUME Inv, Held, [Next]_vars PROVE Held'
  OBVIOUS
<1>1. ASSUME NEW part \in PartSet, Handled(part) PROVE Held'
  <2>1. part.piece \in Pieces
    BY DEF PartSet
  <2> QED BY <1>1, <2>1, FilledHeld, QuietHeld DEF Handled
<1> QED BY <1>1, StepKinds, OpenedHeld, QuietHeld DEF Took, Calm, OpenedNext, Gone

(* Numbers, prose and calls are invariant.                                 *)
LEMMA HeldInvariant == Spec => [](Inv /\ Held)
BY InitHeld, NextHeld, InitInv, NextInv, PTL DEF Spec

(* A block is found by its index.                                          *)
LEMMA StartFound ==
    ASSUME Inv, Held, NEW b \in Nat, b < nextIndex
    PROVE  StartOf(b) = Starts[b + 1]
<1>1. Len(Starts) = nextIndex /\ nextIndex \in Nat
  BY DEF Held, Numbered, Inv, TypeOK
<1>2. b + 1 \in 1 .. Len(Starts) /\ Starts[b + 1].index = b
  BY <1>1 DEF Held, Numbered
<1>3. ASSUME NEW k \in 1 .. Len(Starts), Starts[k].index = b PROVE k = b + 1
  BY <1>1, <1>3 DEF Held, Numbered
<1>4. (CHOOSE k \in 1 .. Len(Starts) : Starts[k].index = b) = b + 1
  BY <1>2, <1>3
<1> QED BY <1>4 DEF StartOf

(* Prose reaches the client as the kind of text the upstream sent.         *)
THEOREM ProseIsKeptApart == Spec => []ProseInItsOwnBlock
<1>1. Inv /\ Held => ProseInItsOwnBlock
  <2> SUFFICES ASSUME Inv, Held, NEW i \in 1 .. Len(Deltas), Deltas[i].piece.typ # "tool_use"
               PROVE  StartOf(Deltas[i].index).typ = Deltas[i].piece.typ
    BY DEF ProseInItsOwnBlock
  <2>1. Deltas[i].index \in Nat /\ Deltas[i].index < nextIndex
    BY DeltaIndex DEF Inv, Held
  <2> QED BY <2>1, StartFound DEF Held, ProseAsStarted
<1> QED BY <1>1, HeldInvariant, PTL

-----------------------------------------------------------------------------
(* What the client shows, read block after block.                          *)

OfBlock(b) == [e \in DeltaEvents |-> IF e.index = b THEN <<e.piece>> ELSE << >>]
Contents(deltas) == [e \in StartEvents |-> FlatMap(deltas, OfBlock(e.index))]

(* A delta gives its piece to its block, and nothing to another.           *)
LEMMA OfBlockType == ASSUME NEW b PROVE OfBlock(b) \in [DeltaEvents -> Seq(Pieces)]
<1>1. ASSUME NEW e \in DeltaEvents PROVE e.piece \in Pieces
  BY DEF DeltaEvents
<1>2. ASSUME NEW x \in Pieces PROVE <<x>> \in Seq(Pieces)
  OBVIOUS
<1> QED BY <1>1, <1>2, EmptySeq DEF OfBlock

(* The contents of a block are pieces.                                     *)
LEMMA ContentsType ==
    ASSUME NEW deltas \in Seq(DeltaEvents)
    PROVE  Contents(deltas) \in [StartEvents -> Seq(Pieces)]
<1>1. ASSUME NEW b PROVE FlatMap(deltas, OfBlock(b)) \in Seq(Pieces)
  BY OfBlockType, FlatMapType
<1> QED BY <1>1 DEF Contents

(* What is shown is the contents of the blocks put together.               *)
LEMMA ShownMap ==
    ASSUME NEW starts \in Seq(StartEvents), NEW deltas \in Seq(DeltaEvents)
    PROVE  FlattenSeq([k \in 1 .. Len(starts) |->
               FlattenSeq([i \in 1 .. Len(deltas) |->
                   IF deltas[i].index = starts[k].index THEN <<deltas[i].piece>> ELSE << >>])])
           = FlatMap(starts, Contents(deltas))
<1>1. /\ \A i \in 1 .. Len(deltas) : deltas[i] \in DeltaEvents
      /\ \A k \in 1 .. Len(starts) : starts[k] \in StartEvents
  BY ElementOfSeq
<1>2. ASSUME NEW b
      PROVE  FlattenSeq([i \in 1 .. Len(deltas) |->
                 IF deltas[i].index = b THEN <<deltas[i].piece>> ELSE << >>])
             = FlatMap(deltas, OfBlock(b))
  <2>1. [i \in 1 .. Len(deltas) |-> IF deltas[i].index = b THEN <<deltas[i].piece>> ELSE << >>]
        = [i \in 1 .. Len(deltas) |-> OfBlock(b)[deltas[i]]]
    BY <1>1 DEF OfBlock
  <2> QED BY <2>1 DEF FlatMap
<1>3. [k \in 1 .. Len(starts) |-> FlatMap(deltas, OfBlock(starts[k].index))]
      = [k \in 1 .. Len(starts) |-> Contents(deltas)[starts[k]]]
  BY <1>1 DEF Contents
<1>4. [k \in 1 .. Len(starts) |->
          FlattenSeq([i \in 1 .. Len(deltas) |->
              IF deltas[i].index = starts[k].index THEN <<deltas[i].piece>> ELSE << >>])]
      = [k \in 1 .. Len(starts) |-> FlatMap(deltas, OfBlock(starts[k].index))]
  BY <1>2
<1> QED BY <1>3, <1>4 DEF FlatMap

(* A block without deltas has no contents.                                 *)
LEMMA EmptyBlock ==
    ASSUME NEW starts \in Seq(StartEvents), NEW deltas \in Seq(DeltaEvents),
           NEW e \in StartEvents, \A i \in 1 .. Len(deltas) : deltas[i].index # e.index
    PROVE  FlatMap(Append(starts, e), Contents(deltas)) = FlatMap(starts, Contents(deltas))
<1>1. ASSUME NEW i \in 1 .. Len(deltas) PROVE OfBlock(e.index)[deltas[i]] = << >>
  BY ElementOfSeq DEF OfBlock
<1>2. Contents(deltas)[e] = << >>
  BY <1>1, FlatMapNothing DEF Contents
<1>3. Contents(deltas) \in [StartEvents -> Seq(Pieces)]
  BY ContentsType
<1>4. FlatMap(Append(starts, e), Contents(deltas)) = FlatMap(starts, Contents(deltas)) \o << >>
      /\ FlatMap(starts, Contents(deltas)) \in Seq(Pieces)
  BY <1>2, <1>3, FlatMapAppend, FlatMapType, ZenonT(60)
<1> QED BY <1>4, ConcatEmptySeq

(* A delta adds its piece to its block.                                    *)
LEMMA MoreContents ==
    ASSUME NEW deltas \in Seq(DeltaEvents), NEW d \in DeltaEvents, NEW e \in StartEvents
    PROVE  Contents(Append(deltas, d))[e]
           = IF e.index = d.index THEN Append(Contents(deltas)[e], d.piece)
             ELSE Contents(deltas)[e]
<1> DEFINE G == OfBlock(e.index)
<1>1. G \in [DeltaEvents -> Seq(Pieces)]
  BY OfBlockType
<1>2. G[d] = IF e.index = d.index THEN <<d.piece>> ELSE << >>
  BY DEF OfBlock
<1>3. /\ Contents(Append(deltas, d))[e] = FlatMap(Append(deltas, d), G)
      /\ Contents(deltas)[e] = FlatMap(deltas, G)
  BY DEF Contents
<1>4. d.piece \in Pieces
  BY DEF DeltaEvents
<1> HIDE DEF G
<1>5. FlatMap(Append(deltas, d), G) = FlatMap(deltas, G) \o G[d]
      /\ FlatMap(deltas, G) \in Seq(Pieces)
  BY <1>1, FlatMapAppend, FlatMapType
<1>6. /\ FlatMap(deltas, G) \o <<d.piece>> = Append(FlatMap(deltas, G), d.piece)
      /\ FlatMap(deltas, G) \o << >> = FlatMap(deltas, G)
  BY <1>4, <1>5, AppendIsConcat, ConcatEmptySeq
<1> QED BY <1>2, <1>3, <1>5, <1>6

(* When that is the last block, the piece is shown last.                   *)
LEMMA LastBlock ==
    ASSUME NEW front \in Seq(StartEvents), NEW last \in StartEvents,
           NEW deltas \in Seq(DeltaEvents), NEW d \in DeltaEvents,
           d.index = last.index, \A k \in 1 .. Len(front) : front[k].index # last.index
    PROVE  FlatMap(Append(front, last), Contents(Append(deltas, d)))
           = Append(FlatMap(Append(front, last), Contents(deltas)), d.piece)
<1> DEFINE more == Contents(Append(deltas, d))
           held == Contents(deltas)
<1>1. /\ Append(deltas, d) \in Seq(DeltaEvents) /\ d.piece \in Pieces
      /\ \A k \in 1 .. Len(front) : front[k] \in StartEvents
  BY AppendProperties, ElementOfSeq DEF DeltaEvents
<1>2. more \in [StartEvents -> Seq(Pieces)] /\ held \in [StartEvents -> Seq(Pieces)]
  BY <1>1, ContentsType
<1>3. \A k \in 1 .. Len(front) : more[front[k]] = held[front[k]]
  BY <1>1, MoreContents
<1>4. more[last] = Append(held[last], d.piece)
  BY MoreContents
<1> HIDE DEF more, held
<1>5. FlatMap(front, more) = FlatMap(front, held)
  BY <1>3, FlatMapAgree
<1>6. /\ FlatMap(Append(front, last), more) = FlatMap(front, more) \o more[last]
      /\ FlatMap(Append(front, last), held) = FlatMap(front, held) \o held[last]
      /\ FlatMap(front, held) \in Seq(Pieces) /\ held[last] \in Seq(Pieces)
  <2>1. /\ FlatMap(Append(front, last), more) = FlatMap(front, more) \o more[last]
        /\ FlatMap(Append(front, last), held) = FlatMap(front, held) \o held[last]
    BY <1>2, FlatMapAppend, ZenonT(60)
  <2>2. FlatMap(front, held) \in Seq(Pieces) /\ held[last] \in Seq(Pieces)
    BY <1>2, FlatMapType
  <2> QED BY <2>1, <2>2
<1>7. FlatMap(Append(front, last), more)
      = Append(FlatMap(Append(front, last), held), d.piece)
  <2>1. FlatMap(front, held) \o Append(held[last], d.piece)
        = Append(FlatMap(front, held) \o held[last], d.piece)
    <3>1. d.piece \in Pieces
      BY <1>1
    <3> QED BY <1>6, <3>1, ConcatAppend, SMTT(30)
  <2>2. FlatMap(Append(front, last), more) = FlatMap(front, held) \o Append(held[last], d.piece)
    BY <1>4, <1>5, <1>6, Zenon
  <2> QED BY <1>6, <2>1, <2>2, Zenon
<1> QED BY <1>7 DEF more, held

(* What the client shows is a list of pieces.                              *)
LEMMA ShownType ==
    ASSUME TypeOK
    PROVE  Shown = FlatMap(Starts, Contents(Deltas)) /\ Shown \in Seq(Pieces)
<1>1. Starts \in Seq(StartEvents) /\ Deltas \in Seq(DeltaEvents)
  BY CollectedType
<1>2. Shown = FlatMap(Starts, Contents(Deltas))
  BY <1>1, ShownMap DEF Shown, PiecesOf
<1> QED BY <1>1, <1>2, ContentsType, FlatMapType

(* A step that neither starts nor fills a block shows nothing new.         *)
LEMMA ShownQuiet == ASSUME Quiet PROVE UNCHANGED Shown
<1>1. UNCHANGED <<Starts, Deltas>>
  BY DEF Quiet
<1> QED BY <1>1 DEF Shown, PiecesOf

(* Nor does opening a block.                                               *)
LEMMA ShownOpened ==
    ASSUME Inv, Numbered, NEW typ \in Types, NEW call \in Calls \cup {NoCall},
           Opened(typ, call)
    PROVE  UNCHANGED Shown
<1> DEFINE e == [name |-> "content_block_start", index |-> nextIndex, typ |-> typ, call |-> call]
<1>1. /\ nextIndex \in Nat /\ TypeOK
      /\ Starts \in Seq(StartEvents) /\ Deltas \in Seq(DeltaEvents)
  BY CollectedType DEF Inv, TypeOK
<1>2. e \in StartEvents /\ e.index = nextIndex
  BY <1>1 DEF StartEvents
<1>3. Starts' = Append(Starts, e) /\ Deltas' = Deltas
  BY DEF Opened
<1> HIDE DEF e
<1>4. \A i \in 1 .. Len(Deltas) : Deltas[i].index # e.index
  BY <1>1, <1>2, DeltaIndex
<1>5. Starts' \in Seq(StartEvents)
  BY <1>1, <1>2, <1>3, AppendProperties
<1>6. Shown' = FlatMap(Starts', Contents(Deltas'))
  BY <1>1, <1>3, <1>5, ShownMap DEF Shown, PiecesOf
<1> QED BY <1>1, <1>2, <1>3, <1>4, <1>6, ShownType, EmptyBlock

(* Filling the current block, which is the last, shows its piece last.     *)
LEMMA ShownFilled ==
    ASSUME Inv, Numbered, NEW piece \in Pieces, Filled(piece)
    PROVE  Shown' = Append(Shown, piece)
<1> DEFINE d == [name |-> "content_block_delta", index |-> current.index, piece |-> piece]
<1>1. /\ nextIndex \in Nat /\ TypeOK /\ current.index \in Nat
      /\ Starts \in Seq(StartEvents) /\ Deltas \in Seq(DeltaEvents)
      /\ current # NoBlock /\ current.index = nextIndex - 1
      /\ Starts # << >>
  <2>1. current # NoBlock /\ current.index = nextIndex - 1 /\ nextIndex # 0
    BY DEF Filled, Numbered
  <2> QED BY <2>1, CollectedType, EmptySeq DEF Inv, TypeOK, Numbered, Blocks
<1>2. d \in DeltaEvents /\ d.index = current.index /\ d.piece = piece
  BY <1>1 DEF DeltaEvents
<1>3. Deltas' = Append(Deltas, d) /\ Starts' = Starts
  BY DEF Filled
<1> HIDE DEF d
<1>4. PICK front \in Seq(StartEvents), last \in StartEvents : Starts = Append(front, last)
  BY <1>1, SequenceEmptyOrAppend
<1>5. /\ Len(Starts) = Len(front) + 1 /\ Len(front) \in Nat
      /\ \A i \in 1 .. Len(front) : Starts[i] = front[i]
      /\ Starts[Len(front) + 1] = last
  BY <1>4, Appended
<1>6. last.index = current.index /\ \A i \in 1 .. Len(front) : front[i].index # last.index
  <2>1. nextIndex = Len(front) + 1
    BY <1>5 DEF Numbered
  <2>2. \A i \in 1 .. Len(front) + 1 : Starts[i].index = i - 1
    BY <1>5 DEF Numbered
  <2>3. ASSUME NEW i \in 1 .. Len(front) PROVE front[i].index = i - 1
    BY <1>5, <2>2
  <2> QED BY <1>1, <1>5, <2>1, <2>2, <2>3, SMTT(30)
<1>7. Deltas' \in Seq(DeltaEvents)
  BY <1>1, <1>2, <1>3, AppendProperties
<1>8. Shown' = FlatMap(Starts, Contents(Deltas'))
  BY <1>1, <1>3, <1>7, ShownMap DEF Shown, PiecesOf
<1> QED BY <1>1, <1>2, <1>3, <1>4, <1>6, <1>8, ShownType, LastBlock

-----------------------------------------------------------------------------
(* What was sent, and how far the client has got with it.                  *)

PayloadOf == [p \in PartSet |-> IF p.payload THEN <<p.piece>> ELSE << >>]

(* The payload of parts is put together part by part.                      *)
LEMMA PayloadMap ==
    ASSUME NEW parts \in Seq(PartSet)
    PROVE  /\ Payload(parts) = FlatMap(parts, PayloadOf)
           /\ Payload(parts) \in Seq(Pieces)
           /\ PayloadOf \in [PartSet -> Seq(Pieces)]
<1>1. ASSUME NEW p \in PartSet PROVE PayloadOf[p] \in Seq(Pieces)
  <2>1. p.piece \in Pieces /\ p.payload \in BOOLEAN
    BY DEF PartSet
  <2>2. <<p.piece>> \in Seq(Pieces) /\ << >> \in Seq(Pieces)
    BY <2>1, EmptySeq
  <2> QED BY <2>2 DEF PayloadOf
<1>2. PayloadOf \in [PartSet -> Seq(Pieces)]
  BY <1>1 DEF PayloadOf
<1>3. \A i \in 1 .. Len(parts) : parts[i] \in PartSet
  BY ElementOfSeq
<1>4. [i \in 1 .. Len(parts) |-> IF parts[i].payload THEN <<parts[i].piece>> ELSE << >>]
      = [i \in 1 .. Len(parts) |-> PayloadOf[parts[i]]]
  BY <1>3 DEF PayloadOf
<1>5. Payload(parts) = FlatMap(parts, PayloadOf)
  BY <1>4 DEF Payload, FlatMap
<1> QED BY <1>2, <1>5, FlatMapType

(* One more part adds its payload; parts that follow add theirs.           *)
LEMMA PayloadGrows ==
    ASSUME NEW parts \in Seq(PartSet), NEW part \in PartSet, NEW more \in Seq(PartSet)
    PROVE  /\ Payload(Append(parts, part))
              = IF part.payload THEN Append(Payload(parts), part.piece) ELSE Payload(parts)
           /\ Payload(parts \o more) = Payload(parts) \o Payload(more)
<1> DEFINE G == PayloadOf
<1>1. /\ Append(parts, part) \in Seq(PartSet) /\ parts \o more \in Seq(PartSet)
      /\ part.piece \in Pieces /\ part.payload \in BOOLEAN
  BY AppendProperties, ConcatProperties DEF PartSet
<1>2. /\ Payload(parts) = FlatMap(parts, G) /\ Payload(parts) \in Seq(Pieces)
      /\ Payload(more) = FlatMap(more, G) /\ G \in [PartSet -> Seq(Pieces)]
      /\ Payload(Append(parts, part)) = FlatMap(Append(parts, part), G)
      /\ Payload(parts \o more) = FlatMap(parts \o more, G)
  BY <1>1, PayloadMap
<1>3. G[part] = IF part.payload THEN <<part.piece>> ELSE << >>
  BY DEF PayloadOf
<1> HIDE DEF G
<1>4. FlatMap(Append(parts, part), G) = FlatMap(parts, G) \o G[part]
      /\ FlatMap(parts \o more, G) = FlatMap(parts, G) \o FlatMap(more, G)
  <2>1. G \in [PartSet -> Seq(Pieces)]
    BY <1>2
  <2>2. FlatMap(Append(parts, part), G) = FlatMap(parts, G) \o G[part]
    BY <2>1, FlatMapAppend
  <2>3. FlatMap(parts \o more, G) = FlatMap(parts, G) \o FlatMap(more, G)
    BY <2>1, FlatMapConcat, ZenonT(60)
  <2> QED BY <2>2, <2>3
<1>5. /\ Payload(parts) \o <<part.piece>> = Append(Payload(parts), part.piece)
      /\ Payload(parts) \o << >> = Payload(parts)
  BY <1>1, <1>2, AppendIsConcat, ConcatEmptySeq
<1> QED BY <1>1, <1>2, <1>3, <1>4, <1>5

(* The parts of each chunk, as a list of lists.                            *)
LEMMA ListsOfParts ==
    ASSUME NEW chunks \in Seq(Chunks)
    PROVE  LET f == [n \in 1 .. Len(chunks) |-> PartsOf(n, chunks[n])]
           IN  f \in Seq(Seq(PartSet)) /\ Len(f) = Len(chunks)
<1> DEFINE f == [n \in 1 .. Len(chunks) |-> PartsOf(n, chunks[n])]
<1>1. Len(chunks) \in Nat /\ \A n \in 1 .. Len(chunks) : chunks[n] \in Chunk
  BY LenProperties, ElementOfSeq, ChunksAssumption
<1>2. \A n \in 1 .. Len(chunks) : PartsOf(n, chunks[n]) \in Seq(PartSet)
  BY <1>1, PartsType
<1>3. f \in [1 .. Len(chunks) -> Seq(PartSet)]
  BY <1>2
<1>4. f \in Seq(Seq(PartSet))
  BY <1>1, <1>3, SeqDef
<1> QED BY <1>1, <1>3, <1>4, LenProperties

(* What was sent are parts.                                                *)
LEMMA SentType == ASSUME TypeOK PROVE Sent \in Seq(PartSet)
<1>1. read \in Seq(Chunks)
  BY DEF TypeOK
<1> QED BY <1>1, ListsOfParts, FlattenType DEF Sent

(* Reading a chunk adds its parts.                                         *)
LEMMA SentGrows ==
    ASSUME TypeOK, NEW c \in Chunks, read' = Append(read, c)
    PROVE  /\ Sent' = Sent \o PartsOf(Len(read'), c)
           /\ PartsOf(Len(read'), c) \in Seq(PartSet)
<1> DEFINE f == [n \in 1 .. Len(read) |-> PartsOf(n, read[n])]
           g == [n \in 1 .. Len(read') |-> PartsOf(n, read'[n])]
           parts == PartsOf(Len(read'), c)
<1>1. /\ read \in Seq(Chunks) /\ read' \in Seq(Chunks) /\ Len(read) \in Nat
      /\ Len(read') = Len(read) + 1 /\ read'[Len(read) + 1] = c
      /\ \A i \in 1 .. Len(read) : read'[i] = read[i]
  BY Appended DEF TypeOK
<1>2. parts \in Seq(PartSet)
  BY <1>1, PartsType, ChunksAssumption
<1>3. /\ f \in Seq(Seq(PartSet)) /\ Len(f) = Len(read)
      /\ g \in Seq(Seq(PartSet)) /\ Len(g) = Len(read')
  BY <1>1, ListsOfParts
<1>4. /\ Append(f, parts) \in Seq(Seq(PartSet)) /\ Len(Append(f, parts)) = Len(read')
      /\ \A i \in 1 .. Len(read) : Append(f, parts)[i] = f[i]
      /\ Append(f, parts)[Len(read) + 1] = parts
  BY <1>1, <1>2, <1>3, Appended
<1>5. ASSUME NEW i \in 1 .. Len(read') PROVE g[i] = Append(f, parts)[i]
  <2>1. g[i] = PartsOf(i, read'[i])
    OBVIOUS
  <2>2. CASE i \in 1 .. Len(read)
    BY <1>1, <1>4, <2>1, <2>2
  <2>3. CASE i = Len(read) + 1
    BY <1>1, <1>4, <2>1, <2>3
  <2> QED BY <1>1, <2>2, <2>3
<1> HIDE DEF f, g, parts
<1>6. g = Append(f, parts)
  BY <1>1, <1>3, <1>4, <1>5, SeqEqual
<1>7. FlattenSeq(g) = FlattenSeq(f) \o parts
  BY <1>2, <1>3, <1>6, FlattenAppend
<1> QED BY <1>2, <1>7 DEF Sent, f, g, parts

-----------------------------------------------------------------------------
(* Runs of fragments of the same call.                                     *)

Runs(parts) ==
    \A i, j \in 1 .. Len(parts) :
        i < j /\ parts[i].piece.call = parts[j].piece.call /\ parts[i].piece.call # NoCall =>
            \A k \in i .. j : parts[k].piece.call = parts[i].piece.call

(* Contiguous says so of what was sent.                                    *)
LEMMA ContiguousRuns == ASSUME TypeOK PROVE Contiguous <=> Runs(Sent)
<1>1. Sent \in Seq(PartSet) /\ Len(Sent) \in Nat
  BY SentType, LenProperties
<1>2. ASSUME NEW i \in 1 .. Len(Sent) PROVE Sent[i].piece.call \in Calls \cup {NoCall}
  <2>1. Sent[i] \in PartSet
    BY <1>1, ElementOfSeq
  <2> QED BY <2>1 DEF PartSet, Pieces
<1>3. CallsOf(Sent) \in [1 .. Len(Sent) -> Calls \cup {NoCall}]
  BY <1>2 DEF CallsOf
<1>4. CallsOf(Sent) \in Seq(Calls \cup {NoCall})
  BY <1>1, <1>3, SeqDef
<1>5. Len(CallsOf(Sent)) = Len(Sent)
  BY <1>1, <1>3, <1>4, LenProperties
<1>6. \A i \in 1 .. Len(Sent) : CallsOf(Sent)[i] = Sent[i].piece.call
  BY DEF CallsOf
<1>7. \A i, j \in 1 .. Len(Sent) : \A k \in i .. j : k \in 1 .. Len(Sent)
  <2>1. \A n \in Nat : \A i, j \in 1 .. n : \A k \in i .. j : k \in 1 .. n
    OBVIOUS
  <2> QED BY <1>1, <2>1, Zenon
<1>8. PICK call : call = CallsOf(Sent)
  OBVIOUS
<1>9. PICK n : n = Len(Sent)
  OBVIOUS
<1>10. /\ Len(call) = n /\ Len(Sent) = n
       /\ \A i \in 1 .. n : call[i] = Sent[i].piece.call
       /\ \A i, j \in 1 .. n : \A k \in i .. j : k \in 1 .. n
  BY <1>5, <1>6, <1>7, <1>8, <1>9
<1>11. Contiguous
       <=> \A i, j \in 1 .. n :
               i < j /\ call[i] = call[j] /\ call[i] # NoCall =>
                   \A k \in i .. j : call[k] = call[i]
  BY <1>8, <1>10, Zenon DEF Contiguous
<1>12. Runs(Sent)
       <=> \A i, j \in 1 .. n :
               i < j /\ Sent[i].piece.call = Sent[j].piece.call /\ Sent[i].piece.call # NoCall =>
                   \A k \in i .. j : Sent[k].piece.call = Sent[i].piece.call
  BY <1>10, Zenon DEF Runs
<1> QED BY <1>10, <1>11, <1>12, SMTT(30)

(* The runs of a list are those of its prefixes.                           *)
LEMMA RunsOfPrefix ==
    ASSUME NEW s \in Seq(PartSet), NEW t \in Seq(PartSet), Runs(s \o t)
    PROVE  Runs(s)
<1>1. /\ Len(s) \in Nat /\ Len(t) \in Nat /\ Len(s \o t) = Len(s) + Len(t)
      /\ \A i \in 1 .. Len(s) : (s \o t)[i] = s[i]
  BY ConcatProperties, LenProperties
<1>2. \A i \in 1 .. Len(s) : i \in 1 .. Len(s \o t)
  BY <1>1
<1>3. \A i, j \in 1 .. Len(s) : \A k \in i .. j : k \in 1 .. Len(s)
  BY <1>1
<1> HIDE DEF Runs
<1> SUFFICES ASSUME NEW i \in 1 .. Len(s), NEW j \in 1 .. Len(s),
                    i < j, s[i].piece.call = s[j].piece.call, s[i].piece.call # NoCall,
                    NEW k \in i .. j
             PROVE  s[k].piece.call = s[i].piece.call
  BY DEF Runs
<1>4. (s \o t)[k].piece.call = (s \o t)[i].piece.call
  BY <1>1, <1>2 DEF Runs
<1> QED BY <1>1, <1>3, <1>4

-----------------------------------------------------------------------------
(* How far the translation has got.                                        *)

(* Every started call has been met in a part that is done, or its block is *)
(* the newest and waits for the part that comes next.                      *)
Met(done) ==
    \A t \in started :
        \/ \E i \in 1 .. Len(done) : done[i].piece.call = t
        \/ /\ Remaining # << >> /\ Head(Remaining).piece.call = t
           /\ Starts[nextIndex].call = t

(* The calls of the parts that are done have been started.                 *)
Known(done) ==
    \A i \in 1 .. Len(done) : done[i].piece.call # NoCall => done[i].piece.call \in started

(* As long as calls come in runs, the newest block is that of the latest   *)
(* part, if it is a fragment, or waits for the part that comes next.       *)
Newest(done) ==
    Runs(Sent) /\ done # << >> /\ done[Len(done)].piece.call # NoCall =>
        \/ Starts[nextIndex].call = done[Len(done)].piece.call
        \/ Remaining # << >> /\ Starts[nextIndex].call = Head(Remaining).piece.call

(* The parts that are done make up, with what remains, all that was sent,  *)
(* and their payload is what the client shows.                             *)
Through(done) ==
    /\ Sent = done \o Remaining
    /\ Shown = Payload(done)
    /\ Met(done) /\ Known(done) /\ Newest(done)

Progress ==
    /\ pc # "failed" => \E done \in Seq(PartSet) : Through(done)
    /\ IsPrefix(Shown, SentPayload)

(* Nothing was sent and nothing is shown at first.                         *)
LEMMA InitProgress == Init => Progress
<1> SUFFICES ASSUME Init PROVE Progress
  OBVIOUS
<1>1. read = << >> /\ started = {} /\ Starts = << >> /\ Remaining = << >> /\ Len(Starts) = 0
  BY InitCollected, EmptySeq DEF Init, Starts, Remaining
<1>2. Sent = << >> /\ Shown = << >>
  BY <1>1, FlattenEmpty, EmptySeq DEF Sent, Shown
<1>3. Payload(<< >>) = << >> /\ << >> \in Seq(PartSet) /\ << >> \o << >> = << >>
      /\ Len(<< >>) = 0
  BY PayloadMap, FlatMapEmpty, EmptySeq, ConcatEmptySeq
<1>4. Through(<< >>)
  BY <1>1, <1>2, <1>3 DEF Through, Met, Known, Newest
<1>5. IsPrefix(Shown, SentPayload)
  BY <1>2, <1>3 DEF SentPayload, IsPrefix
<1> QED BY <1>3, <1>4, <1>5 DEF Progress

(* What was done is a prefix of what was sent.                             *)
LEMMA ThroughPrefix ==
    ASSUME TypeOK, NEW done \in Seq(PartSet), Sent = done \o Remaining, Shown = Payload(done)
    PROVE  IsPrefix(Shown, SentPayload)
<1>1. Remaining \in Seq(PartSet)
  BY RemainingType
<1>2. /\ SentPayload = Payload(done) \o Payload(Remaining)
      /\ Payload(done) \in Seq(Pieces) /\ Payload(Remaining) \in Seq(Pieces)
  <2>1. Payload(done) \in Seq(Pieces) /\ Payload(Remaining) \in Seq(Pieces)
    BY <1>1, PayloadMap
  <2>2. \A part \in PartSet : Payload(done \o Remaining) = Payload(done) \o Payload(Remaining)
    BY <1>1, PayloadGrows
  <2>3. Part(0, "text", NoCall, TRUE) \in PartSet
    BY ProseType
  <2> QED BY <2>1, <2>2, <2>3 DEF SentPayload
<1> QED BY <1>2, PrefixOfConcat

(* Before a step and after it.                                             *)
LEMMA NextPrefix ==
    (TypeOK => \A some \in Seq(PartSet) : Through(some) => IsPrefix(Shown, SentPayload))'
<1>1. TypeOK => \A some \in Seq(PartSet) : Through(some) => IsPrefix(Shown, SentPayload)
  BY ThroughPrefix DEF Through
<1> QED BY <1>1, PTL

(* A chunk is taken when nothing remains of the last.                      *)
LEMMA TookThrough ==
    ASSUME Inv, NEW c \in Chunks, Took(c), NEW done \in Seq(PartSet), Through(done)
    PROVE  Through(done)'
<1>1. /\ Sent' = Sent \o PartsOf(Len(read'), c)
      /\ PartsOf(Len(read'), c) \in Seq(PartSet) /\ Sent \in Seq(PartSet)
  BY SentGrows, SentType DEF Took, Inv
<1>2. Sent = done
  BY ConcatEmptySeq DEF Took, Through
<1>3. /\ Remaining = << >> /\ Remaining' = PartsOf(Len(read'), c)
      /\ UNCHANGED <<started, nextIndex, Starts>>
  BY DEF Took, Quiet
<1>4. Shown' = Shown
  BY ShownQuiet DEF Took
<1>5. Runs(Sent') => Runs(Sent)
  BY <1>1, RunsOfPrefix
<1>6. Met(done)' /\ Known(done)' /\ Newest(done)'
  BY <1>3, <1>5 DEF Through, Met, Known, Newest
<1> QED BY <1>1, <1>2, <1>3, <1>4, <1>6 DEF Through

(* Nothing changes.                                                        *)
LEMMA CalmThrough ==
    ASSUME Calm, NEW done, Through(done)
    PROVE  Through(done)'
<1>1. UNCHANGED <<Sent, Shown, Remaining, started, nextIndex, Starts>>
  BY ShownQuiet DEF Calm, Quiet, Sent
<1> QED BY <1>1 DEF Through, Met, Known, Newest

(* A block is opened for the part that comes next.                         *)
LEMMA OpenedThrough ==
    ASSUME Inv, Numbered, NEW typ \in Types, NEW call \in Calls \cup {NoCall},
           OpenedNext(typ, call), NEW done, Through(done)
    PROVE  Through(done)'
<1>1. /\ UNCHANGED <<Sent, Remaining>> /\ Opened(typ, call)
      /\ Remaining # << >> /\ Head(Remaining).piece.call = call
  BY DEF OpenedNext, Sent
<1>2. UNCHANGED Shown
  BY <1>1, ShownOpened
<1>3. Starts'[nextIndex'].call = call
  <2>1. /\ Starts' = Append(Starts, [name |-> "content_block_start", index |-> nextIndex,
                                     typ |-> typ, call |-> call])
        /\ nextIndex' = nextIndex + 1 /\ Len(Starts) = nextIndex
        /\ Starts \in Seq(StartEvents)
    BY <1>1, CollectedType DEF Opened, Numbered, Inv
  <2> QED BY <2>1, AppendProperties
<1>4. Met(done)'
  <2> SUFFICES ASSUME NEW t \in started'
               PROVE  \/ \E i \in 1 .. Len(done) : done[i].piece.call = t
                      \/ Remaining # << >> /\ Head(Remaining).piece.call = t
                         /\ Starts'[nextIndex'].call = t
    BY <1>1 DEF Met
  <2>1. CASE t = call
    BY <1>1, <1>3, <2>1
  <2>2. CASE t # call
    <3>1. t \in started
      BY <1>1, <2>2 DEF Opened
    <3> QED BY <1>1, <2>2, <3>1 DEF Through, Met
  <2> QED BY <2>1, <2>2
<1>5. Known(done)'
  <2>1. started \subseteq started'
    BY <1>1 DEF Opened
  <2> QED BY <2>1 DEF Through, Known
<1>6. Newest(done)'
  BY <1>1, <1>3 DEF Newest
<1> QED BY <1>1, <1>2, <1>4, <1>5, <1>6 DEF Through

(* While calls come in runs, a started call that comes next has the newest *)
(* block.                                                                  *)
LEMMA NextHasNewest ==
    ASSUME Inv, NEW done \in Seq(PartSet), Through(done), Runs(Sent), Remaining # << >>,
           Head(Remaining).piece.call \in started
    PROVE  Starts[nextIndex].call = Head(Remaining).piece.call
<1> DEFINE h == Head(Remaining)
           n == Len(done)
<1>1. /\ Remaining \in Seq(PartSet) /\ h = Remaining[1] /\ Len(Remaining) \in Nat \ {0}
      /\ n \in Nat /\ h.piece.call # NoCall
  BY RemainingType, HeadTailProperties, LenProperties, EmptySeq, NoneAssumption DEF Inv, TypeOK
<1>2. /\ Len(Sent) = n + Len(Remaining)
      /\ \A i \in 1 .. n : Sent[i] = done[i]
      /\ Sent[n + 1] = h
  BY <1>1, ConcatProperties DEF Through
<1>3. CASE \E i \in 1 .. n : done[i].piece.call = h.piece.call
  <2>1. PICK i \in 1 .. n : done[i].piece.call = h.piece.call
    BY <1>3
  <2>2. /\ i \in 1 .. Len(Sent) /\ n + 1 \in 1 .. Len(Sent) /\ i < n + 1 /\ n \in i .. n + 1
        /\ n \in 1 .. n
    BY <1>1, <1>2
  <2>3. Sent[i].piece.call = h.piece.call /\ Sent[n + 1].piece.call = h.piece.call
    BY <1>2, <2>1
  <2> HIDE DEF h
  <2>4. Sent[n].piece.call = h.piece.call
    BY <1>1, <2>2, <2>3 DEF Runs
  <2>5. done[n].piece.call = h.piece.call /\ done # << >>
    BY <1>2, <2>2, <2>4, EmptySeq
  <2> QED BY <1>1, <2>5 DEF Through, Newest, h
<1>4. CASE ~ \E i \in 1 .. n : done[i].piece.call = h.piece.call
  BY <1>4 DEF Through, Met
<1> QED BY <1>3, <1>4

(* The part that comes next is handled.                                    *)
LEMMA HandledThrough ==
    ASSUME Inv, Numbered, NEW part \in PartSet, Handled(part),
           NEW done \in Seq(PartSet), Through(done)
    PROVE  Through(Append(done, part))'
<1> DEFINE all == Append(done, part)
<1>1. /\ Remaining \in Seq(PartSet) /\ Remaining # << >> /\ Head(Remaining) = part
      /\ Remaining' = Tail(Remaining)
  BY RemainingType DEF Inv, Handled
<1>2. UNCHANGED <<Sent, Starts, nextIndex, started>>
  BY DEF Handled, Filled, Quiet, Sent
<1>3. /\ all \in Seq(PartSet) /\ Len(all) = Len(done) + 1 /\ Len(done) \in Nat
      /\ \A i \in 1 .. Len(done) : all[i] = done[i]
      /\ all[Len(done) + 1] = part /\ all # << >>
  BY Appended, EmptySeq
<1>4. Sent' = all \o Remaining'
  BY <1>1, <1>2, MoveHead DEF Through
<1>5. Shown' = Payload(all)
  <2>1. Shown' = IF part.payload THEN Append(Shown, part.piece) ELSE Shown
    BY ShownFilled, ShownQuiet DEF Handled, PartSet
  <2>2. Payload(all) = IF part.payload THEN Append(Payload(done), part.piece) ELSE Payload(done)
    BY PayloadGrows
  <2> QED BY <2>1, <2>2 DEF Through
<1> HIDE DEF all
<1>6. Met(all)'
  <2> SUFFICES ASSUME NEW t \in started PROVE \E i \in 1 .. Len(all) : all[i].piece.call = t
    BY <1>2 DEF Met
  <2>1. CASE \E i \in 1 .. Len(done) : done[i].piece.call = t
    <3>1. PICK i \in 1 .. Len(done) : done[i].piece.call = t
      BY <2>1
    <3>2. i \in 1 .. Len(all) /\ all[i].piece.call = t
      BY <1>3, <3>1
    <3> QED BY <3>2
  <2>2. CASE part.piece.call = t
    <3>1. Len(done) + 1 \in 1 .. Len(all) /\ all[Len(done) + 1].piece.call = t
      BY <1>3, <2>2
    <3> QED BY <3>1
  <2> QED BY <1>1, <2>1, <2>2 DEF Through, Met
<1>7. Known(all)'
  <2> SUFFICES ASSUME NEW i \in 1 .. Len(all), all[i].piece.call # NoCall
               PROVE  all[i].piece.call \in started
    BY <1>2 DEF Known
  <2>1. CASE i \in 1 .. Len(done)
    BY <1>3, <2>1 DEF Through, Known
  <2>2. CASE i = Len(done) + 1
    BY <1>3, <2>2 DEF Handled
  <2> QED BY <1>3, <2>1, <2>2
<1>8. Newest(all)'
  <2> SUFFICES ASSUME Runs(Sent), all[Len(all)].piece.call # NoCall
               PROVE  Starts[nextIndex].call = all[Len(all)].piece.call
    BY <1>2 DEF Newest
  <2>1. all[Len(all)] = part
    BY <1>3
  <2>2. part.piece.call \in started
    BY <2>1 DEF Handled
  <2> QED BY <1>1, <2>1, <2>2, NextHasNewest
<1> QED BY <1>4, <1>5, <1>6, <1>7, <1>8 DEF Through, all

(* Every step gets on.                                                     *)
LEMMA NextProgress == Inv /\ Inv' /\ Numbered /\ Progress /\ [Next]_vars => Progress'
<1> SUFFICES ASSUME Inv, Inv', Numbered, Progress, [Next]_vars PROVE Progress'
  OBVIOUS
<1>1. CASE Gone
  <2>1. UNCHANGED <<Shown, SentPayload>>
    BY <1>1, ShownQuiet DEF Gone, SentPayload, Sent
  <2> QED BY <1>1, <2>1 DEF Gone, Progress
<1>2. CASE pc # "failed" /\ pc' # "failed"
  <2>1. PICK done \in Seq(PartSet) : Through(done)
    BY <1>2 DEF Progress
  <2>2. \E more \in Seq(PartSet) : Through(more)'
    <3>1. ASSUME NEW part \in PartSet, Handled(part)
          PROVE  \E more \in Seq(PartSet) : Through(more)'
      <4>1. Append(done, part) \in Seq(PartSet)
        BY <2>1, AppendProperties
      <4> QED BY <2>1, <3>1, <4>1, HandledThrough
    <3> QED BY <1>2, <2>1, <3>1, StepKinds, TookThrough, CalmThrough, OpenedThrough DEF Gone
  <2>3. PICK more \in Seq(PartSet) : Through(more)'
    BY <2>2
  <2>4. IsPrefix(Shown, SentPayload)'
    BY <2>3, NextPrefix DEF Inv
  <2> QED BY <2>2, <2>4 DEF Progress
<1>3. Gone \/ (pc # "failed" /\ pc' # "failed")
  BY StepKinds DEF Took, Calm, OpenedNext, Handled
<1> QED BY <1>1, <1>2, <1>3

(* As long as calls come in runs, a fragment is in the block of its call.  *)
CallsKept ==
    Runs(Sent) =>
        \A i \in 1 .. Len(Deltas) :
            Deltas[i].piece.typ = "tool_use" =>
                Starts[Deltas[i].index + 1].call = Deltas[i].piece.call

(* Every step keeps it so.                                                 *)
LEMMA NextCallsKept ==
    Inv /\ Held /\ Progress /\ CallsKept /\ [Next]_vars => CallsKept'
<1> SUFFICES ASSUME Inv, Held, Progress, CallsKept, [Next]_vars, Runs(Sent')
             PROVE  \A i \in 1 .. Len(Deltas') :
                        Deltas'[i].piece.typ = "tool_use" =>
                            Starts'[Deltas'[i].index + 1].call = Deltas'[i].piece.call
  BY DEF CallsKept
<1>1. /\ nextIndex \in Nat /\ TypeOK /\ Numbered /\ Len(Starts) = nextIndex
      /\ Starts \in Seq(StartEvents) /\ Deltas \in Seq(DeltaEvents)
  BY CollectedType DEF Inv, TypeOK, Held, Numbered
<1>2. CASE \E c \in Chunks : Took(c)
  <2>1. PICK c \in Chunks : Took(c)
    BY <1>2
  <2>2. /\ Sent' = Sent \o PartsOf(Len(read'), c)
        /\ PartsOf(Len(read'), c) \in Seq(PartSet) /\ Sent \in Seq(PartSet)
    BY <1>1, <2>1, SentGrows, SentType DEF Took
  <2>3. Runs(Sent)
    BY <2>2, RunsOfPrefix
  <2> QED BY <2>1, <2>3 DEF Took, Quiet, CallsKept
<1>3. CASE Quiet /\ UNCHANGED read
  BY <1>3 DEF Quiet, CallsKept, Sent
<1>4. CASE \E typ \in Types, call \in Calls \cup {NoCall} : OpenedNext(typ, call)
  <2>1. PICK typ \in Types, call \in Calls \cup {NoCall} : OpenedNext(typ, call)
    BY <1>4
  <2> DEFINE e == [name |-> "content_block_start", index |-> nextIndex, typ |-> typ, call |-> call]
  <2>2. Starts' = Append(Starts, e) /\ Deltas' = Deltas /\ Sent' = Sent
    BY <2>1 DEF OpenedNext, Opened, Sent
  <2> SUFFICES ASSUME NEW i \in 1 .. Len(Deltas), Deltas[i].piece.typ = "tool_use"
               PROVE  Starts'[Deltas[i].index + 1].call = Deltas[i].piece.call
    BY <2>2
  <2>3. Deltas[i].index + 1 \in 1 .. Len(Starts)
    BY <1>1, DeltaIndex
  <2>4. e \in StartEvents
    BY <1>1 DEF StartEvents
  <2>5. Starts'[Deltas[i].index + 1] = Starts[Deltas[i].index + 1]
    BY <1>1, <2>2, <2>3, <2>4, Appended
  <2> QED BY <2>2, <2>5 DEF CallsKept
<1>5. CASE \E part \in PartSet : Handled(part) /\ part.payload
  <2>1. PICK part \in PartSet : Handled(part) /\ part.payload
    BY <1>5
  <2> DEFINE d == [name |-> "content_block_delta", index |-> current.index, piece |-> part.piece]
  <2>2. /\ Deltas' = Append(Deltas, d) /\ Starts' = Starts /\ Sent' = Sent
        /\ current # NoBlock /\ current.index = nextIndex - 1
    BY <1>1, <2>1 DEF Handled, Filled, Sent, Numbered
  <2>3. d \in DeltaEvents /\ d.index = current.index /\ d.piece = part.piece
    <3>1. current.index \in Nat /\ part.piece \in Pieces
      BY <1>1, <2>2 DEF TypeOK, Blocks, PartSet
    <3> QED BY <3>1 DEF DeltaEvents
  <2> HIDE DEF d
  <2> SUFFICES ASSUME NEW i \in 1 .. Len(Deltas'), Deltas'[i].piece.typ = "tool_use"
               PROVE  Starts[Deltas'[i].index + 1].call = Deltas'[i].piece.call
    BY <2>2
  <2>4. /\ Len(Deltas') = Len(Deltas) + 1 /\ Len(Deltas) \in Nat
        /\ \A k \in 1 .. Len(Deltas) : Deltas'[k] = Deltas[k]
        /\ Deltas'[Len(Deltas) + 1] = d
    BY <1>1, <2>2, <2>3, Appended
  <2>5. CASE i \in 1 .. Len(Deltas)
    BY <2>2, <2>4, <2>5 DEF CallsKept
  <2>6. CASE i = Len(Deltas) + 1
    <3>1. part.piece.call \in started
      BY <2>1, <2>3, <2>4, <2>6, NoneAssumption DEF Handled
    <3>2. PICK done \in Seq(PartSet) : Through(done)
      BY <2>1 DEF Handled, Progress
    <3>3. Starts[nextIndex].call = part.piece.call
      BY <2>1, <2>2, <3>1, <3>2, NextHasNewest DEF Handled
    <3>4. Deltas'[i].index + 1 = nextIndex
      BY <1>1, <2>2, <2>3, <2>4, <2>6
    <3> QED BY <2>3, <2>4, <2>6, <3>3, <3>4
  <2> QED BY <2>4, <2>5, <2>6
<1> QED
  BY <1>2, <1>3, <1>4, <1>5, StepKinds DEF Took, Calm, Handled, Gone

-----------------------------------------------------------------------------
(* The end of the message.                                                 *)

(* Only two steps close the message.                                       *)
LEMMA ClosingSteps ==
    ASSUME Inv, [Next]_vars
    PROVE  \/ MessageDelta
           \/ MessageStop
           \/ UNCHANGED <<Named("message_delta"), Named("message_stop")>>
<1> DEFINE Same == UNCHANGED <<Named("message_delta"), Named("message_stop")>>
<1>1. out \in Seq(Events)
  BY DEF Inv, TypeOK
<1>2. ASSUME NEW e \in Events, Emit(e), e.name \notin {"message_delta", "message_stop"} PROVE Same
  BY <1>1, <1>2, EmitNamed
<1>3. UNCHANGED out => Same
  BY SilentNamed
<1> HIDE DEF Same
<1>4. ASSUME current # NoBlock, StopBlock PROVE Same
  <2>1. current.index \in Nat
    BY <1>4 DEF Inv, TypeOK, Blocks
  <2> QED BY <1>2, <1>4, <2>1, BlockEvents DEF StopBlock
<1>5. ASSUME NEW typ \in Types, NEW call \in Calls \cup {NoCall}, OpenBlock(typ, call) PROVE Same
  <2>1. nextIndex \in Nat
    BY DEF Inv, TypeOK
  <2> DEFINE e == [name |-> "content_block_start", index |-> nextIndex, typ |-> typ, call |-> call]
  <2>2. e \in Events /\ e.name = "content_block_start"
    BY <2>1, BlockEvents
  <2>3. (current # NoBlock /\ StopBlock) \/ Emit(e)
    BY <1>5 DEF OpenBlock, StartBlock
  <2> HIDE DEF e
  <2> QED BY <1>2, <1>4, <2>2, <2>3
<1>6. ASSUME NEW piece \in Pieces, current # NoBlock, FillBlock(piece) PROVE Same
  <2>1. current.index \in Nat
    BY <1>6 DEF Inv, TypeOK, Blocks
  <2> DEFINE e == [name |-> "content_block_delta", index |-> current.index, piece |-> piece]
  <2>2. e \in Events /\ e.name = "content_block_delta" /\ Emit(e)
    BY <1>6, <2>1, BlockEvents DEF FillBlock
  <2> HIDE DEF e
  <2> QED BY <1>2, <2>2
<1>7. MessageStart => Same
  BY <1>2, MessageEvents DEF MessageStart
<1>8. OpenThinking \/ OpenText => Same
  BY <1>5 DEF OpenThinking, OpenText, Types
<1>9. OpenCall => Same
  <2>1. "tool_use" \in Types
    BY DEF Types
  <2> QED BY <1>5, <2>1, FragmentType DEF OpenCall, Inv
<1>10. ThinkingDelta \/ TextDelta => Same
  <2>1. Piece("thinking", NoCall) \in Pieces /\ Piece("text", NoCall) \in Pieces
    BY PieceType DEF Inv, Types
  <2> QED BY <1>6, <2>1 DEF ThinkingDelta, TextDelta, InBlock
<1>11. CallDelta => Same
  <2> SUFFICES ASSUME CallDelta PROVE Same
    OBVIOUS
  <2>1. /\ Head(pending).index \in started /\ current # NoBlock
        /\ FillBlock(Piece("tool_use", Head(pending).index)) \/ UNCHANGED out
    BY DEF CallDelta, Inv, Orderly
  <2>2. Piece("tool_use", Head(pending).index) \in Pieces
    BY <2>1, PieceType DEF Inv, TypeOK, Types
  <2> QED BY <1>3, <1>6, <2>1, <2>2
<1>12. CloseLast => Same
  BY <1>4 DEF CloseLast
<1>13. \/ UNCHANGED vars \/ (\E c \in Chunks : Read(c))
       \/ ReadEnd \/ ReadFails \/ NoReasoning \/ BadText \/ NoText \/ CallsDone \/ TakeUsage
       \/ Closed \/ WriteFails
       => Same
  BY <1>3 DEF vars, Read, ReadEnd, ReadFails, NoReasoning, BadText, NoText, CallsDone, TakeUsage,
              Closed, WriteFails
<1> QED
  BY <1>7, <1>8, <1>9, <1>10, <1>11, <1>12, <1>13 DEF Next, Same

(* What message_delta carried is kept, and a stream that is complete is    *)
(* done.                                                                   *)
Final ==
    /\ Complete => pc = "done"
    /\ Named("message_delta") # << >> =>
          pc \in {"stop", "done", "failed"}

(* Once a stream is on its way out nothing but message_stop follows.       *)
LEMMA NothingFollows ==
    ASSUME [Next]_vars, pc \in {"stop", "done", "failed"}
    PROVE  \/ UNCHANGED vars
           \/ MessageStop /\ pc = "stop"
           \/ /\ pc = "stop" /\ pc' = "failed"
              /\ UNCHANGED <<read, pending, current, stopped, nextIndex, started, stopReason,
                             totals, out>>
BY DEF Next, MessageStart, Read, ReadEnd, ReadFails, NoReasoning, OpenThinking, ThinkingDelta,
       BadText, NoText, OpenText, TextDelta, OpenCall, CallDelta, CallsDone, TakeUsage, CloseLast,
       Closed, MessageDelta, MessageStop, WriteFails, Writing, At, Goto

(* It is so in every state.                                                *)
LEMMA NextFinal == Inv /\ Final /\ [Next]_vars => Final'
<1> SUFFICES ASSUME Inv, Final, [Next]_vars PROVE Final'
  OBVIOUS
<1>1. out \in Seq(Events) /\ [stopReason |-> stopReason, usage |-> totals] \in Closings
  BY DEF Inv, TypeOK, Closings
<1>2. CASE MessageDelta
  <2>1. pc = "delta" /\ pc' = "stop"
    BY <1>2 DEF MessageDelta, At, Goto
  <2>2. Named("message_stop")' = Named("message_stop")
    BY <1>1, <1>2, MessageEvents, EmitNamed DEF MessageDelta
  <2> QED BY <2>1, <2>2 DEF Final, Complete
<1>3. CASE MessageStop
  BY <1>3 DEF MessageStop, At, Goto, Final
<1>4. CASE UNCHANGED <<Named("message_delta"), Named("message_stop")>>
  <2>1. CASE pc \in {"stop", "done", "failed"}
    <3>1. \/ pc' = pc
          \/ pc = "stop" /\ pc' \in {"done", "failed"}
      BY <2>1, NothingFollows DEF vars, MessageStop, Goto
    <3> QED BY <1>4, <2>1, <3>1 DEF Final, Complete
  <2>2. CASE pc \notin {"stop", "done", "failed"}
    BY <1>4, <2>2 DEF Final, Complete
  <2> QED BY <2>1, <2>2
<1> QED BY <1>2, <1>3, <1>4, ClosingSteps

(* The invariant of a stream and its client.                               *)
ClientInv == Inv /\ Held /\ Progress /\ CallsKept /\ Final

(* It holds in every state.                                                *)
LEMMA ClientInvariant == Spec => []ClientInv
<1>1. Init => CallsKept /\ Final
  <2>1. Init => Deltas = << >> /\ Named("message_stop") = << >> /\ Named("message_delta") = << >>
    BY InitCollected DEF Deltas
  <2> QED BY <2>1, EmptySeq DEF CallsKept, Final, Complete
<1>2. Init => ClientInv
  BY <1>1, InitInv, InitHeld, InitProgress DEF ClientInv
<1>3. ClientInv /\ [Next]_vars => ClientInv'
  <2> SUFFICES ASSUME ClientInv, [Next]_vars PROVE ClientInv'
    OBVIOUS
  <2>1. Inv' /\ Held'
    BY NextInv, NextHeld DEF ClientInv
  <2>2. Progress'
    BY <2>1, NextProgress DEF ClientInv, Held
  <2>3. CallsKept' /\ Final'
    BY NextCallsKept, NextFinal DEF ClientInv
  <2> QED BY <2>1, <2>2, <2>3 DEF ClientInv
<1> QED BY <1>2, <1>3, PTL DEF Spec

(* Once complete, everything sent has been handled.                        *)
LEMMA CompleteThrough ==
    ASSUME ClientInv, Complete
    PROVE  Sent \in Seq(PartSet) /\ Shown = Payload(Sent) /\ Met(Sent) /\ Known(Sent)
<1>1. pc = "done"
  BY DEF ClientInv, Final
<1>2. Remaining = << >>
  BY <1>1 DEF Remaining
<1>3. PICK done \in Seq(PartSet) : Through(done)
  BY <1>1 DEF ClientInv, Progress
<1>4. Sent = done
  BY <1>2, <1>3, ConcatEmptySeq DEF Through
<1> QED BY <1>3, <1>4 DEF Through

(* The client has what the upstream sent, in that order and nothing twice, *)
(* and all of it once it has message_stop.                                 *)
THEOREM ClientHasWhatWasSent == Spec => []ShownAsSent
<1>1. ClientInv => ShownAsSent
  BY CompleteThrough DEF ClientInv, Progress, ShownAsSent, SentPayload
<1> QED BY <1>1, ClientInvariant, PTL

(* A call gets one block however many fragments it comes in.               *)
THEOREM CallsGetOneBlock == Spec => []OneBlockPerCall
<1>1. ClientInv => OneBlockPerCall
  <2> SUFFICES ASSUME ClientInv, NEW t \in Calls
               PROVE  LET own == {k \in 1 .. Len(Starts) : Starts[k].call = t}
                      IN  /\ \A j, k \in own : j = k
                          /\ Complete /\ (\E i \in 1 .. Len(Sent) : Sent[i].piece.call = t) =>
                                own # {}
    BY DEF OneBlockPerCall
  <2>1. t # NoCall
    BY NoneAssumption
  <2>2. ASSUME Complete, NEW i \in 1 .. Len(Sent), Sent[i].piece.call = t
        PROVE  \E k \in 1 .. Len(Starts) : Starts[k].call = t
    <3>1. t \in started
      BY <2>1, <2>2, CompleteThrough DEF Known
    <3> QED BY <3>1 DEF ClientInv, Held, OneEach
  <2> QED BY <2>1, <2>2 DEF ClientInv, Held, OneEach
<1> QED BY <1>1, ClientInvariant, PTL

(* Calls that come one after the other keep their arguments.               *)
THEOREM RunsKeepTheirArguments == Spec => []ContiguousCallsKeepTheirArguments
<1>1. ClientInv => ContiguousCallsKeepTheirArguments
  <2> SUFFICES ASSUME ClientInv, Contiguous, NEW i \in 1 .. Len(Deltas),
                      Deltas[i].piece.typ = "tool_use"
               PROVE  StartOf(Deltas[i].index).call = Deltas[i].piece.call
    BY DEF ContiguousCallsKeepTheirArguments, InItsOwnCall
  <2>1. Inv /\ TypeOK /\ Held /\ Numbered /\ CallsKept
    BY DEF ClientInv, Inv, Held
  <2>2. Deltas[i].index \in Nat /\ Deltas[i].index < nextIndex
    BY <2>1, DeltaIndex
  <2>3. Runs(Sent)
    BY <2>1, ContiguousRuns
  <2> QED BY <2>1, <2>2, <2>3, StartFound DEF CallsKept
<1> QED BY <1>1, ClientInvariant, PTL

-----------------------------------------------------------------------------
(* What the end of the message tells.                                      *)

(* A set of places that is not empty has a latest.                         *)
LEMMA LatestNumber ==
    ASSUME NEW n \in Nat, NEW S \in SUBSET (1 .. n), S # {}
    PROVE  /\ Latest(S) \in S /\ \A m \in S : m <= Latest(S)
           /\ \A k \in S : (\A m \in S : m <= k) => Latest(S) = k
<1> DEFINE T == {k \in Nat : \A m \in S : m <= k}
<1>1. \A m \in S : m \in Nat /\ m <= n /\ m # 0
  OBVIOUS
<1>2. n \in T /\ T \in SUBSET Nat
  BY <1>1
<1>3. PICK x \in T : \A y \in T : x <= y
  BY <1>2, LeastNumber
<1>4. x \in Nat /\ \A m \in S : m <= x
  BY <1>3
<1>5. x \in S
  <2> SUFFICES ASSUME x \notin S PROVE FALSE
    OBVIOUS
  <2>1. PICK m \in S : TRUE
    OBVIOUS
  <2>2. x # 0
    BY <1>1, <1>4, <2>1
  <2>3. x - 1 \in Nat /\ \A k \in S : k <= x - 1
    BY <1>1, <1>4, <2>2
  <2>4. x - 1 \in T
    BY <2>3
  <2> QED BY <1>3, <1>4, <2>4
<1>6. \A k \in S : (\A m \in S : m <= k) => k = x
  BY <1>1, <1>4, <1>5
<1>7. Latest(S) = x
  BY <1>4, <1>5, <1>6 DEF Latest
<1> QED BY <1>4, <1>5, <1>6, <1>7

(* The places of chunks, as the latest is taken of them.                   *)
LEMMA ChunkPlaces ==
    ASSUME TypeOK
    PROVE  /\ Len(read) \in Nat
           /\ Finished \in SUBSET (1 .. Len(read)) /\ Counted \in SUBSET (1 .. Len(read))
           /\ Ending \in SUBSET (1 .. Len(read)) /\ Billed \in SUBSET (1 .. Len(read))
           /\ \A n \in 1 .. Len(read) : read[n] \in Chunk
BY LenProperties, ElementOfSeq, ChunksAssumption
DEF TypeOK, Finished, Counted, Ending, Billed

Handling == pc \in {"reasoning", "text", "calls", "usage"}

(* The chunks whose usage has been taken.                                  *)
Charged == IF Handling THEN Counted \ {Len(read)} ELSE Counted

(* usage tells the latest of the chunks in S.                              *)
Bills(usage, S) ==
    /\ S = {} => usage.input = 0 /\ usage.cacheRead = 0
    /\ S # {} =>
          LET u == read[Latest(S)].usage
          IN  /\ usage.cacheRead = u.cached
              /\ usage.cacheWrite = u.written
              /\ IF u.cached <= u.prompt
                 THEN usage.input + usage.cacheRead = u.prompt
                 ELSE usage.input = 0
              /\ usage.output >= u.completion
              /\ NoTextAfter(Latest(S)) => usage.output = u.completion

Ended(reason) ==
    /\ Finished = {} => reason = "end_turn"
    /\ Finished # {} => reason = StopReason(read[Latest(Finished)].finish)

Told ==
    /\ Handling => chunk.delta
    /\ Ended(stopReason)
    /\ pc # "failed" => Bills(totals, Charged)
    /\ ClosingTellsTheLast

(* The latest of them has its place.                                       *)
LEMMA ChargedNumber ==
    ASSUME TypeOK, Charged # {}
    PROVE  Latest(Charged) \in Nat
<1>1. Len(read) \in Nat /\ Charged \in SUBSET (1 .. Len(read))
  BY ChunkPlaces DEF Charged
<1>2. Latest(Charged) \in Charged
  BY <1>1, LatestNumber
<1>3. Latest(Charged) \in 1 .. Len(read)
  BY <1>1, <1>2
<1> QED BY <1>1, <1>3

(* Reading a chunk takes no usage yet.                                     *)
LEMMA ReadCharges ==
    ASSUME Inv, NEW c \in Chunks, Read(c)
    PROVE  /\ Charged' = Charged /\ totals' = totals
           /\ Charged # {} => read'[Latest(Charged)] = read[Latest(Charged)]
<1> DEFINE n == Len(read)
           all == Append(read, c)
<1>1. /\ n \in Nat /\ Counted \in SUBSET (1 .. n) /\ c \in Chunk /\ read \in Seq(Chunks)
  BY ChunkPlaces, ChunksAssumption DEF Inv, TypeOK
<1>2. /\ pc = "scan" /\ read' = all /\ totals' = totals
      /\ c.delta => pc' = "reasoning"
      /\ ~c.delta => pc' = "scan"
  BY DEF Read, At, Goto
<1>3. Len(all) = n + 1 /\ all[n + 1] = c /\ \A i \in 1 .. n : all[i] = read[i]
  BY <1>1, Appended
<1> HIDE DEF all, n
<1>4. 1 .. n + 1 = (1 .. n) \cup {n + 1} /\ n + 1 \notin 1 .. n
  BY <1>1
<1>5. /\ Counted = {k \in 1 .. n : read[k].delta /\ read[k].usage # NoUsage}
      /\ Counted' = {k \in (1 .. n) \cup {n + 1} : all[k].delta /\ all[k].usage # NoUsage}
  BY <1>2, <1>3, <1>4 DEF Counted, Billed, n
<1>6. Counted' = IF c.delta /\ c.usage # NoUsage THEN Counted \cup {n + 1} ELSE Counted
  BY <1>3, <1>5
<1>7. Charged = Counted
  BY <1>2 DEF Charged, Handling
<1>8. Charged' = IF c.delta THEN Counted' \ {n + 1} ELSE Counted'
  BY <1>2, <1>3 DEF Charged, Handling
<1>9. Charged' = Counted
  <2>1. n + 1 \notin Counted
    BY <1>1, <1>4
  <2> QED BY <1>6, <1>8, <2>1
<1>10. Counted # {} => Latest(Counted) \in 1 .. n
  BY <1>1, LatestNumber
<1> QED BY <1>2, <1>3, <1>7, <1>9, <1>10

(* The usage of a chunk is taken when its parts have been handled.         *)
LEMMA UsageCharges ==
    ASSUME Inv, Told, TakeUsage
    PROVE  IF chunk.usage = NoUsage THEN Charged' = Charged /\ totals' = totals
           ELSE /\ Charged' # {} /\ read'[Latest(Charged')] = chunk
                /\ totals' = Count(chunk.usage)
<1>1. /\ Len(read) \in Nat /\ Counted \in SUBSET (1 .. Len(read)) /\ Len(read) > 0
      /\ pc = "usage" /\ pc' = "scan" /\ read' = read
      /\ totals' = IF chunk.usage = NoUsage THEN totals ELSE Count(chunk.usage)
  BY ChunkPlaces DEF TakeUsage, At, Goto, Inv, TypeOK
<1>2. Counted' = Counted
  BY <1>1 DEF Counted, Billed
<1>3. Charged = Counted \ {Len(read)} /\ Charged' = Counted
  BY <1>1, <1>2 DEF Charged, Handling
<1>4. chunk.delta
  BY <1>1 DEF Told, Handling
<1>5. CASE chunk.usage = NoUsage
  <2>1. Len(read) \notin Counted
    BY <1>1, <1>5 DEF Counted, Billed, chunk
  <2> QED BY <1>1, <1>3, <1>5, <2>1
<1>6. CASE chunk.usage # NoUsage
  <2>1. Len(read) \in Counted
    BY <1>1, <1>4, <1>6 DEF Counted, Billed, chunk
  <2>2. \A m \in Counted : m <= Len(read)
    BY <1>1
  <2>3. Latest(Counted) = Len(read)
    BY <1>1, <2>1, <2>2, LatestNumber
  <2> QED BY <1>1, <1>3, <1>6, <2>1, <2>3 DEF chunk
<1> QED BY <1>5, <1>6

Uncounted ==
    /\ UNCHANGED <<read, stopReason, totals, Named("message_delta")>>
    /\ Handling' => Handling
    /\ pc' # "failed" => pc # "failed" /\ Handling' = Handling

(* Most steps neither read, nor count, nor close the message.              *)
LEMMA CountingSteps ==
    ASSUME Inv, [Next]_vars
    PROVE  (\E c \in Chunks : Read(c)) \/ TakeUsage \/ TextDelta \/ MessageDelta \/ Uncounted
<1> DEFINE Rest ==
      \/ UNCHANGED vars
      \/ MessageStart \/ ReadEnd \/ ReadFails \/ NoReasoning \/ OpenThinking \/ ThinkingDelta
      \/ BadText \/ NoText \/ OpenText \/ OpenCall \/ CallDelta \/ CallsDone
      \/ CloseLast \/ Closed \/ MessageStop \/ WriteFails
<1>1. CASE Rest
  <2>1. /\ UNCHANGED <<read, stopReason, totals>> /\ (Handling' => Handling)
        /\ pc' # "failed" => pc # "failed" /\ Handling' = Handling
    BY <1>1
    DEF vars, MessageStart, ReadEnd, ReadFails, NoReasoning, OpenThinking, ThinkingDelta, BadText,
        NoText, OpenText, OpenCall, CallDelta, CallsDone, CloseLast, Closed, MessageStop,
        WriteFails, OpenBlock, StartBlock, StopBlock, At, Goto, Handling
  <2>2. MessageStop => UNCHANGED Named("message_delta")
    BY MessageEvents, EmitNamed DEF MessageStop, Inv, TypeOK
  <2>3. MessageDelta => ~Rest
    BY DEF MessageDelta, MessageStart, ReadEnd, ReadFails, NoReasoning, OpenThinking,
           ThinkingDelta, BadText, NoText, OpenText, OpenCall, CallDelta, CallsDone, CloseLast,
           Closed, MessageStop, WriteFails, Writing, OpenBlock, StartBlock, StopBlock, At, Goto,
           vars
  <2>4. UNCHANGED Named("message_delta")
    BY <1>1, <2>2, <2>3, ClosingSteps
  <2> QED BY <2>1, <2>4 DEF Uncounted
<1> QED BY <1>1 DEF Next

(* Nothing has been told at first.                                         *)
LEMMA InitTold == Init => Told
<1> SUFFICES ASSUME Init PROVE Told
  OBVIOUS
<1>1. Len(read) = 0 /\ pc = "begin" /\ stopReason = "end_turn" /\ totals = NoTotals
  BY EmptySeq DEF Init
<1>2. Finished = {} /\ Counted = {}
  BY <1>1 DEF Finished, Ending, Counted, Billed
<1>3. ClosingTellsTheLast
  BY InitCollected DEF ClosingTellsTheLast
<1> QED BY <1>1, <1>2, <1>3 DEF Told, Handling, Ended, Bills, Charged, NoTotals

(* A bill stays true while nothing is read.                                *)
LEMMA SameTold ==
    ASSUME Told, UNCHANGED <<read, stopReason>>,
           UNCHANGED Named("message_delta"),
           Handling' => Handling,
           pc' # "failed" => pc # "failed" /\ Bills(totals, Charged)'
    PROVE  Told'
<1>1. UNCHANGED <<Finished, Counted, chunk>>
  BY DEF Finished, Ending, Counted, Billed, chunk
<1>2. Closing' = Closing
  BY DEF Closing
<1>3. ClosingTellsTheLast'
  BY <1>1, <1>2 DEF Told, ClosingTellsTheLast, NoTextAfter
<1>4. Ended(stopReason)'
  BY <1>1 DEF Told, Ended
<1> QED BY <1>1, <1>3, <1>4 DEF Told

(* Reading a chunk takes its finish_reason and leaves its usage for later. *)
LEMMA ReadTold == ASSUME Inv, Final, Told, NEW c \in Chunks, Read(c) PROVE Told'
<1> DEFINE n == Len(read)
           all == Append(read, c)
<1>1. /\ n \in Nat /\ Finished \in SUBSET (1 .. n) /\ c \in Chunk /\ read \in Seq(Chunks)
  BY ChunkPlaces, ChunksAssumption DEF Inv, TypeOK
<1>2. /\ pc = "scan" /\ pc' \in {"scan", "reasoning"} /\ read' = all /\ out' = out
      /\ c.delta => pc' = "reasoning"
      /\ ~c.delta => pc' = "scan" /\ stopReason' = stopReason
      /\ c.delta =>
            stopReason' = IF c.finish = "" THEN stopReason ELSE StopReason(c.finish)
  BY DEF Read, At, Goto
<1>3. Len(all) = n + 1 /\ all[n + 1] = c /\ \A i \in 1 .. n : all[i] = read[i]
  BY <1>1, Appended
<1> HIDE DEF all, n
<1>4. 1 .. n + 1 = (1 .. n) \cup {n + 1} /\ n + 1 \notin 1 .. n
  BY <1>1
<1>5. /\ Finished = {k \in 1 .. n : read[k].delta /\ read[k].finish # ""}
      /\ Finished' = {k \in (1 .. n) \cup {n + 1} : all[k].delta /\ all[k].finish # ""}
  BY <1>2, <1>3, <1>4 DEF Finished, Ending, n
<1>6. Finished' = IF c.delta /\ c.finish # "" THEN Finished \cup {n + 1} ELSE Finished
  BY <1>3, <1>5
<1>7. Ended(stopReason)'
  <2>1. CASE c.delta /\ c.finish # ""
    <3>1. Finished' \in SUBSET (1 .. n + 1) /\ Finished' # {} /\ n + 1 \in Finished'
          /\ \A m \in Finished' : m <= n + 1
      <4>1. Finished' = Finished \cup {n + 1}
        BY <1>6, <2>1
      <4> QED BY <1>1, <1>4, <4>1
    <3>2. Latest(Finished') = n + 1
      <4>1. n + 1 \in Nat
        BY <1>1
      <4> QED BY <3>1, <4>1, LatestNumber
    <3> QED BY <1>2, <1>3, <2>1, <3>1, <3>2 DEF Ended
  <2>2. CASE ~(c.delta /\ c.finish # "")
    <3>1. Finished' = Finished /\ stopReason' = stopReason
      BY <1>2, <1>6, <2>2
    <3>2. Finished # {} => all[Latest(Finished)] = read[Latest(Finished)]
      BY <1>1, <1>3, LatestNumber
    <3> QED BY <1>2, <3>1, <3>2 DEF Told, Ended
  <2> QED BY <2>1, <2>2
<1>8. Bills(totals, Charged)'
  <2>1. /\ Charged' = Charged /\ totals' = totals
        /\ Charged # {} => read'[Latest(Charged)] = read[Latest(Charged)]
    BY ReadCharges
  <2>2. Bills(totals, Charged)
    BY <1>2 DEF Told
  <2>3. \A k \in Nat : NoTextAfter(k)' => NoTextAfter(k)
    BY <1>2, <1>3, <1>4 DEF NoTextAfter, n
  <2>4. Charged # {} => Latest(Charged) \in Nat
    BY ChargedNumber DEF Inv
  <2> QED BY <2>1, <2>2, <2>3, <2>4 DEF Bills
<1>9. ClosingTellsTheLast'
  <2>1. Named("message_delta")' = << >>
    BY <1>2, SilentNamed DEF Final
  <2> QED BY <2>1 DEF ClosingTellsTheLast
<1>10. (Handling => chunk.delta)'
  BY <1>2, <1>3 DEF Handling, chunk
<1> QED BY <1>7, <1>8, <1>9, <1>10 DEF Told

(* The usage of the chunk is the latest then.                              *)
LEMMA UsageTold == ASSUME Inv, Told, TakeUsage PROVE Told'
<1>1. /\ chunk \in Chunk /\ pc = "usage" /\ pc' = "scan"
      /\ UNCHANGED <<read, stopReason, out>>
  BY ChunkType DEF TakeUsage, At, Goto, Inv, TypeOK
<1>2. IF chunk.usage = NoUsage THEN Charged' = Charged /\ totals' = totals
      ELSE /\ Charged' # {} /\ read'[Latest(Charged')] = chunk
           /\ totals' = Count(chunk.usage)
  BY UsageCharges
<1>3. Bills(totals, Charged)'
  <2>1. CASE chunk.usage = NoUsage
    BY <1>1, <1>2, <2>1 DEF Told, Bills, NoTextAfter
  <2>2. CASE chunk.usage # NoUsage
    <3>1. chunk.usage \in Usage
      BY <1>1, <2>2 DEF Chunk
    <3>2. /\ totals'.cacheRead = chunk.usage.cached
          /\ totals'.cacheWrite = chunk.usage.written
          /\ IF chunk.usage.cached <= chunk.usage.prompt
             THEN totals'.input + totals'.cacheRead = chunk.usage.prompt
             ELSE totals'.input = 0
          /\ totals'.output >= chunk.usage.completion
          /\ totals'.output = chunk.usage.completion
      BY <1>2, <2>2, <3>1 DEF Count, Usage
    <3> QED BY <1>2, <2>2, <3>2 DEF Bills
  <2> QED BY <2>1, <2>2
<1>4. UNCHANGED Named("message_delta")
  BY <1>1, SilentNamed
<1> QED BY <1>1, <1>3, <1>4, SameTold DEF Handling

(* Text counts as output, which only grows.                                *)
LEMMA TextTold == ASSUME Inv, Told, TextDelta PROVE Told'
<1>1. /\ pc = "text" /\ pc' = "calls" /\ totals' = [totals EXCEPT !.output = @ + 1]
      /\ UNCHANGED <<read, stopReason>> /\ totals \in Totals /\ chunk.text /\ Len(read) > 0
  BY DEF TextDelta, At, Goto, Inv, TypeOK
<1>2. /\ totals'.input = totals.input /\ totals'.cacheRead = totals.cacheRead
      /\ totals'.cacheWrite = totals.cacheWrite
      /\ totals'.output = totals.output + 1 /\ totals.output \in Nat
  BY <1>1 DEF Totals
<1>3. Charged' = Charged /\ Charged \in SUBSET (1 .. Len(read)) /\ Len(read) \in Nat
  BY <1>1, ChunkPlaces DEF Charged, Handling, Counted, Billed, Inv
<1>4. Bills(totals, Charged)'
  <2>1. Charged # {} => read[Latest(Charged)].usage.completion \in Nat
    <3> SUFFICES ASSUME Charged # {} PROVE read[Latest(Charged)].usage.completion \in Nat
      OBVIOUS
    <3>1. Latest(Charged) \in Charged
      BY <1>3, LatestNumber
    <3>2. Latest(Charged) \in Counted
      BY <3>1 DEF Charged
    <3>3. read[Latest(Charged)] \in Chunk /\ read[Latest(Charged)].usage # NoUsage
      BY <3>2, ChunkPlaces DEF Counted, Billed, Inv
    <3> QED BY <3>3 DEF Chunk, Usage
  <2>2. Bills(totals, Charged)
    BY <1>1 DEF Told
  <2>3. Charged # {} => ~NoTextAfter(Latest(Charged))
    <3> SUFFICES ASSUME Charged # {} PROVE ~NoTextAfter(Latest(Charged))
      OBVIOUS
    <3>1. Latest(Charged) \in Counted \ {Len(read)}
      BY <1>1, <1>3, LatestNumber DEF Charged, Handling
    <3>2. Latest(Charged) \in 1 .. Len(read) /\ Latest(Charged) # Len(read)
      BY <3>1, ChunkPlaces DEF Inv
    <3>3. read[Len(read)].delta /\ read[Len(read)].text
      BY <1>1 DEF Told, Handling, chunk
    <3> QED BY <1>1, <1>3, <3>2, <3>3 DEF NoTextAfter
  <2>4. ~NoTextAfter(Latest(Charged))' <=> ~NoTextAfter(Latest(Charged))
    BY <1>1, <1>3 DEF NoTextAfter
  <2> QED BY <1>1, <1>2, <1>3, <2>1, <2>2, <2>3, <2>4 DEF Bills
<1>5. UNCHANGED Named("message_delta")
  <2>1. ~MessageDelta /\ ~MessageStop
    BY <1>1 DEF MessageDelta, MessageStop, At
  <2>2. [Next]_vars
    BY DEF Next
  <2> QED BY <2>1, <2>2, ClosingSteps
<1> QED BY <1>1, <1>4, <1>5, SameTold DEF Handling

(* What is told is what was counted.                                       *)
LEMMA DeltaTold == ASSUME Inv, Told, Final, MessageDelta PROVE Told'
<1> DEFINE closing == [stopReason |-> stopReason, usage |-> totals]
           e == [name |-> "message_delta", index |-> NoBlock, closing |-> closing]
<1>1. /\ pc = "delta" /\ pc' = "stop" /\ Emit(e) /\ out \in Seq(Events)
      /\ UNCHANGED <<read, stopReason, totals>>
  BY DEF MessageDelta, At, Goto, Inv, TypeOK
<1>2. closing \in Closings
  BY DEF Inv, TypeOK, Closings
<1>3. e \in Events /\ e.name = "message_delta" /\ e.closing = closing
  BY <1>2, MessageEvents
<1> HIDE DEF e
<1>4. Named("message_delta")' = Append(Named("message_delta"), e)
  BY <1>1, <1>3, EmitNamed
<1>5. Named("message_delta") = << >>
  BY <1>1 DEF Final
<1>6. Closing' = closing
  <2>1. Named("message_delta")' = <<e>>
    <3>1. Append(<< >>, e) = <<e>>
      OBVIOUS
    <3> QED BY <1>4, <1>5, <3>1
  <2> QED BY <1>3, <2>1 DEF Closing
<1>7. Charged = Counted /\ Charged' = Counted /\ UNCHANGED <<Finished, Counted, chunk>>
  BY <1>1 DEF Charged, Handling, Counted, Billed, Finished, Ending, chunk
<1>8. closing.stopReason = stopReason /\ closing.usage = totals
  OBVIOUS
<1> HIDE DEF closing
<1>9. Ended(stopReason) /\ Bills(totals, Counted)
  BY <1>1, <1>7 DEF Told
<1>10. ClosingTellsTheLast'
  BY <1>1, <1>6, <1>7, <1>8, <1>9 DEF ClosingTellsTheLast, Ended, Bills, NoTextAfter
<1> QED BY <1>1, <1>7, <1>9, <1>10 DEF Told, Handling, Ended, Bills, NoTextAfter

(* Every step keeps what is told true.                                     *)
LEMMA NextTold == Inv /\ Final /\ Told /\ [Next]_vars => Told'
<1> SUFFICES ASSUME Inv, Final, Told, [Next]_vars PROVE Told'
  OBVIOUS
<1>1. ASSUME Uncounted PROVE Told'
  <2>1. pc' # "failed" => pc # "failed" /\ Bills(totals, Charged)'
    BY <1>1 DEF Uncounted, Told, Bills, Charged, Counted, Billed, NoTextAfter
  <2> QED BY <1>1, <2>1, SameTold, SMTT(30) DEF Uncounted
<1> QED BY <1>1, CountingSteps, ReadTold, UsageTold, TextTold, DeltaTold

(* The closing of a stream tells the last finish_reason and the last usage *)
(* that came with a delta, all of it, and no more output than was billed   *)
(* but for text that came after the bill.                                  *)
THEOREM ClosingIsTrue == Spec => []ClosingTellsTheLast
<1>1. Inv /\ Final /\ Told /\ [Next]_vars => Told'
  BY NextTold
<1>2. ClientInv => Inv /\ Final
  BY DEF ClientInv
<1>3. Told => ClosingTellsTheLast
  BY DEF Told
<1> QED BY InitTold, <1>1, <1>2, <1>3, ClientInvariant, PTL DEF Spec

-----------------------------------------------------------------------------
(* Streamed like a whole reply: what comes first.                          *)

(* No element, no first.                                                   *)
LEMMA FirstsEmpty == Firsts(<< >>) = << >>
<1>1. Len(<< >>) = 0
  OBVIOUS
<1> DEFINE f == [i \in 1 .. Len(<< >>) |->
                   IF \A j \in 1 .. i - 1 : << >>[j] # << >>[i] THEN <<<< >>[i]>> ELSE << >>]
<1>2. f = << >>
  BY <1>1, SMT
<1>3. Firsts(<< >>) = FlattenSeq(f)
  BY DEF Firsts
<1> QED BY <1>2, <1>3, FlattenEmpty

(* One more element comes in for the first time, or has been there.        *)
LEMMA FirstsAppend ==
    ASSUME NEW S, NEW s \in Seq(S), NEW e \in S
    PROVE  /\ Firsts(s) \in Seq(S)
           /\ Firsts(Append(s, e)) = IF \E i \in 1 .. Len(s) : s[i] = e THEN Firsts(s)
                                     ELSE Append(Firsts(s), e)
<1> DEFINE New(t, i) == IF \A j \in 1 .. i - 1 : t[j] # t[i] THEN <<t[i]>> ELSE << >>
           F(t) == [i \in 1 .. Len(t) |-> New(t, i)]
           t == Append(s, e)
           n == Len(s)
<1>1. /\ n \in Nat /\ t \in Seq(S) /\ Len(t) = n + 1 /\ t[n + 1] = e
      /\ \A i \in 1 .. n : t[i] = s[i]
  BY AppendProperties, LenProperties
<1>2. ASSUME NEW u \in Seq(S) PROVE F(u) \in Seq(Seq(S)) /\ Len(F(u)) = Len(u)
  <2>1. Len(u) \in Nat /\ \A i \in 1 .. Len(u) : u[i] \in S
    BY LenProperties, ElementOfSeq
  <2>2. ASSUME NEW i \in 1 .. Len(u) PROVE New(u, i) \in Seq(S)
    BY <2>1
  <2>3. F(u) \in [1 .. Len(u) -> Seq(S)]
    BY <2>2
  <2> HIDE DEF F
  <2>4. F(u) \in Seq(Seq(S))
    BY <2>1, <2>3, SeqDef
  <2> QED BY <2>1, <2>3, <2>4, LenProperties
<1>3. \A u : Firsts(u) = FlattenSeq(F(u))
  BY DEF Firsts
<1>4. New(t, n + 1) = IF \E i \in 1 .. n : s[i] = e THEN << >> ELSE <<e>>
  <2>1. n + 1 - 1 = n
    BY <1>1
  <2>2. (\A j \in 1 .. n : t[j] # t[n + 1]) <=> ~ \E i \in 1 .. n : s[i] = e
    BY <1>1
  <2> HIDE DEF t, n
  <2> QED BY <1>1, <2>1, <2>2
<1>5. \A i \in 1 .. n : New(t, i) = New(s, i)
  <2> SUFFICES ASSUME NEW i \in 1 .. n PROVE New(t, i) = New(s, i)
    OBVIOUS
  <2>1. t[i] = s[i] /\ \A j \in 1 .. i - 1 : t[j] = s[j]
    BY <1>1
  <2> QED BY <2>1
<1>6. New(t, n + 1) \in Seq(S)
  BY <1>4
<1>7. F(t) = Append(F(s), New(t, n + 1))
  <2>1. /\ F(t) \in Seq(Seq(S)) /\ Len(F(t)) = n + 1
        /\ F(s) \in Seq(Seq(S)) /\ Len(F(s)) = n
    BY <1>1, <1>2
  <2>2. /\ \A i \in 1 .. n + 1 : F(t)[i] = New(t, i)
        /\ \A i \in 1 .. n : F(s)[i] = New(s, i)
    BY <1>1
  <2> HIDE DEF F, New, t
  <2>3. /\ Append(F(s), New(t, n + 1)) \in Seq(Seq(S))
        /\ Len(Append(F(s), New(t, n + 1))) = n + 1
        /\ Append(F(s), New(t, n + 1))[n + 1] = New(t, n + 1)
        /\ \A i \in 1 .. n : Append(F(s), New(t, n + 1))[i] = F(s)[i]
    BY <1>6, <2>1, AppendProperties
  <2>4. \A i \in 1 .. n + 1 : F(t)[i] = Append(F(s), New(t, n + 1))[i]
    BY <1>1, <1>5, <2>2, <2>3
  <2> QED BY <2>1, <2>3, <2>4, SeqEqual
<1>8. F(s) \in Seq(Seq(S))
  BY <1>2
<1> HIDE DEF F, New, t
<1>9. Firsts(t) = Firsts(s) \o New(t, n + 1) /\ Firsts(s) \in Seq(S)
  BY <1>3, <1>6, <1>7, <1>8, FlattenAppend, FlattenType
<1>10. Firsts(s) \o << >> = Firsts(s) /\ Firsts(s) \o <<e>> = Append(Firsts(s), e)
  BY <1>9, ConcatEmptySeq, AppendIsConcat
<1> QED BY <1>4, <1>9, <1>10 DEF t

(* Every element comes in first somewhere, and once.                       *)
LEMMA FirstsAre ==
    ASSUME NEW S, NEW s \in Seq(S)
    PROVE  /\ Firsts(s) \in Seq(S)
           /\ \A i \in 1 .. Len(s) : \E k \in 1 .. Len(Firsts(s)) : Firsts(s)[k] = s[i]
           /\ \A k \in 1 .. Len(Firsts(s)) : \E i \in 1 .. Len(s) : s[i] = Firsts(s)[k]
           /\ \A j, k \in 1 .. Len(Firsts(s)) : Firsts(s)[j] = Firsts(s)[k] => j = k
<1> DEFINE Good(t) ==
               /\ Firsts(t) \in Seq(S)
               /\ \A i \in 1 .. Len(t) : \E k \in 1 .. Len(Firsts(t)) : Firsts(t)[k] = t[i]
               /\ \A k \in 1 .. Len(Firsts(t)) : \E i \in 1 .. Len(t) : t[i] = Firsts(t)[k]
               /\ \A j, k \in 1 .. Len(Firsts(t)) : Firsts(t)[j] = Firsts(t)[k] => j = k
           T == {t \in Seq(S) : Good(t)}
<1>1. << >> \in T
  <2>1. Len(<< >>) = 0 /\ << >> \in Seq(S)
    BY EmptySeq
  <2>2. Len(Firsts(<< >>)) = 0 /\ Firsts(<< >>) \in Seq(S)
    BY <2>1, FirstsEmpty
  <2>3. Good(<< >>)
    BY <2>1, <2>2
  <2> HIDE DEF Good
  <2> QED BY <2>1, <2>3
<1>2. ASSUME NEW t \in Seq(S), NEW e \in S, t \in T PROVE Append(t, e) \in T
  <2> DEFINE u == Append(t, e)
             f == Firsts(t)
             g == Firsts(u)
  <2>1. /\ Len(t) \in Nat /\ u \in Seq(S) /\ Len(u) = Len(t) + 1 /\ u[Len(t) + 1] = e
        /\ \A i \in 1 .. Len(t) : u[i] = t[i]
    BY AppendProperties, LenProperties
  <2>2. /\ f \in Seq(S) /\ Len(f) \in Nat
        /\ g = IF \E i \in 1 .. Len(t) : t[i] = e THEN f ELSE Append(f, e)
    BY FirstsAppend, LenProperties
  <2>3. /\ \A i \in 1 .. Len(t) : \E k \in 1 .. Len(f) : f[k] = t[i]
        /\ \A k \in 1 .. Len(f) : \E i \in 1 .. Len(t) : t[i] = f[k]
        /\ \A j, k \in 1 .. Len(f) : f[j] = f[k] => j = k
    BY <1>2
  <2> HIDE DEF u, f, g
  <2>4. Good(u)
    <3>1. CASE \E i \in 1 .. Len(t) : t[i] = e
      <4>1. g = f
        BY <2>2, <3>1
      <4>2. \A i \in 1 .. Len(u) : \E k \in 1 .. Len(t) : t[k] = u[i]
        <5> SUFFICES ASSUME NEW i \in 1 .. Len(u) PROVE \E k \in 1 .. Len(t) : t[k] = u[i]
          OBVIOUS
        <5>1. CASE i \in 1 .. Len(t)
          BY <2>1, <5>1
        <5>2. CASE i = Len(t) + 1
          BY <2>1, <3>1, <5>2
        <5> QED BY <2>1, <5>1, <5>2
      <4>3. \A k \in 1 .. Len(f) : \E i \in 1 .. Len(u) : u[i] = f[k]
        <5> SUFFICES ASSUME NEW k \in 1 .. Len(f) PROVE \E i \in 1 .. Len(u) : u[i] = f[k]
          OBVIOUS
        <5>1. PICK i \in 1 .. Len(t) : t[i] = f[k]
          BY <2>3
        <5>2. i \in 1 .. Len(u) /\ u[i] = t[i]
          BY <2>1
        <5> QED BY <5>1, <5>2
      <4>4. \A i \in 1 .. Len(u) : \E k \in 1 .. Len(f) : f[k] = u[i]
        <5> SUFFICES ASSUME NEW i \in 1 .. Len(u) PROVE \E k \in 1 .. Len(f) : f[k] = u[i]
          OBVIOUS
        <5>1. PICK m \in 1 .. Len(t) : t[m] = u[i]
          BY <4>2
        <5>2. PICK k \in 1 .. Len(f) : f[k] = t[m]
          BY <2>3
        <5> QED BY <5>1, <5>2
      <4>5. g \in Seq(S) /\ \A j, k \in 1 .. Len(g) : g[j] = g[k] => j = k
        BY <2>2, <2>3, <4>1
      <4>6. \A i \in 1 .. Len(u) : \E k \in 1 .. Len(g) : g[k] = u[i]
        BY <4>1, <4>4
      <4>7. \A k \in 1 .. Len(g) : \E i \in 1 .. Len(u) : u[i] = g[k]
        BY <4>1, <4>3
      <4> QED BY <4>5, <4>6, <4>7, Zenon DEF g
    <3>2. CASE ~ \E i \in 1 .. Len(t) : t[i] = e
      <4>1. /\ g = Append(f, e) /\ g \in Seq(S) /\ Len(g) = Len(f) + 1 /\ g[Len(f) + 1] = e
            /\ \A k \in 1 .. Len(f) : g[k] = f[k]
        BY <2>2, <3>2, AppendProperties
      <4>2. \A i \in 1 .. Len(u) : \E k \in 1 .. Len(g) : g[k] = u[i]
        <5> SUFFICES ASSUME NEW i \in 1 .. Len(u) PROVE \E k \in 1 .. Len(g) : g[k] = u[i]
          OBVIOUS
        <5>1. CASE i \in 1 .. Len(t)
          <6>1. PICK k \in 1 .. Len(f) : f[k] = t[i]
            BY <2>3, <5>1
          <6>2. k \in 1 .. Len(g) /\ g[k] = u[i]
            BY <2>1, <2>2, <4>1, <5>1, <6>1
          <6> QED BY <6>2
        <5>2. CASE i = Len(t) + 1
          <6>1. Len(f) + 1 \in 1 .. Len(g) /\ g[Len(f) + 1] = u[i]
            BY <2>1, <2>2, <4>1, <5>2
          <6> QED BY <6>1
        <5> QED BY <2>1, <5>1, <5>2
      <4>3. \A k \in 1 .. Len(g) : \E i \in 1 .. Len(u) : u[i] = g[k]
        <5> SUFFICES ASSUME NEW k \in 1 .. Len(g) PROVE \E i \in 1 .. Len(u) : u[i] = g[k]
          OBVIOUS
        <5>1. CASE k \in 1 .. Len(f)
          <6>1. PICK i \in 1 .. Len(t) : t[i] = f[k]
            BY <2>3, <5>1
          <6>2. i \in 1 .. Len(u) /\ u[i] = g[k]
            BY <2>1, <4>1, <5>1, <6>1
          <6> QED BY <6>2
        <5>2. CASE k = Len(f) + 1
          <6>1. Len(t) + 1 \in 1 .. Len(u) /\ u[Len(t) + 1] = g[k]
            BY <2>1, <4>1, <5>2
          <6> QED BY <6>1
        <5> QED BY <2>2, <4>1, <5>1, <5>2
      <4>4. \A k \in 1 .. Len(f) : f[k] # e
        BY <2>3, <3>2
      <4>5. \A j, k \in 1 .. Len(g) : g[j] = g[k] => j = k
        <5> SUFFICES ASSUME NEW j \in 1 .. Len(g), NEW k \in 1 .. Len(g), g[j] = g[k]
                     PROVE  j = k
          OBVIOUS
        <5>1. \A x \in 1 .. Len(g) : x \in 1 .. Len(f) \/ x = Len(f) + 1
          BY <2>2, <4>1
        <5> QED BY <2>3, <4>1, <4>4, <5>1
      <4> QED BY <4>1, <4>2, <4>3, <4>5 DEF g
    <3> QED BY <3>1, <3>2
  <2> QED BY <2>1, <2>4 DEF u
<1> HIDE DEF T
<1>3. \A t \in Seq(S) : t \in T
  BY <1>1, <1>2, ListInduction
<1> QED BY <1>3 DEF T

(* Equal elements follow each other.                                       *)
Together(s) ==
    \A i, j \in 1 .. Len(s) : i < j /\ s[i] = s[j] => \A k \in i .. j : s[k] = s[i]

(* So they do in a prefix.                                                 *)
LEMMA TogetherPrefix ==
    ASSUME NEW S, NEW s \in Seq(S), NEW t \in Seq(S), Together(s \o t)
    PROVE  Together(s)
<1>1. /\ Len(s) \in Nat /\ Len(t) \in Nat /\ Len(s \o t) = Len(s) + Len(t)
      /\ \A i \in 1 .. Len(s) : (s \o t)[i] = s[i]
  BY ConcatProperties, LenProperties
<1>2. \A i \in 1 .. Len(s) : i \in 1 .. Len(s \o t)
  BY <1>1
<1>3. \A i, j \in 1 .. Len(s) : \A k \in i .. j : k \in 1 .. Len(s)
  BY <1>1
<1> SUFFICES ASSUME NEW i \in 1 .. Len(s), NEW j \in 1 .. Len(s), i < j, s[i] = s[j],
                    NEW k \in i .. j
             PROVE  s[k] = s[i]
  BY DEF Together
<1>4. (s \o t)[k] = (s \o t)[i]
  BY <1>1, <1>2 DEF Together
<1> QED BY <1>1, <1>3, <1>4

(* Then the last to come in first is the last there is.                    *)
LEMMA FirstsLast ==
    ASSUME NEW S, NEW s \in Seq(S), Together(s), s # << >>
    PROVE  Firsts(s) # << >> /\ Firsts(s)[Len(Firsts(s))] = s[Len(s)]
<1> DEFINE Good(t) == Together(t) /\ t # << >> =>
                          Firsts(t) # << >> /\ Firsts(t)[Len(Firsts(t))] = t[Len(t)]
           T == {t \in Seq(S) : Good(t)}
<1>1. << >> \in T
  BY EmptySeq
<1>2. ASSUME NEW t \in Seq(S), NEW e \in S, t \in T PROVE Append(t, e) \in T
  <2> DEFINE u == Append(t, e)
  <2>1. /\ Len(t) \in Nat /\ u \in Seq(S) /\ Len(u) = Len(t) + 1 /\ u[Len(t) + 1] = e
        /\ \A i \in 1 .. Len(t) : u[i] = t[i]
    BY AppendProperties, LenProperties
  <2>2. /\ Firsts(t) \in Seq(S)
        /\ Firsts(u) = IF \E i \in 1 .. Len(t) : t[i] = e THEN Firsts(t) ELSE Append(Firsts(t), e)
    BY FirstsAppend
  <2>3. u = t \o <<e>> /\ <<e>> \in Seq(S)
    BY AppendIsConcat
  <2>4. Good(t)
    BY <1>2
  <2> HIDE DEF u
  <2> SUFFICES ASSUME Together(u)
               PROVE  Firsts(u) # << >> /\ Firsts(u)[Len(Firsts(u))] = u[Len(u)]
    BY <2>1 DEF u
  <2>5. CASE \E i \in 1 .. Len(t) : t[i] = e
    <3>1. PICK i \in 1 .. Len(t) : t[i] = e
      BY <2>5
    <3>2. /\ i \in 1 .. Len(u) /\ Len(t) + 1 \in 1 .. Len(u) /\ i < Len(t) + 1
          /\ Len(t) \in i .. Len(t) + 1 /\ Len(t) \in 1 .. Len(t) /\ u[i] = u[Len(t) + 1]
      BY <2>1, <3>1
    <3>3. u[Len(t)] = u[i]
      BY <3>2 DEF Together
    <3>4. t[Len(t)] = e /\ t # << >>
      BY <2>1, <3>1, <3>2, <3>3, EmptySeq
    <3>5. Together(t)
      BY <2>3, TogetherPrefix
    <3> QED BY <2>1, <2>2, <2>4, <2>5, <3>4, <3>5
  <2>6. CASE ~ \E i \in 1 .. Len(t) : t[i] = e
    <3>1. Firsts(u) = Append(Firsts(t), e)
      BY <2>2, <2>6
    <3>2. Firsts(u) # << >> /\ Firsts(u)[Len(Firsts(u))] = e
      BY <2>2, <3>1, AppendProperties
    <3> QED BY <2>1, <3>2
  <2> QED BY <2>5, <2>6
<1> HIDE DEF T
<1>3. \A t \in Seq(S) : t \in T
  BY <1>1, <1>2, ListInduction
<1> QED BY <1>3 DEF T

-----------------------------------------------------------------------------
(* Parts and blocks are tagged with what they are of.                      *)
Tag(x) == [typ |-> x.typ, call |-> x.call]
AnyTag == [typ : Types, call : Calls \cup {NoCall}]
TagSet == {t \in AnyTag : t.typ = "tool_use" <=> t.call # NoCall}
TagOfPart == [part \in PartSet |-> Tag(part.piece)]
TagOfStart == [e \in StartEvents |-> Tag(e)]
PieceOfDelta == [d \in DeltaEvents |-> d.piece]

Tags(parts) == Each(parts, TagOfPart)
TagsHeld == Each(Starts, TagOfStart)
PiecesHeld == Each(Deltas, PieceOfDelta)

(* They are tags.                                                          *)
LEMMA TagsType ==
    /\ TagOfPart \in Maps(PartSet, TagSet)
    /\ TagOfStart \in Maps(StartEvents, AnyTag)
    /\ PieceOfDelta \in Maps(DeltaEvents, Pieces)
    /\ \A part \in PartSet : TagOfPart[part] = Tag(part.piece) /\ Tag(part.piece) \in TagSet
    /\ \A e \in StartEvents : TagOfStart[e] = Tag(e)
    /\ \A d \in DeltaEvents : PieceOfDelta[d] = d.piece
<1>1. ASSUME NEW part \in PartSet PROVE Tag(part.piece) \in TagSet
  BY DEF PartSet, Pieces, TagSet, AnyTag, Tag
<1>2. ASSUME NEW e \in StartEvents PROVE Tag(e) \in AnyTag
  BY DEF StartEvents, AnyTag, Tag
<1>3. ASSUME NEW d \in DeltaEvents PROVE d.piece \in Pieces
  BY DEF DeltaEvents
<1> HIDE DEF Tag
<1> QED BY <1>1, <1>2, <1>3 DEF TagOfPart, TagOfStart, PieceOfDelta, Maps

(* The tags of parts.                                                      *)
LEMMA TagsOfParts ==
    ASSUME NEW parts \in Seq(PartSet)
    PROVE  /\ Tags(parts) \in Seq(TagSet) /\ Len(Tags(parts)) = Len(parts)
           /\ \A i \in 1 .. Len(parts) : Tags(parts)[i] = Tag(parts[i].piece)
           /\ \A part \in PartSet : Tags(Append(parts, part)) = Append(Tags(parts), Tag(part.piece))
           /\ \A more \in Seq(PartSet) : Tags(parts \o more) = Tags(parts) \o Tags(more)
<1>1. TagOfPart \in Maps(PartSet, TagSet)
  BY TagsType
<1>2. Tags(parts) \in Seq(TagSet) /\ Len(Tags(parts)) = Len(parts)
  BY <1>1, EachType DEF Tags
<1>3. \A i \in 1 .. Len(parts) : Tags(parts)[i] = Tag(parts[i].piece)
  <2>1. \A i \in 1 .. Len(parts) : parts[i] \in PartSet /\ Tags(parts)[i] = TagOfPart[parts[i]]
    BY ElementOfSeq DEF Tags, Each
  <2> QED BY <2>1, TagsType
<1>4. ASSUME NEW part \in PartSet
      PROVE  Tags(Append(parts, part)) = Append(Tags(parts), Tag(part.piece))
  <2>1. Tags(Append(parts, part)) = Append(Tags(parts), TagOfPart[part])
    BY <1>1, EachAppend DEF Tags
  <2> QED BY <2>1, TagsType
<1>5. ASSUME NEW more \in Seq(PartSet) PROVE Tags(parts \o more) = Tags(parts) \o Tags(more)
  BY <1>1, EachConcat DEF Tags
<1> QED BY <1>2, <1>3, <1>4, <1>5

(* The tags of the blocks, and the pieces in them.                         *)
LEMMA TagsOfBlocks ==
    ASSUME TypeOK
    PROVE  /\ TagsHeld \in Seq(AnyTag) /\ Len(TagsHeld) = Len(Starts) /\ Len(Starts) \in Nat
           /\ \A k \in 1 .. Len(Starts) : TagsHeld[k] = Tag(Starts[k])
           /\ PiecesHeld \in Seq(Pieces) /\ Len(PiecesHeld) = Len(Deltas) /\ Len(Deltas) \in Nat
           /\ \A i \in 1 .. Len(Deltas) : PiecesHeld[i] = Deltas[i].piece
<1>1. /\ Starts \in Seq(StartEvents) /\ Deltas \in Seq(DeltaEvents)
      /\ Len(Starts) \in Nat /\ Len(Deltas) \in Nat
      /\ \A k \in 1 .. Len(Starts) : Starts[k] \in StartEvents
      /\ \A i \in 1 .. Len(Deltas) : Deltas[i] \in DeltaEvents
  BY CollectedType, ElementOfSeq
<1>2. /\ TagOfStart \in Maps(StartEvents, AnyTag) /\ PieceOfDelta \in Maps(DeltaEvents, Pieces)
  BY TagsType
<1>3. TagsHeld \in Seq(AnyTag) /\ Len(TagsHeld) = Len(Starts)
  BY <1>1, <1>2, EachType DEF TagsHeld
<1>4. PiecesHeld \in Seq(Pieces) /\ Len(PiecesHeld) = Len(Deltas)
  BY <1>1, <1>2, EachType DEF PiecesHeld
<1>5. /\ \A k \in 1 .. Len(Starts) : TagsHeld[k] = TagOfStart[Starts[k]]
      /\ \A i \in 1 .. Len(Deltas) : PiecesHeld[i] = PieceOfDelta[Deltas[i]]
  BY DEF TagsHeld, PiecesHeld, Each
<1>6. \A k \in 1 .. Len(Starts) : TagsHeld[k] = Tag(Starts[k])
  BY <1>1, <1>5, TagsType
<1>7. \A i \in 1 .. Len(Deltas) : PiecesHeld[i] = Deltas[i].piece
  BY <1>1, <1>5, TagsType
<1> QED BY <1>1, <1>3, <1>4, <1>6, <1>7

(* A step without a new block or delta changes neither.                    *)
LEMMA TagsQuiet == ASSUME Quiet PROVE UNCHANGED <<TagsHeld, PiecesHeld>>
BY DEF Quiet, TagsHeld, PiecesHeld

(* Opening a block adds its tag.                                           *)
LEMMA TagsOpened ==
    ASSUME Inv, NEW typ \in Types, NEW call \in Calls \cup {NoCall}, Opened(typ, call)
    PROVE  /\ TagsHeld' = Append(TagsHeld, [typ |-> typ, call |-> call])
           /\ PiecesHeld' = PiecesHeld
<1> DEFINE e == [name |-> "content_block_start", index |-> nextIndex, typ |-> typ, call |-> call]
<1>1. Starts \in Seq(StartEvents) /\ nextIndex \in Nat
  BY CollectedType DEF Inv, TypeOK
<1>2. e \in StartEvents /\ Tag(e) = [typ |-> typ, call |-> call]
  BY <1>1 DEF StartEvents, Tag
<1>3. Starts' = Append(Starts, e) /\ Deltas' = Deltas
  BY DEF Opened
<1> HIDE DEF e
<1>4. TagOfStart \in Maps(StartEvents, AnyTag) /\ TagOfStart[e] = Tag(e)
  BY <1>2, TagsType
<1>5. Each(Append(Starts, e), TagOfStart) = Append(Each(Starts, TagOfStart), TagOfStart[e])
  BY <1>1, <1>2, <1>4, EachAppend
<1> QED BY <1>2, <1>3, <1>4, <1>5 DEF TagsHeld, PiecesHeld

(* Filling one adds its piece.                                             *)
LEMMA PiecesFilled ==
    ASSUME Inv, NEW piece \in Pieces, Filled(piece)
    PROVE  PiecesHeld' = Append(PiecesHeld, piece) /\ TagsHeld' = TagsHeld
<1> DEFINE d == [name |-> "content_block_delta", index |-> current.index, piece |-> piece]
<1>1. Deltas \in Seq(DeltaEvents) /\ current.index \in Nat
  BY CollectedType DEF Inv, TypeOK, Filled, Blocks
<1>2. d \in DeltaEvents /\ d.piece = piece
  BY <1>1 DEF DeltaEvents
<1>3. Deltas' = Append(Deltas, d) /\ Starts' = Starts
  BY DEF Filled
<1> HIDE DEF d
<1>4. PieceOfDelta \in Maps(DeltaEvents, Pieces) /\ PieceOfDelta[d] = d.piece
  BY <1>2, TagsType
<1>5. Each(Append(Deltas, d), PieceOfDelta) = Append(Each(Deltas, PieceOfDelta), PieceOfDelta[d])
  BY <1>1, <1>2, <1>4, EachAppend
<1> QED BY <1>2, <1>3, <1>4, <1>5 DEF TagsHeld, PiecesHeld

-----------------------------------------------------------------------------
(* As long as parts of one tag follow each other, there is a block for     *)
(* each tag that is done, in the order they first came, and one more if it *)
(* waits for the part that comes next.                                     *)
Listed(done) ==
    LET firsts == Firsts(Tags(done))
        next == Tag(Head(Remaining).piece)
    IN  \/ TagsHeld = firsts
        \/ /\ Remaining # << >>
           /\ TagsHeld = Append(firsts, next)
           /\ \A i \in 1 .. Len(done) : Tags(done)[i] # next

(* The deltas are what is done has of payload.                             *)
Along(done) ==
    /\ Sent = done \o Remaining
    /\ PiecesHeld = Payload(done)
    /\ Together(Tags(Sent)) => Listed(done)
Alongside == pc # "failed" => \E done \in Seq(PartSet) : Along(done)

(* Nothing is done at first.                                               *)
LEMMA InitAlong == Init => Alongside
<1> SUFFICES ASSUME Init PROVE Along(<< >>) /\ << >> \in Seq(PartSet)
  BY DEF Alongside
<1>1. read = << >> /\ Starts = << >> /\ Deltas = << >> /\ Remaining = << >>
  BY InitCollected DEF Init, Starts, Deltas, Remaining
<1>2. Len(<< >>) = 0 /\ << >> \in Seq(PartSet)
  BY EmptySeq
<1>3. \A g : Each(<< >>, g) = << >>
  BY <1>2 DEF Each
<1>4. Sent = << >>
  <2>1. [n \in 1 .. Len(<< >>) |-> PartsOf(n, << >>[n])] = << >>
    BY <1>2
  <2> QED BY <1>1, <2>1, FlattenEmpty DEF Sent
<1>5. Payload(<< >>) = << >> /\ << >> \o << >> = << >>
  BY <1>2, PayloadMap, FlatMapEmpty, ConcatEmptySeq
<1>6. TagsHeld = << >> /\ PiecesHeld = << >> /\ Tags(<< >>) = << >>
  BY <1>1, <1>3 DEF TagsHeld, PiecesHeld, Tags
<1>7. Listed(<< >>)
  BY <1>6, FirstsEmpty DEF Listed
<1> QED BY <1>1, <1>2, <1>4, <1>5, <1>6, <1>7 DEF Along

(* What was sent, part by part, and its tags.                              *)
LEMMA TagsOfSent ==
    ASSUME TypeOK, NEW done \in Seq(PartSet), Sent = done \o Remaining
    PROVE  /\ Together(Tags(Sent)) => Together(Tags(done))
           /\ Remaining # << >> =>
                 /\ Len(done) + 1 \in 1 .. Len(Sent) /\ Len(done) \in Nat
                 /\ Len(Tags(Sent)) = Len(Sent) /\ Len(Sent) \in Nat
                 /\ Tags(Sent)[Len(done) + 1] = Tag(Head(Remaining).piece)
                 /\ \A i \in 1 .. Len(done) : Tags(Sent)[i] = Tags(done)[i]
<1>1. Remaining \in Seq(PartSet)
  BY RemainingType
<1>2. /\ Tags(Sent) = Tags(done) \o Tags(Remaining)
      /\ Tags(done) \in Seq(TagSet) /\ Len(Tags(done)) = Len(done)
      /\ Tags(Remaining) \in Seq(TagSet) /\ Len(Tags(Remaining)) = Len(Remaining)
      /\ \A i \in 1 .. Len(Remaining) : Tags(Remaining)[i] = Tag(Remaining[i].piece)
      /\ Len(done) \in Nat /\ Len(Remaining) \in Nat
  BY <1>1, TagsOfParts, LenProperties
<1>3. Together(Tags(Sent)) => Together(Tags(done))
  BY <1>2, TogetherPrefix
<1>4. ASSUME Remaining # << >>
      PROVE  /\ Len(done) + 1 \in 1 .. Len(Sent)
             /\ Len(Tags(Sent)) = Len(Sent) /\ Len(Sent) \in Nat
             /\ Tags(Sent)[Len(done) + 1] = Tag(Head(Remaining).piece)
             /\ \A i \in 1 .. Len(done) : Tags(Sent)[i] = Tags(done)[i]
  <2>1. Head(Remaining) = Remaining[1] /\ Len(Remaining) > 0
    BY <1>1, <1>2, <1>4, HeadTailProperties, EmptySeq
  <2>2. Len(Sent) = Len(done) + Len(Remaining)
    BY <1>1, ConcatProperties
  <2>3. /\ Len(Tags(Sent)) = Len(done) + Len(Remaining)
        /\ \A i \in 1 .. Len(done) : Tags(Sent)[i] = Tags(done)[i]
        /\ \A i \in Len(done) + 1 .. Len(done) + Len(Remaining) :
               Tags(Sent)[i] = Tags(Remaining)[i - Len(done)]
    <3>1. ASSUME NEW x \in Seq(TagSet), NEW y \in Seq(TagSet)
          PROVE  /\ Len(x \o y) = Len(x) + Len(y)
                 /\ \A i \in 1 .. Len(x) : (x \o y)[i] = x[i]
                 /\ \A i \in Len(x) + 1 .. Len(x) + Len(y) : (x \o y)[i] = y[i - Len(x)]
      BY ConcatProperties
    <3> DEFINE x == Tags(done)
               y == Tags(Remaining)
    <3>2. /\ x \in Seq(TagSet) /\ y \in Seq(TagSet) /\ Tags(Sent) = x \o y
          /\ Len(x) = Len(done) /\ Len(y) = Len(Remaining)
      BY <1>2
    <3> HIDE DEF x, y
    <3>3. /\ Len(x \o y) = Len(x) + Len(y)
          /\ \A i \in 1 .. Len(x) : (x \o y)[i] = x[i]
          /\ \A i \in Len(x) + 1 .. Len(x) + Len(y) : (x \o y)[i] = y[i - Len(x)]
      BY <3>1, <3>2
    <3>4. /\ Len(Tags(Sent)) = Len(done) + Len(Remaining)
          /\ \A i \in 1 .. Len(done) : Tags(Sent)[i] = x[i]
          /\ \A i \in Len(done) + 1 .. Len(done) + Len(Remaining) :
                 Tags(Sent)[i] = y[i - Len(done)]
      BY <3>2, <3>3
    <3> QED BY <3>4 DEF x, y
  <2>4. /\ Len(done) + 1 \in Len(done) + 1 .. Len(done) + Len(Remaining)
        /\ Len(done) + 1 - Len(done) = 1
    BY <1>2, <2>1
  <2>5. Tags(Sent)[Len(done) + 1] = Tags(Remaining)[1]
    BY <2>3, <2>4
  <2>6. Tags(Remaining)[1] = Tag(Remaining[1].piece)
    BY <1>2, <2>1
  <2> QED BY <1>2, <2>1, <2>2, <2>3, <2>5, <2>6
<1> QED BY <1>2, <1>3, <1>4

(* A chunk is taken.                                                       *)
LEMMA TookAlong ==
    ASSUME Inv, NEW c \in Chunks, Took(c), NEW done \in Seq(PartSet), Along(done)
    PROVE  Along(done)'
<1>1. /\ Sent' = Sent \o PartsOf(Len(read'), c)
      /\ PartsOf(Len(read'), c) \in Seq(PartSet) /\ Sent \in Seq(PartSet)
  BY SentGrows, SentType DEF Took, Inv
<1>2. Sent = done
  BY ConcatEmptySeq DEF Took, Along
<1>3. Remaining = << >> /\ Remaining' = PartsOf(Len(read'), c)
  BY DEF Took
<1>4. UNCHANGED <<TagsHeld, PiecesHeld>>
  BY TagsQuiet DEF Took
<1>5. Together(Tags(Sent')) => Together(Tags(Sent))
  <2>1. /\ Tags(Sent') = Tags(Sent) \o Tags(PartsOf(Len(read'), c))
        /\ Tags(Sent) \in Seq(TagSet) /\ Tags(PartsOf(Len(read'), c)) \in Seq(TagSet)
    BY <1>1, TagsOfParts
  <2> QED BY <2>1, TogetherPrefix
<1>6. Together(Tags(Sent')) => Listed(done)'
  BY <1>3, <1>4, <1>5 DEF Along, Listed
<1> QED BY <1>1, <1>2, <1>3, <1>4, <1>6 DEF Along

(* Nothing changes.                                                        *)
LEMMA CalmAlong == ASSUME Calm, NEW done, Along(done) PROVE Along(done)'
<1>1. UNCHANGED <<Sent, Remaining, TagsHeld, PiecesHeld>>
  BY TagsQuiet DEF Calm, Sent
<1> QED BY <1>1 DEF Along, Listed

(* No block is opened for a tag that has one.                              *)
LEMMA OpenedAnew ==
    ASSUME Inv, Held, NEW typ \in Types, NEW call \in Calls \cup {NoCall},
           OpenedNext(typ, call), NEW done \in Seq(PartSet), Along(done),
           Together(Tags(Sent)), NEW k \in 1 .. Len(TagsHeld),
           TagsHeld[k] = [typ |-> typ, call |-> call]
    PROVE  FALSE
<1> DEFINE tag == [typ |-> typ, call |-> call]
           firsts == Firsts(Tags(done))
<1>1. /\ Opened(typ, call) /\ Remaining # << >> /\ Tag(Head(Remaining).piece) = tag
      /\ TypeOK /\ Numbered /\ OneEach
  BY DEF OpenedNext, Tag, Held, Inv
<1>2. /\ Len(TagsHeld) = Len(Starts) /\ Len(Starts) \in Nat
      /\ \A j \in 1 .. Len(Starts) : TagsHeld[j] = Tag(Starts[j])
  BY <1>1, TagsOfBlocks
<1>3. Starts[k].typ = typ /\ Starts[k].call = call
  <2>1. Tag(Starts[k]) = [typ |-> typ, call |-> call]
    BY <1>2
  <2> QED BY <2>1 DEF Tag
<1>4. CASE typ = "tool_use"
  BY <1>1, <1>2, <1>3, <1>4, NoneAssumption DEF Opened, OneEach
<1>5. CASE typ # "tool_use"
  <2>1. ~InBlock(typ)
    BY <1>1, <1>5 DEF Opened
  <2>2. nextIndex = Len(Starts) /\ nextIndex # 0 /\ Starts[nextIndex].typ # typ
    BY <1>1, <1>2, <2>1 DEF Numbered, InBlock
  <2>3. TagsHeld[Len(TagsHeld)] # tag
    <3>1. TagsHeld[nextIndex] = Tag(Starts[nextIndex])
      BY <1>2, <2>2
    <3> QED BY <1>2, <2>2, <3>1 DEF Tag
  <2>4. firsts \in Seq(TagSet) /\ Tags(done) \in Seq(TagSet) /\ Len(Tags(done)) = Len(done)
    BY TagsOfParts, FirstsAre
  <2>5. Listed(done)
    BY DEF Along
  <2>6. CASE TagsHeld = firsts
    <3>1. PICK i \in 1 .. Len(done) : Tags(done)[i] = tag
      <4>1. \E i \in 1 .. Len(Tags(done)) : Tags(done)[i] = firsts[k]
        BY <2>4, <2>6, FirstsAre
      <4> QED BY <2>4, <2>6, <4>1
    <3>2. /\ Len(done) + 1 \in 1 .. Len(Sent) /\ Len(done) \in Nat /\ Len(Tags(Sent)) = Len(Sent)
          /\ Tags(Sent)[Len(done) + 1] = tag
          /\ \A j \in 1 .. Len(done) : Tags(Sent)[j] = Tags(done)[j]
          /\ Len(Sent) \in Nat
          /\ Together(Tags(done))
      BY <1>1, TagsOfSent DEF Along
    <3> HIDE DEF tag, firsts
    <3>3. /\ i \in 1 .. Len(Tags(Sent)) /\ Len(done) + 1 \in 1 .. Len(Tags(Sent))
          /\ i < Len(done) + 1 /\ Len(done) \in i .. Len(done) + 1 /\ Len(done) \in 1 .. Len(done)
          /\ Tags(Sent)[i] = tag
      BY <3>1, <3>2
    <3>4. Tags(Sent)[Len(done)] = tag
      BY <3>2, <3>3 DEF Together
    <3>5. Tags(done)[Len(Tags(done))] = tag /\ Tags(done) # << >>
      BY <2>4, <3>2, <3>3, <3>4, EmptySeq
    <3>6. firsts[Len(firsts)] = tag
      BY <2>4, <3>2, <3>5, FirstsLast DEF firsts
    <3> QED BY <2>3, <2>6, <3>6
  <2>7. CASE TagsHeld = Append(firsts, tag)
    <3>1. tag \in TagSet
      <4>1. Tag(Head(Remaining).piece) \in TagSet
        BY <1>1, RemainingType, HeadTailProperties, TagsType
      <4> QED BY <1>1, <4>1
    <3> HIDE DEF tag, firsts
    <3>2. TagsHeld[Len(TagsHeld)] = tag
      BY <2>4, <2>7, <3>1, AppendProperties
    <3> QED BY <2>3, <3>2
  <2> QED BY <1>1, <2>5, <2>6, <2>7 DEF Listed
<1> QED BY <1>4, <1>5

(* A block is opened for the part that comes next.                         *)
LEMMA OpenedAlong ==
    ASSUME Inv, Held, NEW typ \in Types, NEW call \in Calls \cup {NoCall},
           OpenedNext(typ, call), NEW done \in Seq(PartSet), Along(done)
    PROVE  Along(done)'
<1> DEFINE tag == [typ |-> typ, call |-> call]
           firsts == Firsts(Tags(done))
<1>1. /\ UNCHANGED <<Sent, Remaining>> /\ Opened(typ, call) /\ TypeOK
      /\ Remaining # << >> /\ Tag(Head(Remaining).piece) = tag
  BY DEF OpenedNext, Sent, Tag, Inv
<1>2. TagsHeld' = Append(TagsHeld, tag) /\ PiecesHeld' = PiecesHeld
  BY <1>1, TagsOpened
<1>3. ASSUME Together(Tags(Sent)) PROVE Listed(done)'
  <2>1. \A k \in 1 .. Len(TagsHeld) : TagsHeld[k] # tag
    BY <1>3, OpenedAnew
  <2>2. tag \in TagSet
    <3>1. Tag(Head(Remaining).piece) \in TagSet
      BY <1>1, RemainingType, HeadTailProperties, TagsType
    <3> QED BY <1>1, <3>1
  <2>3. /\ firsts \in Seq(TagSet) /\ Len(Tags(done)) = Len(done)
        /\ \A i \in 1 .. Len(done) : \E k \in 1 .. Len(firsts) : firsts[k] = Tags(done)[i]
    <3>1. Tags(done) \in Seq(TagSet) /\ Len(Tags(done)) = Len(done)
      BY TagsOfParts
    <3> QED BY <3>1, FirstsAre
  <2>4. Listed(done)
    BY <1>3 DEF Along
  <2> HIDE DEF tag, firsts
  <2>5. TagsHeld # Append(firsts, tag)
    <3>1. /\ Append(firsts, tag)[Len(firsts) + 1] = tag /\ Len(firsts) \in Nat
          /\ Len(Append(firsts, tag)) = Len(firsts) + 1
      BY <2>2, <2>3, AppendProperties, LenProperties
    <3>2. Len(firsts) + 1 \in 1 .. Len(Append(firsts, tag))
      BY <3>1
    <3> QED BY <2>1, <3>1, <3>2
  <2>6. TagsHeld = firsts
    BY <1>1, <2>4, <2>5 DEF Listed, firsts
  <2>7. \A i \in 1 .. Len(done) : Tags(done)[i] # tag
    BY <2>1, <2>3, <2>6
  <2> QED BY <1>1, <1>2, <2>6, <2>7 DEF Listed, firsts
<1> QED BY <1>1, <1>2, <1>3 DEF Along

(* The part that comes next is handled in a block of its tag.              *)
LEMMA HandledInBlock ==
    ASSUME Inv, Held, NEW part \in PartSet, Handled(part), TagsHeld \in Seq(TagSet)
    PROVE  \E k \in 1 .. Len(TagsHeld) : TagsHeld[k] = Tag(part.piece)
<1>1. TypeOK /\ Numbered /\ OneEach
  BY DEF Held, Inv
<1>2. /\ Len(TagsHeld) = Len(Starts) /\ Len(Starts) \in Nat
      /\ \A j \in 1 .. Len(Starts) : TagsHeld[j] = Tag(Starts[j]) /\ TagsHeld[j] \in TagSet
  BY <1>1, TagsOfBlocks, ElementOfSeq
<1>3. \A j \in 1 .. Len(Starts) : Starts[j].typ = "tool_use" <=> Starts[j].call # NoCall
  <2> SUFFICES ASSUME NEW j \in 1 .. Len(Starts)
               PROVE  Starts[j].typ = "tool_use" <=> Starts[j].call # NoCall
    OBVIOUS
  <2>1. Tag(Starts[j]) \in TagSet
    BY <1>2
  <2>2. Tag(Starts[j]).typ = "tool_use" <=> Tag(Starts[j]).call # NoCall
    BY <2>1 DEF TagSet
  <2> QED BY <2>2 DEF Tag
<1>4. /\ part.piece.typ = "tool_use" <=> part.piece.call # NoCall
      /\ part.piece.typ # "tool_use" => part.payload
  BY DEF PartSet
<1>5. CASE part.piece.call # NoCall
  <2>1. PICK k \in 1 .. Len(Starts) : Starts[k].call = part.piece.call
    BY <1>1, <1>5 DEF Handled, OneEach
  <2>2. Starts[k].typ = part.piece.typ
    BY <1>3, <1>4, <1>5, <2>1
  <2> QED BY <1>2, <2>1, <2>2 DEF Tag
<1>6. CASE part.piece.call = NoCall
  <2>1. current # NoBlock /\ current.typ = part.piece.typ
    BY <1>4, <1>6 DEF Handled, Filled
  <2>2. nextIndex \in 1 .. Len(Starts) /\ Starts[nextIndex].typ = part.piece.typ
    BY <1>1, <1>2, <2>1 DEF Numbered
  <2>3. Starts[nextIndex].call = NoCall
    BY <1>3, <1>4, <1>6, <2>2
  <2> QED BY <1>2, <1>6, <2>2, <2>3 DEF Tag
<1> QED BY <1>5, <1>6

(* What is held is tagged like parts.                                      *)
LEMMA ListedType ==
    ASSUME TypeOK, NEW done \in Seq(PartSet), Listed(done)
    PROVE  TagsHeld \in Seq(TagSet)
<1>1. Firsts(Tags(done)) \in Seq(TagSet)
  BY TagsOfParts, FirstsAre
<1>2. Remaining # << >> => Tag(Head(Remaining).piece) \in TagSet
  BY RemainingType, HeadTailProperties, TagsType
<1>3. Remaining # << >> =>
          Append(Firsts(Tags(done)), Tag(Head(Remaining).piece)) \in Seq(TagSet)
  BY <1>1, <1>2, AppendProperties
<1> QED BY <1>1, <1>3 DEF Listed

(* The part that comes next is handled.                                    *)
LEMMA HandledAlong ==
    ASSUME Inv, Held, NEW part \in PartSet, Handled(part), NEW done \in Seq(PartSet), Along(done)
    PROVE  Along(Append(done, part))'
<1> DEFINE all == Append(done, part)
           tag == Tag(part.piece)
           firsts == Firsts(Tags(done))
<1>1. /\ Remaining \in Seq(PartSet) /\ Remaining # << >> /\ Head(Remaining) = part
      /\ Remaining' = Tail(Remaining) /\ TypeOK
  BY RemainingType DEF Inv, Handled
<1>2. Sent' = Sent
  BY DEF Handled, Sent
<1>3. Sent' = all \o Remaining'
  BY <1>1, <1>2, MoveHead DEF Along
<1>4. /\ TagsHeld' = TagsHeld
      /\ PiecesHeld' = IF part.payload THEN Append(PiecesHeld, part.piece) ELSE PiecesHeld
  BY TagsQuiet, PiecesFilled DEF Handled, PartSet
<1>5. PiecesHeld' = Payload(all)
  <2>1. Payload(all) = IF part.payload THEN Append(Payload(done), part.piece) ELSE Payload(done)
    BY PayloadGrows
  <2> QED BY <1>4, <2>1 DEF Along
<1>6. ASSUME Together(Tags(Sent)) PROVE Listed(all)'
  <2>1. Listed(done)
    BY <1>6 DEF Along
  <2>2. \E k \in 1 .. Len(TagsHeld) : TagsHeld[k] = tag
    BY <1>1, <2>1, ListedType, HandledInBlock
  <2>3. /\ Tags(all) = Append(Tags(done), tag) /\ tag \in TagSet
        /\ Tags(done) \in Seq(TagSet) /\ Len(Tags(done)) = Len(done)
    BY TagsOfParts, TagsType
  <2>4. Firsts(Tags(all)) = IF \E i \in 1 .. Len(done) : Tags(done)[i] = tag THEN firsts
                            ELSE Append(firsts, tag)
    <3>1. \A s \in Seq(TagSet), e \in TagSet :
              Firsts(Append(s, e)) = IF \E i \in 1 .. Len(s) : s[i] = e THEN Firsts(s)
                                     ELSE Append(Firsts(s), e)
      BY FirstsAppend
    <3> QED BY <2>3, <3>1
  <2> HIDE DEF all, tag
  <2>5. TagsHeld = Firsts(Tags(all))
    <3>1. CASE TagsHeld = firsts
      <4>1. \A k \in 1 .. Len(firsts) : \E i \in 1 .. Len(done) : Tags(done)[i] = firsts[k]
        BY <2>3, FirstsAre
      <4> QED BY <2>2, <2>4, <3>1, <4>1
    <3>2. CASE TagsHeld = Append(firsts, tag) /\ \A i \in 1 .. Len(done) : Tags(done)[i] # tag
      BY <2>4, <3>2
    <3> QED BY <1>1, <2>1, <3>1, <3>2 DEF Listed, tag
  <2> QED BY <1>4, <2>5 DEF Listed
<1> QED BY <1>2, <1>3, <1>5, <1>6 DEF Along

(* Every step gets on.                                                     *)
LEMMA NextAlong == Inv /\ Held /\ Alongside /\ [Next]_vars => Alongside'
<1> SUFFICES ASSUME Inv, Held, Alongside, [Next]_vars, pc' # "failed"
             PROVE  \E more \in Seq(PartSet) : Along(more)'
  BY DEF Alongside
<1>1. pc # "failed" /\ ~Gone
  BY StepKinds DEF Took, Calm, OpenedNext, Handled, Gone
<1>2. PICK done \in Seq(PartSet) : Along(done)
  BY <1>1 DEF Alongside
<1>3. ASSUME NEW part \in PartSet, Handled(part) PROVE \E more \in Seq(PartSet) : Along(more)'
  <2>1. Append(done, part) \in Seq(PartSet)
    BY <1>2, AppendProperties
  <2> QED BY <1>2, <1>3, <2>1, HandledAlong
<1> QED BY <1>1, <1>2, <1>3, StepKinds, TookAlong, CalmAlong, OpenedAlong

-----------------------------------------------------------------------------
(* Tags in the order of a whole reply: reasoning, text, and calls.         *)
TagRank(t) == CASE t.typ = "thinking" -> 1 [] t.typ = "text" -> 2 [] OTHER -> 3
Ranked(s) == \A i, j \in 1 .. Len(s) : i < j => TagRank(s[i]) <= TagRank(s[j])

AnyCall == Calls \cup {NoCall}
CallOfTag == [t \in TagSet |-> t.call]
RealCall == [c \in AnyCall |-> IF c # NoCall THEN <<c>> ELSE << >>]
TagOfCall == [c \in Calls |-> [typ |-> "tool_use", call |-> c]]

ProseTag(typ) == [typ |-> typ, call |-> NoCall]
ProseIn(s, typ) == IF \E i \in 1 .. Len(s) : s[i].typ = typ THEN <<ProseTag(typ)>> ELSE << >>
CallsIn(s) == Each(s, CallOfTag)
FirstCalls(s) == FlatMap(Firsts(CallsIn(s)), RealCall)
CallTags(s) == Each(FirstCalls(s), TagOfCall)

(* What these make.                                                        *)
LEMMA TagMaps ==
    /\ CallOfTag \in Maps(TagSet, AnyCall)
    /\ RealCall \in [AnyCall -> Seq(Calls)]
    /\ TagOfCall \in Maps(Calls, TagSet)
    /\ \A typ \in {"thinking", "text"} : ProseTag(typ) \in TagSet
<1>1. CallOfTag \in Maps(TagSet, AnyCall)
  BY DEF CallOfTag, Maps, TagSet, AnyTag, AnyCall
<1>2. RealCall \in [AnyCall -> Seq(Calls)]
  <2>1. ASSUME NEW c \in AnyCall PROVE (IF c # NoCall THEN <<c>> ELSE << >>) \in Seq(Calls)
    BY DEF AnyCall
  <2> QED BY <2>1 DEF RealCall
<1>3. TagOfCall \in Maps(Calls, TagSet)
  BY NoneAssumption DEF TagOfCall, Maps, TagSet, AnyTag, Types
<1>4. \A typ \in {"thinking", "text"} : ProseTag(typ) \in TagSet
  BY DEF ProseTag, TagSet, AnyTag, Types
<1> QED BY <1>1, <1>2, <1>3, <1>4

(* The calls of tags.                                                      *)
LEMMA CallsInType ==
    ASSUME NEW s \in Seq(TagSet)
    PROVE  /\ CallsIn(s) \in Seq(AnyCall) /\ Len(CallsIn(s)) = Len(s) /\ Len(s) \in Nat
           /\ \A i \in 1 .. Len(s) : CallsIn(s)[i] = s[i].call /\ s[i] \in TagSet
           /\ Firsts(CallsIn(s)) \in Seq(AnyCall)
           /\ FirstCalls(s) \in Seq(Calls)
<1>1. CallOfTag \in Maps(TagSet, AnyCall) /\ RealCall \in [AnyCall -> Seq(Calls)]
  BY TagMaps
<1>2. CallsIn(s) \in Seq(AnyCall) /\ Len(CallsIn(s)) = Len(s)
  BY <1>1, EachType DEF CallsIn
<1>3. \A i \in 1 .. Len(s) : CallsIn(s)[i] = CallOfTag[s[i]] /\ s[i] \in TagSet
  BY ElementOfSeq DEF CallsIn, Each
<1>4. \A i \in 1 .. Len(s) : CallsIn(s)[i] = s[i].call
  BY <1>3 DEF CallOfTag
<1>5. Firsts(CallsIn(s)) \in Seq(AnyCall)
  BY <1>2, FirstsAre
<1>6. FirstCalls(s) \in Seq(Calls)
  BY <1>1, <1>5, FlatMapType DEF FirstCalls
<1> QED BY <1>2, <1>3, <1>4, <1>5, <1>6, LenProperties

(* A tag adds its call unless the call has come before.                    *)
LEMMA FirstCallsAppend ==
    ASSUME NEW s \in Seq(TagSet), NEW e \in TagSet
    PROVE  FirstCalls(Append(s, e)) =
               IF e.call = NoCall \/ \E i \in 1 .. Len(s) : s[i] = e THEN FirstCalls(s)
               ELSE Append(FirstCalls(s), e.call)
<1> DEFINE calls == CallsIn(s)
           c == e.call
<1>1. /\ calls \in Seq(AnyCall) /\ Len(calls) = Len(s)
      /\ \A i \in 1 .. Len(s) : calls[i] = s[i].call /\ s[i] \in TagSet
      /\ Firsts(calls) \in Seq(AnyCall) /\ FirstCalls(s) \in Seq(Calls)
  BY CallsInType
<1>2. c \in AnyCall /\ CallOfTag[e] = c
  BY DEF CallOfTag, TagSet, AnyTag, AnyCall
<1>3. CallsIn(Append(s, e)) = Append(calls, c)
  <2>1. CallOfTag \in Maps(TagSet, AnyCall)
    BY TagMaps
  <2>2. Each(Append(s, e), CallOfTag) = Append(Each(s, CallOfTag), CallOfTag[e])
    BY <2>1, EachAppend
  <2> QED BY <1>2, <2>2 DEF CallsIn
<1>4. (\E i \in 1 .. Len(s) : s[i] = e) => \E i \in 1 .. Len(s) : calls[i] = c
  BY <1>1
<1>5. c # NoCall /\ (\E i \in 1 .. Len(s) : calls[i] = c) => \E i \in 1 .. Len(s) : s[i] = e
  <2> SUFFICES ASSUME c # NoCall, NEW i \in 1 .. Len(s), calls[i] = c PROVE s[i] = e
    OBVIOUS
  <2>1. s[i] \in TagSet /\ s[i].call = c
    BY <1>1
  <2> QED BY <2>1 DEF TagSet, AnyTag
<1> HIDE DEF calls, c
<1>6. Firsts(Append(calls, c)) = IF \E i \in 1 .. Len(s) : calls[i] = c THEN Firsts(calls)
                                 ELSE Append(Firsts(calls), c)
  <2>1. \A t \in Seq(AnyCall), x \in AnyCall :
            Firsts(Append(t, x)) = IF \E i \in 1 .. Len(t) : t[i] = x THEN Firsts(t)
                                   ELSE Append(Firsts(t), x)
    BY FirstsAppend
  <2> QED BY <1>1, <1>2, <2>1
<1>7. FlatMap(Append(Firsts(calls), c), RealCall) = FirstCalls(s) \o RealCall[c]
  <2>1. RealCall \in [AnyCall -> Seq(Calls)]
    BY TagMaps
  <2>2. FlatMap(Append(Firsts(calls), c), RealCall)
        = FlatMap(Firsts(calls), RealCall) \o RealCall[c]
    BY <1>1, <1>2, <2>1, FlatMapAppend, SMTT(30)
  <2> QED BY <2>2 DEF FirstCalls, calls
<1>8. FirstCalls(s) \o RealCall[c] = IF c = NoCall THEN FirstCalls(s) ELSE Append(FirstCalls(s), c)
  <2>1. RealCall[c] = IF c # NoCall THEN <<c>> ELSE << >>
    BY <1>2 DEF RealCall
  <2>2. c # NoCall => c \in Calls
    BY <1>2 DEF AnyCall
  <2>3. FirstCalls(s) \o << >> = FirstCalls(s)
    BY <1>1, ConcatEmptySeq
  <2>4. c \in Calls => FirstCalls(s) \o <<c>> = Append(FirstCalls(s), c)
    BY <1>1, AppendIsConcat
  <2> QED BY <2>1, <2>2, <2>3, <2>4
<1>9. FirstCalls(Append(s, e)) = FlatMap(Firsts(Append(calls, c)), RealCall)
  BY <1>3 DEF FirstCalls
<1>10. FlatMap(Firsts(calls), RealCall) = FirstCalls(s)
  BY DEF FirstCalls, calls
<1>11. FirstCalls(Append(s, e)) = IF c = NoCall \/ \E i \in 1 .. Len(s) : calls[i] = c
                                  THEN FirstCalls(s) ELSE Append(FirstCalls(s), c)
  BY <1>6, <1>7, <1>8, <1>9, <1>10
<1> QED BY <1>4, <1>5, <1>11 DEF c

(* Without tool calls there are no first ones.                             *)
LEMMA NoFirstCalls ==
    ASSUME NEW s \in Seq(TagSet), \A i \in 1 .. Len(s) : s[i].typ # "tool_use"
    PROVE  FirstCalls(s) = << >>
<1>1. /\ CallsIn(s) \in Seq(AnyCall) /\ Len(CallsIn(s)) = Len(s)
      /\ \A i \in 1 .. Len(s) : CallsIn(s)[i] = s[i].call /\ s[i] \in TagSet
      /\ Firsts(CallsIn(s)) \in Seq(AnyCall)
  BY CallsInType
<1>2. \A i \in 1 .. Len(s) : CallsIn(s)[i] = NoCall
  BY <1>1 DEF TagSet
<1>3. \A k \in 1 .. Len(Firsts(CallsIn(s))) :
          \E i \in 1 .. Len(s) : CallsIn(s)[i] = Firsts(CallsIn(s))[k]
  <2>1. \A k \in 1 .. Len(Firsts(CallsIn(s))) :
            \E i \in 1 .. Len(CallsIn(s)) : CallsIn(s)[i] = Firsts(CallsIn(s))[k]
    BY <1>1, FirstsAre
  <2> QED BY <1>1, <2>1
<1>4. RealCall[NoCall] = << >>
  BY DEF RealCall, AnyCall
<1>5. \A k \in 1 .. Len(Firsts(CallsIn(s))) : RealCall[Firsts(CallsIn(s))[k]] = << >>
  BY <1>2, <1>3, <1>4
<1> QED BY <1>1, <1>5, FlatMapNothing DEF FirstCalls

(* In that order, what comes first is reasoning if there is any, text if   *)
(* there is any, and the calls.                                            *)
LEMMA FirstsInOrder ==
    ASSUME NEW s \in Seq(TagSet), Ranked(s)
    PROVE  Firsts(s) = ProseIn(s, "thinking") \o (ProseIn(s, "text") \o CallTags(s))
<1> DEFINE Good(t) ==
        Ranked(t) => Firsts(t) = ProseIn(t, "thinking") \o (ProseIn(t, "text") \o CallTags(t))
           T == {t \in Seq(TagSet) : Good(t)}
<1>1. << >> \in T
  <2>1. << >> \in Seq(TagSet) /\ Len(<< >>) = 0
    BY EmptySeq
  <2>2. \A typ : ProseIn(<< >>, typ) = << >>
    BY <2>1 DEF ProseIn
  <2>3. FirstCalls(<< >>) = << >>
    <3>1. \A i \in 1 .. Len(<< >>) : << >>[i].typ # "tool_use"
      BY <2>1
    <3> QED BY <2>1, <3>1, NoFirstCalls
  <2>4. CallTags(<< >>) = << >>
    BY <2>1, <2>3 DEF CallTags, Each
  <2>5. << >> \o << >> = << >>
    BY <2>1, ConcatEmptySeq
  <2>6. Good(<< >>)
    BY <2>2, <2>4, <2>5, FirstsEmpty
  <2> HIDE DEF Good
  <2> QED BY <2>1, <2>6
<1>2. ASSUME NEW t \in Seq(TagSet), NEW e \in TagSet, t \in T PROVE Append(t, e) \in T
  <2> DEFINE u == Append(t, e)
             P == ProseIn(t, "thinking")
             X == ProseIn(t, "text")
             C == CallTags(t)
  <2>1. /\ Len(t) \in Nat /\ u \in Seq(TagSet) /\ Len(u) = Len(t) + 1 /\ u[Len(t) + 1] = e
        /\ \A i \in 1 .. Len(t) : u[i] = t[i] /\ t[i] \in TagSet
    BY AppendProperties, LenProperties, ElementOfSeq
  <2>2. /\ Firsts(t) \in Seq(TagSet)
        /\ Firsts(u) = IF \E i \in 1 .. Len(t) : t[i] = e THEN Firsts(t) ELSE Append(Firsts(t), e)
    BY FirstsAppend
  <2>3. FirstCalls(u) = IF e.call = NoCall \/ \E i \in 1 .. Len(t) : t[i] = e THEN FirstCalls(t)
                        ELSE Append(FirstCalls(t), e.call)
    BY FirstCallsAppend
  <2>4. Good(t)
    BY <1>2
  <2>5. P \in Seq(TagSet) /\ X \in Seq(TagSet) /\ C \in Seq(TagSet)
    <3>1. TagOfCall \in Maps(Calls, TagSet) /\ FirstCalls(t) \in Seq(Calls)
      BY TagMaps, CallsInType
    <3>2. C \in Seq(TagSet)
      BY <3>1, EachType DEF CallTags
    <3>3. ProseTag("thinking") \in TagSet /\ ProseTag("text") \in TagSet
      BY TagMaps
    <3> QED BY <3>2, <3>3 DEF ProseIn
  <2> HIDE DEF u, Good
  <2> SUFFICES ASSUME Ranked(u)
               PROVE  Firsts(u) = ProseIn(u, "thinking") \o (ProseIn(u, "text") \o CallTags(u))
    BY <2>1 DEF u, Good
  <2>6. Firsts(t) = P \o (X \o C)
    <3>1. Ranked(t)
      <4> SUFFICES ASSUME NEW i \in 1 .. Len(t), NEW j \in 1 .. Len(t), i < j
                   PROVE  TagRank(t[i]) <= TagRank(t[j])
        BY DEF Ranked
      <4>1. i \in 1 .. Len(u) /\ j \in 1 .. Len(u) /\ u[i] = t[i] /\ u[j] = t[j]
        BY <2>1
      <4> QED BY <4>1 DEF Ranked
    <3> QED BY <2>4, <3>1 DEF Good
  <2>7. \A i \in 1 .. Len(t) : TagRank(t[i]) <= TagRank(e)
    <3> SUFFICES ASSUME NEW i \in 1 .. Len(t) PROVE TagRank(t[i]) <= TagRank(e)
      OBVIOUS
    <3>1. i \in 1 .. Len(u) /\ Len(t) + 1 \in 1 .. Len(u) /\ i < Len(t) + 1
          /\ u[i] = t[i] /\ u[Len(t) + 1] = e
      BY <2>1
    <3> QED BY <3>1 DEF Ranked
  <2>8. ASSUME NEW typ
        PROVE  (\E i \in 1 .. Len(u) : u[i].typ = typ)
               <=> e.typ = typ \/ \E i \in 1 .. Len(t) : t[i].typ = typ
    <3>1. (\E i \in 1 .. Len(t) : t[i].typ = typ) => \E i \in 1 .. Len(u) : u[i].typ = typ
      <4> SUFFICES ASSUME NEW i \in 1 .. Len(t), t[i].typ = typ
                   PROVE  \E k \in 1 .. Len(u) : u[k].typ = typ
        OBVIOUS
      <4>1. i \in 1 .. Len(u) /\ u[i].typ = typ
        BY <2>1
      <4> QED BY <4>1
    <3>2. e.typ = typ => \E i \in 1 .. Len(u) : u[i].typ = typ
      <4>1. Len(t) + 1 \in 1 .. Len(u)
        BY <2>1
      <4> QED BY <2>1, <4>1
    <3>3. ASSUME NEW i \in 1 .. Len(u), u[i].typ = typ
          PROVE  e.typ = typ \/ \E k \in 1 .. Len(t) : t[k].typ = typ
      <4>1. CASE i \in 1 .. Len(t)
        BY <2>1, <3>3, <4>1
      <4>2. CASE i = Len(t) + 1
        BY <2>1, <3>3, <4>2
      <4> QED BY <2>1, <4>1, <4>2
    <3> QED BY <3>1, <3>2, <3>3
  <2>9. CASE \E i \in 1 .. Len(t) : t[i] = e
    <3>1. Firsts(u) = Firsts(t) /\ FirstCalls(u) = FirstCalls(t)
      BY <2>2, <2>3, <2>9
    <3>2. \A typ : ProseIn(u, typ) = ProseIn(t, typ)
      BY <2>8, <2>9 DEF ProseIn
    <3>3. CallTags(u) = C
      BY <3>1 DEF CallTags
    <3>4. ProseIn(u, "thinking") = P /\ ProseIn(u, "text") = X
      BY <3>2
    <3> HIDE DEF P, X, C
    <3> QED BY <2>6, <3>1, <3>3, <3>4
  <2>10. CASE ~ (\E i \in 1 .. Len(t) : t[i] = e) /\ e.typ = "thinking"
    <3>1. Len(t) = 0
      <4> SUFFICES ASSUME Len(t) # 0 PROVE FALSE
        OBVIOUS
      <4>1. 1 \in 1 .. Len(t)
        BY <2>1
      <4>2. TagRank(t[1]) <= TagRank(e) /\ TagRank(e) = 1
        BY <2>7, <2>10, <4>1 DEF TagRank
      <4>3. t[1].typ = "thinking"
        BY <4>2 DEF TagRank
      <4>4. t[1] = e
        BY <2>1, <2>10, <4>1, <4>3 DEF TagSet, AnyTag
      <4> QED BY <2>10, <4>1, <4>4
    <3>2. e = ProseTag("thinking") /\ e.call = NoCall
      BY <2>10 DEF TagSet, AnyTag, ProseTag
    <3>3. P = << >> /\ X = << >> /\ FirstCalls(t) = << >>
      <4>1. \A i \in 1 .. Len(t) : t[i].typ # "tool_use" /\ i \notin 1 .. Len(t)
        BY <3>1
      <4>2. P = << >> /\ X = << >>
        BY <4>1 DEF ProseIn
      <4>3. FirstCalls(t) = << >>
        BY <4>1, NoFirstCalls
      <4> QED BY <4>2, <4>3
    <3>4. ProseIn(u, "thinking") = <<e>> /\ ProseIn(u, "text") = << >> /\ FirstCalls(u) = << >>
      BY <2>3, <2>8, <2>10, <3>1, <3>2, <3>3 DEF ProseIn
    <3>5. C = << >> /\ CallTags(u) = << >>
      BY <3>3, <3>4, EmptySeq DEF CallTags, Each
    <3>6. Firsts(u) = Append(<< >> \o (<< >> \o << >>), e)
      BY <2>2, <2>6, <2>10, <3>3, <3>5
    <3>7. << >> \o << >> = << >> /\ <<e>> \o << >> = <<e>> /\ Append(<< >>, e) = <<e>>
      OBVIOUS
    <3> QED BY <3>4, <3>5, <3>6, <3>7
  <2>11. CASE ~ (\E i \in 1 .. Len(t) : t[i] = e) /\ e.typ = "text"
    <3>1. \A i \in 1 .. Len(t) : t[i].typ = "thinking"
      <4> SUFFICES ASSUME NEW i \in 1 .. Len(t) PROVE t[i].typ = "thinking"
        OBVIOUS
      <4>1. TagRank(t[i]) <= TagRank(e) /\ TagRank(e) = 2
        BY <2>7, <2>11 DEF TagRank
      <4>2. t[i].typ # "tool_use"
        BY <4>1 DEF TagRank
      <4>3. t[i].typ # "text"
        BY <2>1, <2>11 DEF TagSet, AnyTag
      <4> QED BY <2>1, <4>2, <4>3 DEF TagSet, AnyTag, Types
    <3>2. e = ProseTag("text") /\ e.call = NoCall
      BY <2>11 DEF TagSet, AnyTag, ProseTag
    <3>3. X = << >> /\ FirstCalls(t) = << >>
      <4>1. FirstCalls(t) = << >>
        BY <3>1, NoFirstCalls
      <4> QED BY <3>1, <4>1 DEF ProseIn
    <3>4. ProseIn(u, "thinking") = P /\ ProseIn(u, "text") = <<e>> /\ FirstCalls(u) = << >>
      BY <2>3, <2>8, <2>11, <3>2, <3>3 DEF ProseIn
    <3>5. C = << >> /\ CallTags(u) = << >>
      BY <3>3, <3>4, EmptySeq DEF CallTags, Each
    <3>6. Firsts(u) = Append(P \o (<< >> \o << >>), e)
      BY <2>2, <2>6, <2>11, <3>3, <3>5
    <3>7. << >> \o << >> = << >> /\ <<e>> \o << >> = <<e>>
      OBVIOUS
    <3>8. P \o << >> = P /\ P \o <<e>> = Append(P, e)
      BY <2>5, ConcatEmptySeq, AppendIsConcat
    <3> QED BY <3>4, <3>5, <3>6, <3>7, <3>8
  <2>12. CASE ~ (\E i \in 1 .. Len(t) : t[i] = e) /\ e.typ = "tool_use"
    <3>1. e.call \in Calls /\ e.call # NoCall /\ e = [typ |-> "tool_use", call |-> e.call]
      BY <2>12 DEF TagSet, AnyTag
    <3>2. TagOfCall[e.call] = e
      BY <3>1 DEF TagOfCall
    <3>3. FirstCalls(u) = Append(FirstCalls(t), e.call)
      BY <2>3, <2>12, <3>1
    <3>4. CallTags(u) = Append(C, e)
      <4>1. TagOfCall \in Maps(Calls, TagSet) /\ FirstCalls(t) \in Seq(Calls)
        BY TagMaps, CallsInType
      <4>2. Each(Append(FirstCalls(t), e.call), TagOfCall)
            = Append(Each(FirstCalls(t), TagOfCall), TagOfCall[e.call])
        BY <3>1, <4>1, EachAppend
      <4> QED BY <3>2, <3>3, <4>2 DEF CallTags
    <3>5. ProseIn(u, "thinking") = P /\ ProseIn(u, "text") = X
      BY <2>8, <2>12 DEF ProseIn
    <3>6. Firsts(u) = Append(P \o (X \o C), e)
      BY <2>2, <2>6, <2>12
    <3> HIDE DEF P, X, C
    <3>7. X \o C \in Seq(TagSet)
      BY <2>5, ConcatProperties
    <3>8. X \o Append(C, e) = Append(X \o C, e)
      BY <2>5, ConcatAppend
    <3>9. P \o Append(X \o C, e) = Append(P \o (X \o C), e)
      BY <2>5, <3>7, ConcatAppend, SMTT(30)
    <3> QED BY <3>4, <3>5, <3>6, <3>8, <3>9
  <2> QED BY <2>9, <2>10, <2>11, <2>12 DEF TagSet, AnyTag, Types
<1> HIDE DEF T
<1>3. \A t \in Seq(TagSet) : t \in T
  BY <1>1, <1>2, ListInduction
<1> QED BY <1>3 DEF T

-----------------------------------------------------------------------------
(* A stream in order, and what was sent in it.                             *)

(* The tags of what was sent.                                              *)
LEMMA SentTags ==
    ASSUME TypeOK
    PROVE  /\ Sent \in Seq(PartSet) /\ Len(Sent) \in Nat
           /\ Tags(Sent) \in Seq(TagSet) /\ Len(Tags(Sent)) = Len(Sent)
           /\ \A i \in 1 .. Len(Sent) :
                  /\ Sent[i] \in PartSet /\ Tags(Sent)[i] \in TagSet
                  /\ Tags(Sent)[i] = Tag(Sent[i].piece)
                  /\ Tags(Sent)[i].typ = Sent[i].piece.typ
                  /\ Tags(Sent)[i].call = Sent[i].piece.call
<1>1. /\ Sent \in Seq(PartSet) /\ Len(Sent) \in Nat
      /\ Tags(Sent) \in Seq(TagSet) /\ Len(Tags(Sent)) = Len(Sent)
      /\ \A i \in 1 .. Len(Sent) : Tags(Sent)[i] = Tag(Sent[i].piece)
  BY SentType, TagsOfParts, LenProperties
<1>2. ASSUME NEW i \in 1 .. Len(Sent)
      PROVE  /\ Sent[i] \in PartSet /\ Tags(Sent)[i] \in TagSet
             /\ Tags(Sent)[i].typ = Sent[i].piece.typ
             /\ Tags(Sent)[i].call = Sent[i].piece.call
  <2>1. Sent[i] \in PartSet /\ Tags(Sent)[i] \in TagSet
    BY <1>1, ElementOfSeq
  <2>2. Tag(Sent[i].piece).typ = Sent[i].piece.typ /\ Tag(Sent[i].piece).call = Sent[i].piece.call
    BY DEF Tag
  <2>3. Tags(Sent)[i] = Tag(Sent[i].piece)
    BY <1>1
  <2> QED BY <2>1, <2>2, <2>3
<1> QED BY <1>1, <1>2

(* Its tags are in order, each in one run.                                 *)
LEMMA InOrderTags ==
    ASSUME TypeOK, InOrder
    PROVE  Together(Tags(Sent)) /\ Ranked(Tags(Sent))
<1> DEFINE t == Tags(Sent)
<1>1. Len(t) = Len(Sent) /\ Len(Sent) \in Nat
  BY SentTags
<1>2. \A i \in 1 .. Len(Sent) :
          /\ t[i] \in TagSet
          /\ t[i].typ = Sent[i].piece.typ /\ t[i].call = Sent[i].piece.call
  BY SentTags
<1> HIDE DEF t
<1>3. \A i \in 1 .. Len(Sent) : Rank(Sent[i]) = TagRank(t[i])
  BY <1>2 DEF Rank, TagRank
<1>4. \A i, j \in 1 .. Len(Sent) : i < j => TagRank(t[i]) <= TagRank(t[j])
  BY <1>3 DEF InOrder
<1>5. Runs(Sent)
  BY ContiguousRuns DEF InOrder
<1>6. ASSUME NEW i \in 1 .. Len(Sent), NEW j \in 1 .. Len(Sent), i < j, t[i] = t[j],
             NEW k \in i .. j
      PROVE  t[k] = t[i]
  <2>1. k \in 1 .. Len(Sent) /\ t[k] \in TagSet /\ t[i] \in TagSet
    BY <1>1, <1>2
  <2>2. CASE t[i].call # NoCall
    <3>1. t[k].call = t[i].call
      BY <1>2, <1>5, <1>6, <2>1, <2>2 DEF Runs
    <3> QED BY <2>1, <2>2, <3>1 DEF TagSet, AnyTag
  <2>3. CASE t[i].call = NoCall
    <3>1. TagRank(t[i]) <= TagRank(t[k]) /\ TagRank(t[k]) <= TagRank(t[j])
      <4>1. k = i \/ i < k
        BY <1>1
      <4>2. k = j \/ k < j
        BY <1>1
      <4>3. \A x \in TagSet : TagRank(x) <= TagRank(x)
        BY DEF TagRank
      <4> QED BY <1>4, <1>6, <2>1, <4>1, <4>2, <4>3
    <3>2. t[i].typ \in {"thinking", "text"}
      BY <2>1, <2>3 DEF TagSet, AnyTag, Types
    <3>3. t[k].typ = t[i].typ
      BY <1>6, <2>1, <3>1, <3>2 DEF TagRank, TagSet, AnyTag, Types
    <3> QED BY <2>1, <2>3, <3>2, <3>3 DEF TagSet, AnyTag
  <2> QED BY <2>2, <2>3
<1> QED BY <1>1, <1>4, <1>6 DEF Together, Ranked, t

(* The calls sent are those of the tags.                                   *)
LEMMA SentCalls == ASSUME TypeOK PROVE CallsSent = FirstCalls(Tags(Sent))
<1> DEFINE t == Tags(Sent)
           calls == Firsts(CallsOf(Sent))
           f == [i \in 1 .. Len(calls) |-> IF calls[i] # NoCall THEN <<calls[i]>> ELSE << >>]
<1>1. /\ t \in Seq(TagSet) /\ Len(t) = Len(Sent)
      /\ \A i \in 1 .. Len(Sent) : t[i] \in TagSet /\ t[i].call = Sent[i].piece.call
  BY SentTags
<1>2. CallsOf(Sent) = CallsIn(t)
  <2>1. CallsIn(t) = [i \in 1 .. Len(Sent) |-> CallOfTag[t[i]]]
    BY <1>1 DEF CallsIn, Each
  <2> HIDE DEF t
  <2>2. \A i \in 1 .. Len(Sent) : CallOfTag[t[i]] = Sent[i].piece.call
    BY <1>1 DEF CallOfTag
  <2> QED BY <2>1, <2>2 DEF CallsOf
<1>3. calls \in Seq(AnyCall)
  BY <1>1, <1>2, CallsInType
<1>4. CallsSent = FlattenSeq(f)
  BY DEF CallsSent
<1>5. f = [i \in 1 .. Len(calls) |-> RealCall[calls[i]]]
  <2>1. \A i \in 1 .. Len(calls) : calls[i] \in AnyCall
    BY <1>3, ElementOfSeq
  <2> HIDE DEF calls
  <2>2. \A i \in 1 .. Len(calls) :
            RealCall[calls[i]] = IF calls[i] # NoCall THEN <<calls[i]>> ELSE << >>
    BY <2>1 DEF RealCall
  <2> QED BY <2>2
<1>6. FirstCalls(t) = FlatMap(calls, RealCall)
  BY <1>2 DEF FirstCalls
<1> HIDE DEF f, calls
<1> QED BY <1>4, <1>5, <1>6 DEF FlatMap, t

-----------------------------------------------------------------------------
(* The pieces sent.                                                        *)

(* Every piece sent with payload is a part's.                              *)
LEMMA PayloadAre ==
    ASSUME NEW parts \in Seq(PartSet)
    PROVE  /\ Payload(parts) \in Seq(Pieces)
           /\ \A i \in 1 .. Len(Payload(parts)) :
                  \E k \in 1 .. Len(parts) : Payload(parts)[i] = parts[k].piece
<1> DEFINE Good(t) == /\ Payload(t) \in Seq(Pieces)
                      /\ \A i \in 1 .. Len(Payload(t)) :
                             \E k \in 1 .. Len(t) : Payload(t)[i] = t[k].piece
           T == {t \in Seq(PartSet) : Good(t)}
<1>1. << >> \in T
  <2>1. << >> \in Seq(PartSet) /\ << >> \in Seq(Pieces) /\ Len(<< >>) = 0
    BY EmptySeq
  <2>2. Payload(<< >>) = << >>
    BY <2>1, PayloadMap, FlatMapEmpty
  <2>3. Payload(<< >>) \in Seq(Pieces) /\ Len(Payload(<< >>)) = 0
    BY <2>1, <2>2, Zenon
  <2>4. \A i \in 1 .. Len(Payload(<< >>)) : FALSE
    BY <2>3
  <2>5. Good(<< >>)
    BY <2>3, <2>4
  <2> HIDE DEF Good
  <2> QED BY <2>1, <2>5
<1>2. ASSUME NEW t \in Seq(PartSet), NEW e \in PartSet, t \in T PROVE Append(t, e) \in T
  <2> DEFINE u == Append(t, e)
             p == Payload(t)
             q == Payload(u)
  <2>1. /\ Len(t) \in Nat /\ u \in Seq(PartSet) /\ Len(u) = Len(t) + 1 /\ u[Len(t) + 1] = e
        /\ \A i \in 1 .. Len(t) : u[i] = t[i]
    BY AppendProperties, LenProperties
  <2>2. q = IF e.payload THEN Append(p, e.piece) ELSE p
    BY PayloadGrows
  <2>3. /\ p \in Seq(Pieces) /\ Len(p) \in Nat /\ e.piece \in Pieces
        /\ \A i \in 1 .. Len(p) : \E k \in 1 .. Len(t) : p[i] = t[k].piece
    BY <1>2, LenProperties DEF PartSet
  <2> HIDE DEF u, p, q
  <2>4. \A i \in 1 .. Len(p) : \E k \in 1 .. Len(u) : p[i] = u[k].piece
    <3> SUFFICES ASSUME NEW i \in 1 .. Len(p) PROVE \E k \in 1 .. Len(u) : p[i] = u[k].piece
      OBVIOUS
    <3>1. PICK k \in 1 .. Len(t) : p[i] = t[k].piece
      BY <2>3
    <3>2. k \in 1 .. Len(u) /\ p[i] = u[k].piece
      BY <2>1, <3>1
    <3> QED BY <3>2
  <2>5. CASE e.payload
    <3>1. /\ q \in Seq(Pieces) /\ Len(q) = Len(p) + 1 /\ q[Len(p) + 1] = e.piece
          /\ \A i \in 1 .. Len(p) : q[i] = p[i]
      BY <2>2, <2>3, <2>5, AppendProperties
    <3>2. \A i \in 1 .. Len(q) : \E k \in 1 .. Len(u) : q[i] = u[k].piece
      <4> SUFFICES ASSUME NEW i \in 1 .. Len(q) PROVE \E k \in 1 .. Len(u) : q[i] = u[k].piece
        OBVIOUS
      <4>1. CASE i \in 1 .. Len(p)
        BY <2>4, <3>1, <4>1
      <4>2. CASE i = Len(p) + 1
        <5>1. Len(t) + 1 \in 1 .. Len(u) /\ q[i] = u[Len(t) + 1].piece
          BY <2>1, <3>1, <4>2
        <5> QED BY <5>1
      <4> QED BY <2>3, <3>1, <4>1, <4>2
    <3> QED BY <2>1, <3>1, <3>2 DEF q, u
  <2>6. CASE ~e.payload
    <3>1. q = p
      BY <2>2, <2>6
    <3> QED BY <2>1, <2>3, <2>4, <3>1 DEF q, u
  <2> QED BY <2>5, <2>6
<1> HIDE DEF T
<1>3. \A t \in Seq(PartSet) : t \in T
  BY <1>1, <1>2, ListInduction
<1> QED BY <1>3 DEF T

(* The pieces of a tag, among pieces and among parts.                      *)
Keep(typ, call) ==
    [p \in Pieces |-> IF p.typ = typ /\ p.call = call THEN <<p>> ELSE << >>]
KeepOf(typ, call) ==
    [part \in PartSet |-> IF part.payload /\ part.piece.typ = typ /\ part.piece.call = call
                          THEN <<part.piece>> ELSE << >>]

(* What was sent of a tag.                                                 *)
LEMMA SentPieces ==
    ASSUME TypeOK, NEW typ, NEW call
    PROVE  PiecesSent(typ, call) = FlatMap(Sent, KeepOf(typ, call))
<1>1. Sent \in Seq(PartSet) /\ SentPayload \in Seq(Pieces)
  BY SentType, PayloadAre DEF SentPayload
<1>2. SentPayload = FlatMap(Sent, PayloadOf)
  BY <1>1, PayloadMap DEF SentPayload
<1>3. PayloadOf \in Makers(PartSet, Pieces) /\ Keep(typ, call) \in Makers(Pieces, Pieces)
  BY DEF PayloadOf, Makers, Keep, PartSet
<1>4. PiecesSent(typ, call) = FlatMap(SentPayload, Keep(typ, call))
  <2> DEFINE s == SentPayload
             f == [i \in 1 .. Len(s) |->
                      IF s[i].typ = typ /\ s[i].call = call THEN <<s[i]>> ELSE << >>]
  <2>1. \A i \in 1 .. Len(s) : s[i] \in Pieces
    BY <1>1, ElementOfSeq
  <2>2. PiecesSent(typ, call) = FlattenSeq(f)
    BY DEF PiecesSent, PiecesIn
  <2> HIDE DEF s
  <2>3. f = [i \in 1 .. Len(s) |-> Keep(typ, call)[s[i]]]
    BY <2>1 DEF Keep
  <2> QED BY <2>2, <2>3 DEF FlatMap, s
<1>5. ASSUME NEW part \in PartSet
      PROVE  FlatMap(PayloadOf[part], Keep(typ, call)) = KeepOf(typ, call)[part]
  <2>1. /\ PayloadOf[part] = IF part.payload THEN <<part.piece>> ELSE << >>
        /\ part.piece \in Pieces
    BY DEF PayloadOf, PartSet
  <2>2. Keep(typ, call)[part.piece]
        = IF part.piece.typ = typ /\ part.piece.call = call THEN <<part.piece>> ELSE << >>
    BY <2>1 DEF Keep
  <2>3. FlatMap(<<part.piece>>, Keep(typ, call)) = Keep(typ, call)[part.piece]
    <3>1. Keep(typ, call) \in [Pieces -> Seq(Pieces)]
      BY <1>3 DEF Makers
    <3> QED BY <2>1, <3>1, FlatMapOne
  <2>4. FlatMap(<< >>, Keep(typ, call)) = << >>
    BY FlatMapEmpty
  <2>5. KeepOf(typ, call)[part]
        = IF part.payload /\ part.piece.typ = typ /\ part.piece.call = call
          THEN <<part.piece>> ELSE << >>
    BY DEF KeepOf
  <2> QED BY <2>1, <2>2, <2>3, <2>4, <2>5
<1>6. FlatMap(FlatMap(Sent, PayloadOf), Keep(typ, call)) = FlatMap(Sent, KeepOf(typ, call))
  BY <1>1, <1>3, <1>5, FlatMapTwice
<1> QED BY <1>2, <1>4, <1>6

(* There is prose of a type exactly when a part of that type was sent.     *)
LEMMA SentProse ==
    ASSUME TypeOK, NEW typ \in {"thinking", "text"}
    PROVE  ProseIn(Tags(Sent), typ)
           = IF PiecesSent(typ, NoCall) = << >> THEN << >> ELSE <<ProseTag(typ)>>
<1> DEFINE t == Tags(Sent)
           K == KeepOf(typ, NoCall)
<1>1. Sent \in Seq(PartSet) /\ Len(t) = Len(Sent)
  BY SentTags
<1>2. ASSUME NEW i \in 1 .. Len(Sent)
      PROVE  K[Sent[i]] = IF t[i].typ = typ THEN <<Sent[i].piece>> ELSE << >>
  <2>1. Sent[i] \in PartSet /\ t[i].typ = Sent[i].piece.typ
    BY SentTags
  <2>2. Sent[i].piece.typ = typ => Sent[i].payload /\ Sent[i].piece.call = NoCall
    BY <2>1 DEF PartSet
  <2> QED BY <2>1, <2>2 DEF KeepOf
<1>3. PiecesSent(typ, NoCall) = FlatMap(Sent, K)
  BY SentPieces
<1>4. K \in [PartSet -> Seq(Pieces)]
  BY DEF KeepOf, PartSet
<1> HIDE DEF K
<1>5. CASE \E i \in 1 .. Len(Sent) : t[i].typ = typ
  <2>1. PICK i \in 1 .. Len(Sent) : t[i].typ = typ
    BY <1>5
  <2>2. K[Sent[i]] = <<Sent[i].piece>>
    BY <1>2, <2>1
  <2>3. K[Sent[i]] # << >>
    BY <2>2
  <2>4. FlatMap(Sent, K) # << >>
    <3> SUFFICES ASSUME FlatMap(Sent, K) = << >> PROVE FALSE
      OBVIOUS
    <3>1. ASSUME NEW s \in Seq(PartSet), FlatMap(s, K) = << >>
          PROVE  \A k \in 1 .. Len(s) : K[s[k]] = << >>
      BY <1>4, <3>1, FlatMapNone
    <3>2. \A k \in 1 .. Len(Sent) : K[Sent[k]] = << >>
      BY <1>1, <3>1
    <3> QED BY <2>3, <3>2
  <2> QED BY <1>1, <1>3, <1>5, <2>4 DEF ProseIn
<1>6. CASE ~ \E i \in 1 .. Len(Sent) : t[i].typ = typ
  <2>1. FlatMap(Sent, K) = << >>
    BY <1>1, <1>2, <1>6, FlatMapNothing
  <2> QED BY <1>1, <1>3, <1>6, <2>1 DEF ProseIn
<1> QED BY <1>5, <1>6

-----------------------------------------------------------------------------
(* A complete stream in order, and the blocks its client holds.            *)
WholeInOrder == ClientInv /\ Alongside /\ Complete /\ InOrder

(* Its blocks are those of the tags as they first came, and its pieces all *)
(* that was sent.                                                          *)
LEMMA AllAlong ==
    ASSUME WholeInOrder
    PROVE  TagsHeld = Firsts(Tags(Sent)) /\ PiecesHeld = SentPayload
<1>1. pc = "done" /\ TypeOK
  BY DEF WholeInOrder, ClientInv, Final, Inv
<1>2. Remaining = << >>
  BY <1>1 DEF Remaining
<1>3. PICK done \in Seq(PartSet) : Along(done)
  BY <1>1 DEF WholeInOrder, Alongside
<1>4. Sent = done
  BY <1>2, <1>3, ConcatEmptySeq DEF Along
<1>5. Together(Tags(Sent))
  BY <1>1, InOrderTags DEF WholeInOrder
<1> QED BY <1>2, <1>3, <1>4, <1>5 DEF Along, Listed, SentPayload

(* Its blocks have tags of parts, each its own.                            *)
LEMMA OwnTags ==
    ASSUME WholeInOrder
    PROVE  /\ Len(Starts) \in Nat
           /\ \A k \in 1 .. Len(Starts) :
                  /\ Starts[k].index = k - 1
                  /\ Tag(Starts[k]) \in TagSet /\ TagsHeld[k] = Tag(Starts[k])
                  /\ Starts[k].typ = "tool_use" <=> Starts[k].call # NoCall
           /\ \A j, k \in 1 .. Len(Starts) : Tag(Starts[j]) = Tag(Starts[k]) => j = k
<1>1. TypeOK /\ Numbered
  BY DEF WholeInOrder, ClientInv, Inv, Held
<1>2. /\ Len(TagsHeld) = Len(Starts) /\ Len(Starts) \in Nat
      /\ \A k \in 1 .. Len(Starts) : TagsHeld[k] = Tag(Starts[k])
  BY <1>1, TagsOfBlocks
<1>3. Tags(Sent) \in Seq(TagSet)
  BY <1>1, SentTags
<1>4. /\ TagsHeld \in Seq(TagSet)
      /\ \A j, k \in 1 .. Len(TagsHeld) : TagsHeld[j] = TagsHeld[k] => j = k
  <2>1. ASSUME NEW s \in Seq(TagSet)
        PROVE  /\ Firsts(s) \in Seq(TagSet)
               /\ \A j, k \in 1 .. Len(Firsts(s)) : Firsts(s)[j] = Firsts(s)[k] => j = k
    BY FirstsAre
  <2> QED BY <1>3, <2>1, AllAlong
<1>5. \A k \in 1 .. Len(Starts) : Tag(Starts[k]) \in TagSet
  BY <1>2, <1>4, ElementOfSeq
<1>6. ASSUME NEW k \in 1 .. Len(Starts)
      PROVE  Starts[k].typ = "tool_use" <=> Starts[k].call # NoCall
  <2>1. Tag(Starts[k]).typ = "tool_use" <=> Tag(Starts[k]).call # NoCall
    BY <1>5 DEF TagSet
  <2> QED BY <2>1 DEF Tag
<1>7. \A k \in 1 .. Len(Starts) : Starts[k].index = k - 1
  BY <1>1 DEF Numbered
<1> QED BY <1>2, <1>4, <1>5, <1>6, <1>7

(* A delta is in the block of its tag.                                     *)
LEMMA InOwnBlock ==
    ASSUME WholeInOrder, NEW i \in 1 .. Len(Deltas)
    PROVE  /\ Deltas[i].index + 1 \in 1 .. Len(Starts) /\ Deltas[i].index \in Nat
           /\ Tag(Starts[Deltas[i].index + 1]) = Tag(Deltas[i].piece)
<1>1. TypeOK /\ Numbered /\ ProseAsStarted /\ CallsKept /\ nextIndex \in Nat
  BY DEF WholeInOrder, ClientInv, Inv, Held, TypeOK
<1> DEFINE k == Deltas[i].index + 1
<1>2. k \in 1 .. Len(Starts) /\ Deltas[i].index \in Nat
  BY <1>1, DeltaIndex DEF Numbered
<1>3. Starts[k].typ = "tool_use" <=> Starts[k].call # NoCall
  BY <1>2, OwnTags
<1>4. /\ Deltas[i].piece.typ = "tool_use" <=> Deltas[i].piece.call # NoCall
      /\ Deltas[i].piece \in Pieces
  <2>1. /\ PiecesHeld = Payload(Sent) /\ Len(PiecesHeld) = Len(Deltas)
        /\ PiecesHeld[i] = Deltas[i].piece /\ Sent \in Seq(PartSet)
    BY <1>1, AllAlong, TagsOfBlocks, SentType DEF SentPayload
  <2>2. PICK n \in 1 .. Len(Sent) : PiecesHeld[i] = Sent[n].piece
    BY <2>1, PayloadAre
  <2>3. Sent[n] \in PartSet
    BY <2>1, ElementOfSeq
  <2> QED BY <2>1, <2>2, <2>3 DEF PartSet
<1>5. Starts[k].typ \in Types
  <2>1. Starts[k] \in StartEvents
    BY <1>1, <1>2, CollectedType, ElementOfSeq
  <2> QED BY <2>1 DEF StartEvents
<1>6. Runs(Sent)
  BY <1>1, ContiguousRuns DEF WholeInOrder, InOrder
<1>7. Deltas[i].piece.typ = "tool_use" => Starts[k].call = Deltas[i].piece.call
  BY <1>1, <1>6 DEF CallsKept
<1>8. Deltas[i].piece.typ # "tool_use" => Starts[k].typ = Deltas[i].piece.typ
  BY <1>1 DEF ProseAsStarted
<1> HIDE DEF k
<1>9. Starts[k].typ = Deltas[i].piece.typ /\ Starts[k].call = Deltas[i].piece.call
  BY <1>3, <1>4, <1>7, <1>8
<1>10. Tag(Starts[k]) = Tag(Deltas[i].piece)
  BY <1>9 DEF Tag
<1> QED BY <1>2, <1>10 DEF k

(* So a block holds what was sent of its tag.                              *)
LEMMA BlockHolds ==
    ASSUME WholeInOrder, NEW k \in 1 .. Len(Starts)
    PROVE  PiecesOf(Starts[k].index) = PiecesSent(Starts[k].typ, Starts[k].call)
<1> DEFINE s == SentPayload
           typ == Starts[k].typ
           call == Starts[k].call
           b == Starts[k].index
           f == [i \in 1 .. Len(Deltas) |->
                    IF Deltas[i].index = b THEN <<Deltas[i].piece>> ELSE << >>]
           g == [i \in 1 .. Len(s) |->
                    IF s[i].typ = typ /\ s[i].call = call THEN <<s[i]>> ELSE << >>]
<1>1. TypeOK
  BY DEF WholeInOrder, ClientInv, Inv
<1>2. Len(s) = Len(Deltas) /\ \A i \in 1 .. Len(Deltas) : s[i] = Deltas[i].piece
  BY <1>1, AllAlong, TagsOfBlocks
<1>3. ASSUME NEW i \in 1 .. Len(Deltas)
      PROVE  Deltas[i].index = b <=> Deltas[i].piece.typ = typ /\ Deltas[i].piece.call = call
  <2> DEFINE j == Deltas[i].index + 1
  <2>1. /\ j \in 1 .. Len(Starts) /\ Deltas[i].index \in Nat
        /\ Tag(Starts[j]) = Tag(Deltas[i].piece)
    BY InOwnBlock
  <2>2. /\ b = k - 1 /\ Len(Starts) \in Nat
        /\ Tag(Starts[j]) = Tag(Starts[k]) => j = k
    BY <2>1, OwnTags
  <2>3. Tag(Starts[k]) = Tag(Deltas[i].piece)
        <=> Deltas[i].piece.typ = typ /\ Deltas[i].piece.call = call
    BY DEF Tag
  <2>4. Deltas[i].index = b <=> j = k
    BY <2>1, <2>2
  <2> HIDE DEF j, b, typ, call
  <2> QED BY <2>1, <2>2, <2>3, <2>4
<1>4. PiecesOf(b) = FlattenSeq(f)
  BY DEF PiecesOf
<1>5. PiecesSent(typ, call) = FlattenSeq(g)
  BY DEF PiecesSent, PiecesIn
<1> HIDE DEF s, b, typ, call
<1>6. f = g
  BY <1>2, <1>3
<1> QED BY <1>4, <1>5, <1>6 DEF b, typ, call

-----------------------------------------------------------------------------
(* The block a whole reply has for a tag.                                  *)
BlockFor(t) ==
    CASE t.typ = "thinking" -> Whole!ThinkingBlock(PiecesSent(t.typ, t.call))
      [] t.typ = "text" -> Whole!TextBlock(PiecesSent(t.typ, t.call))
      [] t.typ = "tool_use" ->
            Whole!ToolUse([id |-> t.call, arguments |-> PiecesSent(t.typ, t.call)])
BlockOf == [t \in TagSet |-> BlockFor(t)]
AnyBlock == {BlockFor(t) : t \in TagSet}

(* The client holds just these.                                            *)
LEMMA ContentHeld ==
    ASSUME WholeInOrder
    PROVE  [i \in 1 .. Len(Starts) |-> BlockHeld(Starts[i])] = Each(Firsts(Tags(Sent)), BlockOf)
<1>1. TypeOK
  BY DEF WholeInOrder, ClientInv, Inv
<1>2. Len(TagsHeld) = Len(Starts)
  BY <1>1, TagsOfBlocks
<1>3. ASSUME NEW k \in 1 .. Len(Starts) PROVE BlockHeld(Starts[k]) = BlockOf[TagsHeld[k]]
  <2>1. TagsHeld[k] = Tag(Starts[k]) /\ Tag(Starts[k]) \in TagSet
    BY OwnTags
  <2>2. PiecesOf(Starts[k].index) = PiecesSent(Starts[k].typ, Starts[k].call)
    BY BlockHolds
  <2>3. Tag(Starts[k]).typ = Starts[k].typ /\ Tag(Starts[k]).call = Starts[k].call
    BY DEF Tag
  <2>4. BlockHeld(Starts[k]) = BlockFor(Tag(Starts[k]))
    BY <2>2, <2>3 DEF BlockHeld, BlockFor
  <2> QED BY <2>1, <2>4 DEF BlockOf
<1>4. Each(TagsHeld, BlockOf) = [i \in 1 .. Len(Starts) |-> BlockOf[TagsHeld[i]]]
  BY <1>2 DEF Each
<1>5. [i \in 1 .. Len(Starts) |-> BlockHeld(Starts[i])] = Each(TagsHeld, BlockOf)
  BY <1>3, <1>4
<1> QED BY <1>5, AllAlong

(* The message of Assembled.                                               *)
CallsAssembled ==
    [k \in 1 .. Len(CallsSent) |->
        [id |-> CallsSent[k], arguments |-> PiecesSent("tool_use", CallsSent[k])]]
MessageAssembled ==
    [content |-> [form |-> "text", text |-> PiecesSent("text", NoCall)],
     calls |-> CallsAssembled, reasoningContent |-> PiecesSent("thinking", NoCall),
     reasoning |-> << >>]

(* Translated whole it has these blocks too.                               *)
LEMMA ContentAssembled ==
    ASSUME TypeOK, InOrder
    PROVE  Whole!ContentBlocks(MessageAssembled) = Each(Firsts(Tags(Sent)), BlockOf)
<1> DEFINE t == Tags(Sent)
           P == ProseIn(t, "thinking")
           X == ProseIn(t, "text")
           C == CallTags(t)
<1>1. BlockOf \in Maps(TagSet, AnyBlock)
  BY DEF BlockOf, Maps, AnyBlock
<1>2. t \in Seq(TagSet) /\ Ranked(t)
  BY SentTags, InOrderTags
<1>3. ProseTag("thinking") \in TagSet /\ ProseTag("text") \in TagSet
  BY TagMaps
<1>4. P \in Seq(TagSet) /\ X \in Seq(TagSet)
  BY <1>3 DEF ProseIn
<1>5. /\ FirstCalls(t) \in Seq(Calls) /\ TagOfCall \in Maps(Calls, TagSet)
      /\ CallsSent = FirstCalls(t)
  BY <1>2, CallsInType, TagMaps, SentCalls
<1>6. C \in Seq(TagSet) /\ Len(C) = Len(CallsSent)
  BY <1>5, EachType DEF CallTags
<1>7. Each(P, BlockOf) = Whole!Thinking(MessageAssembled)
  <2>1. P = IF PiecesSent("thinking", NoCall) = << >> THEN << >> ELSE <<ProseTag("thinking")>>
    BY SentProse
  <2>2. Whole!Thinking(MessageAssembled)
        = IF PiecesSent("thinking", NoCall) = << >> THEN << >>
          ELSE <<Whole!ThinkingBlock(PiecesSent("thinking", NoCall))>>
    BY DEF Whole!Thinking, Whole!ReasoningText, MessageAssembled
  <2>3. BlockOf[ProseTag("thinking")] = Whole!ThinkingBlock(PiecesSent("thinking", NoCall))
    BY <1>3 DEF BlockOf, BlockFor, ProseTag
  <2>4. Each(<< >>, BlockOf) = << >>
    BY DEF Each
  <2>5. Each(<<ProseTag("thinking")>>, BlockOf) = <<BlockOf[ProseTag("thinking")]>>
    BY DEF Each
  <2> QED BY <2>1, <2>2, <2>3, <2>4, <2>5
<1>8. Each(X, BlockOf) = Whole!Texts(MessageAssembled.content)
  <2>1. X = IF PiecesSent("text", NoCall) = << >> THEN << >> ELSE <<ProseTag("text")>>
    BY SentProse
  <2>2. Whole!Texts(MessageAssembled.content)
        = IF PiecesSent("text", NoCall) = << >> THEN << >>
          ELSE <<Whole!TextBlock(PiecesSent("text", NoCall))>>
    <3>1. MessageAssembled.content = [form |-> "text", text |-> PiecesSent("text", NoCall)]
      BY DEF MessageAssembled
    <3> QED BY <3>1 DEF Whole!Texts
  <2>3. BlockOf[ProseTag("text")] = Whole!TextBlock(PiecesSent("text", NoCall))
    BY <1>3 DEF BlockOf, BlockFor, ProseTag
  <2>4. Each(<< >>, BlockOf) = << >>
    BY DEF Each
  <2>5. Each(<<ProseTag("text")>>, BlockOf) = <<BlockOf[ProseTag("text")]>>
    BY DEF Each
  <2> QED BY <2>1, <2>2, <2>3, <2>4, <2>5
<1>9. Each(C, BlockOf) = Whole!ToolUses(MessageAssembled)
  <2>1. C = [k \in 1 .. Len(CallsSent) |-> TagOfCall[CallsSent[k]]]
    BY <1>5 DEF CallTags, Each
  <2>2. Each(C, BlockOf) = [k \in 1 .. Len(CallsSent) |-> BlockOf[C[k]]]
    BY <1>6 DEF Each
  <2>3. ASSUME NEW k \in 1 .. Len(CallsSent)
        PROVE  BlockOf[C[k]]
               = Whole!ToolUse([id |-> CallsSent[k],
                                arguments |-> PiecesSent("tool_use", CallsSent[k])])
    <3>1. CallsSent[k] \in Calls
      BY <1>5, ElementOfSeq
    <3>2. C[k] = [typ |-> "tool_use", call |-> CallsSent[k]]
      BY <2>1, <3>1 DEF TagOfCall
    <3>3. C[k] \in TagSet
      BY <3>1, <3>2, NoneAssumption DEF TagSet, AnyTag, Types
    <3> HIDE DEF C
    <3>4. BlockOf[C[k]] = BlockFor(C[k])
      BY <3>3 DEF BlockOf
    <3>5. C[k].typ = "tool_use" /\ C[k].call = CallsSent[k]
      BY <3>2
    <3> QED BY <3>4, <3>5 DEF BlockFor
  <2>4. Len(CallsAssembled) = Len(CallsSent) /\ Len(CallsSent) \in Nat
    <3>1. Len(CallsSent) \in Nat
      BY <1>5, LenProperties
    <3> DEFINE n == Len(CallsSent)
               R == {CallsAssembled[k] : k \in 1 .. n}
    <3>2. CallsAssembled \in [1 .. n -> R]
      BY DEF CallsAssembled
    <3>3. CallsAssembled \in Seq(R)
      BY <3>1, <3>2, SeqDef
    <3> QED BY <3>1, <3>2, <3>3, LenProperties
  <2>5. MessageAssembled.calls = CallsAssembled
    BY DEF MessageAssembled
  <2>6. \A k \in 1 .. Len(CallsSent) :
            CallsAssembled[k] = [id |-> CallsSent[k],
                                 arguments |-> PiecesSent("tool_use", CallsSent[k])]
    BY DEF CallsAssembled
  <2>7. Whole!ToolUses(MessageAssembled)
        = [k \in 1 .. Len(CallsSent) |-> Whole!ToolUse(CallsAssembled[k])]
    BY <2>4, <2>5 DEF Whole!ToolUses
  <2> HIDE DEF C
  <2> QED BY <2>2, <2>3, <2>6, <2>7, ZenonT(60)
<1>10. Firsts(t) = P \o (X \o C)
  BY <1>2, FirstsInOrder
<1> HIDE DEF t, P, X, C
<1>11. X \o C \in Seq(TagSet)
  BY <1>4, <1>6, ConcatProperties
<1>12. Each(Firsts(t), BlockOf) = Each(P, BlockOf) \o (Each(X, BlockOf) \o Each(C, BlockOf))
  <2>1. ASSUME NEW v \in Seq(TagSet), NEW w \in Seq(TagSet)
        PROVE  Each(v \o w, BlockOf) = Each(v, BlockOf) \o Each(w, BlockOf)
    BY <1>1, EachConcat
  <2> QED BY <1>4, <1>6, <1>10, <1>11, <2>1
<1>13. /\ Each(P, BlockOf) \in Seq(AnyBlock) /\ Each(X, BlockOf) \in Seq(AnyBlock)
       /\ Each(C, BlockOf) \in Seq(AnyBlock)
  <2>1. ASSUME NEW v \in Seq(TagSet) PROVE Each(v, BlockOf) \in Seq(AnyBlock)
    BY <1>1, EachType
  <2> QED BY <1>4, <1>6, <2>1
<1>14. Each(P, BlockOf) \o (Each(X, BlockOf) \o Each(C, BlockOf))
       = (Each(P, BlockOf) \o Each(X, BlockOf)) \o Each(C, BlockOf)
  BY <1>13, ConcatAssociative, SMTT(30)
<1> QED BY <1>7, <1>8, <1>9, <1>12, <1>14 DEF Whole!ContentBlocks, t

-----------------------------------------------------------------------------
(* What the reply costs.                                                   *)

(* Whoever is about to stop the message has sent message_delta.            *)
Summed == pc \in {"stop", "done"} => Named("message_delta") # << >>

(* It is so in every state.                                                *)
LEMMA NextSummed == Inv /\ Summed /\ [Next]_vars => Summed'
<1> SUFFICES ASSUME Inv, Summed, [Next]_vars PROVE Summed'
  OBVIOUS
<1>1. CASE MessageDelta
  <2> DEFINE closing == [stopReason |-> stopReason, usage |-> totals]
             e == [name |-> "message_delta", index |-> NoBlock, closing |-> closing]
  <2>1. closing \in Closings /\ out \in Seq(Events) /\ Emit(e)
    BY <1>1 DEF MessageDelta, Inv, TypeOK, Closings
  <2>2. e \in Events /\ e.name = "message_delta"
    BY <2>1, MessageEvents
  <2> HIDE DEF e
  <2>3. Named("message_delta")' = Append(Named("message_delta"), e)
    BY <2>1, <2>2, EmitNamed
  <2> QED BY <2>3 DEF Summed
<1>2. CASE ~MessageDelta
  <2>1. UNCHANGED Named("message_delta")
    BY <1>2, MessageEvents, EmitNamed, ClosingSteps DEF MessageStop, Inv, TypeOK
  <2>2. pc' \in {"stop", "done"} => pc \in {"stop", "done"}
    BY <1>2
    DEF Next, vars, MessageStart, Read, ReadEnd, ReadFails, NoReasoning, OpenThinking,
        ThinkingDelta, BadText, NoText, OpenText, TextDelta, OpenCall, CallDelta, CallsDone,
        TakeUsage, CloseLast, Closed, MessageStop, WriteFails, OpenBlock, StartBlock, StopBlock,
        At, Goto
  <2> QED BY <2>1, <2>2 DEF Summed
<1> QED BY <1>1, <1>2

-----------------------------------------------------------------------------
(* The reply assembled of what was sent, and what it says of its end.      *)
FinishAssembled == IF Ending = {} THEN "" ELSE read[Latest(Ending)].finish
UsageAssembled ==
    LET bill == read[Latest(Billed)].usage
    IN  IF Billed = {} THEN NoUsage
        ELSE [prompt |-> bill.prompt, completion |-> bill.completion,
              cacheRead |-> bill.cached, cacheCreation |-> bill.written,
              detailsCached |-> NoUsage, detailsWritten |-> NoUsage]

(* Translated whole it has this content, this reason and these costs.      *)
LEMMA AssembledWhole ==
    Whole!OpenAIToAnthropic(Assembled)
    = [content |-> Whole!ContentBlocks(MessageAssembled),
       stopReason |-> StopReason(FinishAssembled),
       usage |-> Whole!UsageOf(UsageAssembled)]
<1> DEFINE choice == [message |-> MessageAssembled, finish |-> FinishAssembled]
<1>1. Assembled = [error |-> FALSE, choices |-> <<choice>>, usage |-> UsageAssembled]
  BY DEF Assembled, MessageAssembled, CallsAssembled, FinishAssembled, UsageAssembled
<1>2. choice.message = MessageAssembled /\ choice.finish = FinishAssembled
  OBVIOUS
<1> HIDE DEF choice
<1>3. Assembled.choices = <<choice>> /\ Assembled.usage = UsageAssembled
  BY <1>1
<1>4. Head(Assembled.choices) = choice
  BY <1>3
<1>5. Whole!StopReason(FinishAssembled) = StopReason(FinishAssembled)
  BY DEF Whole!StopReason, StopReason
<1> QED BY <1>2, <1>3, <1>4, <1>5 DEF Whole!OpenAIToAnthropic

(* A stream with a usage costs what the last one says.                     *)
LEMMA UsageWhole ==
    ASSUME TypeOK, Billed # {}
    PROVE  /\ read[Latest(Billed)].usage \in Usage
           /\ Whole!UsageOf(UsageAssembled) = Count(read[Latest(Billed)].usage)
<1> DEFINE bill == read[Latest(Billed)].usage
           u == [prompt |-> bill.prompt, completion |-> bill.completion,
                 cacheRead |-> bill.cached, cacheCreation |-> bill.written,
                 detailsCached |-> NoUsage, detailsWritten |-> NoUsage]
<1>1. bill \in Usage
  <2>1. Latest(Billed) \in Billed
    BY ChunkPlaces, LatestNumber
  <2>2. read[Latest(Billed)] \in Chunk /\ bill # NoUsage
    BY <2>1, ChunkPlaces DEF Billed
  <2> QED BY <2>2 DEF Chunk
<1>2. UsageAssembled = u
  BY DEF UsageAssembled
<1> HIDE DEF bill
<1>3. /\ bill.prompt \in Nat /\ bill.completion \in Nat
      /\ bill.cached \in Nat /\ bill.written \in Nat
  BY <1>1 DEF Usage
<1>4. u \in WholeUsage
  BY <1>3 DEF WholeUsage
<1>5. u # NoUsage /\ bill.cached # NoUsage /\ bill.written # NoUsage
  BY <1>3, <1>4, AbsentAssumption
<1>6. /\ Whole!Counter(u.cacheRead, u.detailsCached) = bill.cached
      /\ Whole!Counter(u.cacheCreation, u.detailsWritten) = bill.written
  BY <1>5 DEF Whole!Counter
<1>7. u.prompt = bill.prompt /\ u.completion = bill.completion
  OBVIOUS
<1> HIDE DEF u
<1>8. Whole!UsageOf(u) = Count(bill)
  BY <1>5, <1>6, <1>7 DEF Whole!UsageOf, Whole!Count, Count
<1> QED BY <1>1, <1>2, <1>8 DEF bill

(* What message_delta tells are numbers.                                   *)
LEMMA ClosingType ==
    ASSUME TypeOK, Named("message_delta") # << >>
    PROVE  Closing.usage \in Totals
<1> DEFINE Summaries == [name : {"message_delta"}, index : {NoBlock}, closing : Closings]
           G == OfName("message_delta")
<1>1. out \in Seq(Events) /\ Named("message_delta") = FlatMap(out, G)
  BY NamedMap DEF TypeOK, Named
<1>2. ASSUME NEW e \in Events, e.name = "message_delta" PROVE e \in Summaries
  BY <1>2, SMT DEF Events
<1> HIDE DEF Summaries
<1>3. G \in [Events -> Seq(Summaries)]
  <2>1. ASSUME NEW e \in Events
        PROVE  (IF e.name = "message_delta" THEN <<e>> ELSE << >>) \in Seq(Summaries)
    BY <1>2
  <2> QED BY <2>1 DEF OfName
<1> HIDE DEF G
<1>4. Named("message_delta") \in Seq(Summaries)
  BY <1>1, <1>3, FlatMapType
<1>5. Head(Named("message_delta")) \in Summaries
  BY <1>4
<1> QED BY <1>5 DEF Closing, Summaries, Closings

(* The closing costs that too, when the last usage came with a delta and   *)
(* no text after it.                                                       *)
LEMMA CostsHeld ==
    ASSUME TypeOK, ClosingTellsTheLast, Named("message_delta") # << >>, Billed # {},
           Latest(Billed) \in Counted, NoTextAfter(Latest(Billed))
    PROVE  Closing.usage = Whole!UsageOf(UsageAssembled)
<1>1. Latest(Counted) = Latest(Billed) /\ Counted # {}
  <2>1. \A m \in Counted : m <= Latest(Billed)
    BY ChunkPlaces, LatestNumber DEF Counted
  <2> QED BY <2>1, ChunkPlaces, LatestNumber
<1> DEFINE u == read[Latest(Billed)].usage
<1>2. u \in Usage /\ Whole!UsageOf(UsageAssembled) = Count(u)
  BY UsageWhole
<1>3. /\ Closing.usage.cacheRead = u.cached /\ Closing.usage.cacheWrite = u.written
      /\ IF u.cached <= u.prompt THEN Closing.usage.input + Closing.usage.cacheRead = u.prompt
         ELSE Closing.usage.input = 0
      /\ Closing.usage.output = u.completion
  BY <1>1 DEF ClosingTellsTheLast
<1>4. Closing.usage \in Totals
  BY ClosingType
<1> HIDE DEF u
<1>5. Closing.usage = Count(u)
  BY <1>2, <1>3, <1>4 DEF Count, Usage, Totals
<1> QED BY <1>2, <1>5

(* The stop reason is that of the whole reply, when the last finish_reason *)
(* came with a delta.                                                      *)
LEMMA ReasonHeld ==
    ASSUME TypeOK, ClosingTellsTheLast, Named("message_delta") # << >>,
           Ending = {} \/ Latest(Ending) \in Finished
    PROVE  Closing.stopReason = StopReason(FinishAssembled)
<1>1. CASE Ending = {}
  <2>1. Finished = {}
    BY <1>1 DEF Finished
  <2> QED BY <1>1, <2>1 DEF ClosingTellsTheLast, FinishAssembled, StopReason
<1>2. CASE Ending # {}
  <2>1. Latest(Ending) \in Finished /\ \A m \in Finished : m <= Latest(Ending)
    BY <1>2, ChunkPlaces, LatestNumber DEF Finished
  <2>2. Latest(Finished) = Latest(Ending) /\ Finished # {}
    BY <2>1, ChunkPlaces, LatestNumber
  <2> QED BY <1>2, <2>2 DEF ClosingTellsTheLast, FinishAssembled
<1> QED BY <1>1, <1>2

(* What was streamed has the blocks of the same reply translated whole if  *)
(* its parts came in that order, its stop reason if the last finish_reason *)
(* came with a delta, and its costs if the last usage did and no text came *)
(* after it.                                                               *)
THEOREM StreamsReadLikeWholes == Spec => []StreamedLikeWhole
<1> DEFINE I == ClientInv /\ Told /\ Alongside /\ Summed
<1>1. I => StreamedLikeWhole
  <2> SUFFICES ASSUME I, Complete PROVE StreamedLikeWhole
    BY DEF StreamedLikeWhole
  <2>1. TypeOK /\ ClosingTellsTheLast /\ Named("message_delta") # << >>
    BY DEF ClientInv, Inv, Final, Told, Summed
  <2>2. ASSUME InOrder
        PROVE  [i \in 1 .. Len(Starts) |-> BlockHeld(Starts[i])]
               = Whole!ContentBlocks(MessageAssembled)
    BY <2>1, <2>2, ContentHeld, ContentAssembled DEF WholeInOrder
  <2>3. ASSUME Ending = {} \/ Latest(Ending) \in Finished
        PROVE  Closing.stopReason = StopReason(FinishAssembled)
    BY <2>1, <2>3, ReasonHeld
  <2>4. ASSUME Billed # {}, Latest(Billed) \in Counted, NoTextAfter(Latest(Billed))
        PROVE  Closing.usage = Whole!UsageOf(UsageAssembled)
    BY <2>1, <2>4, CostsHeld
  <2> HIDE DEF I
  <2>5. /\ Whole!OpenAIToAnthropic(Assembled).content = Whole!ContentBlocks(MessageAssembled)
        /\ Whole!OpenAIToAnthropic(Assembled).stopReason = StopReason(FinishAssembled)
        /\ Whole!OpenAIToAnthropic(Assembled).usage = Whole!UsageOf(UsageAssembled)
    BY AssembledWhole
  <2> QED BY <2>2, <2>3, <2>4, <2>5 DEF StreamedLikeWhole
<1>2. Init => Told /\ Alongside /\ Summed
  BY InitTold, InitAlong DEF Init, Summed
<1>3. ClientInv /\ Told /\ Alongside /\ Summed /\ [Next]_vars => (Told /\ Alongside /\ Summed)'
  BY NextTold, NextAlong, NextSummed DEF ClientInv
<1> HIDE DEF I
<1> QED BY <1>1, <1>2, <1>3, ClientInvariant, PTL DEF Spec, I
=============================================================================
