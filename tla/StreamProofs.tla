---------------------------- MODULE StreamProofs ----------------------------
(***************************************************************************)
(* The translation emits a well-formed Messages stream, for any chunks,    *)
(* any number of them and any tool calls.                                  *)
(***************************************************************************)
EXTENDS StreamTranslate, SequenceTheorems, TLAPS

(* Appending an event keeps the history typed and makes it the latest.     *)
LEMMA EmitType ==
    ASSUME out \in Seq(Events), NEW e \in Events, Emit(e)
    PROVE  /\ out' \in Seq(Events)
           /\ out' # << >>
           /\ LatestName' = e.name
BY DEF Emit, LatestName

(* The headers of a history are a sequence as long as the history.         *)
HeaderSet ==
    [name : {"message_start", "content_block_start", "content_block_delta",
             "content_block_stop", "message_delta", "message_stop"},
     index : Nat \cup {NoBlock}]

(* The header of an event is a header.                                     *)
LEMMA HeaderType == ASSUME NEW e \in Events PROVE Header(e) \in HeaderSet
BY SMT DEF Events, Header, HeaderSet

(* Headers taken one by one make a sequence.                               *)
LEMMA HeadersType ==
    ASSUME NEW s \in Seq(Events)
    PROVE  LET H == [i \in 1 .. Len(s) |-> Header(s[i])]
           IN  H \in Seq(HeaderSet) /\ Len(H) = Len(s)
<1> DEFINE H == [i \in 1 .. Len(s) |-> Header(s[i])]
<1>1. Len(s) \in Nat /\ \A i \in 1 .. Len(s) : s[i] \in Events
  BY LenProperties, ElementOfSeq
<1>2. H \in [1 .. Len(s) -> HeaderSet]
  BY <1>1, HeaderType
<1>3. H \in Seq(HeaderSet)
  BY <1>1, <1>2, SeqDef
<1>4. Len(H) = Len(s)
  BY <1>1, <1>2, <1>3, LenProperties
<1> QED BY <1>3, <1>4

(* The headers grow with the history.                                      *)
LEMMA EmitHeader ==
    ASSUME out \in Seq(Events), NEW e \in Events, Emit(e)
    PROVE  Headers' = Append(Headers, Header(e))
<1>1. out' \in Seq(Events) /\ Len(out') = Len(out) + 1 /\ Len(out) \in Nat
  BY AppendProperties, LenProperties DEF Emit
<1>2. /\ Headers \in Seq(HeaderSet) /\ Len(Headers) = Len(out)
      /\ Headers' \in Seq(HeaderSet) /\ Len(Headers') = Len(out')
  BY <1>1, HeadersType DEF Headers
<1>3. Header(e) \in HeaderSet
  BY HeaderType
<1>4. Append(Headers, Header(e)) \in Seq(HeaderSet)
      /\ Len(Append(Headers, Header(e))) = Len(Headers) + 1
  BY <1>2, <1>3, AppendProperties
<1>5. \A i \in 1 .. Len(out) + 1 : Headers'[i] = Append(Headers, Header(e))[i]
  <2> SUFFICES ASSUME NEW i \in 1 .. Len(out) + 1
               PROVE  Headers'[i] = Append(Headers, Header(e))[i]
    OBVIOUS
  <2>1. Headers'[i] = Header(out'[i])
    BY <1>1 DEF Headers
  <2>2. CASE i = Len(out) + 1
    BY <1>2, <1>3, <2>1, <2>2, AppendProperties DEF Emit
  <2>3. CASE i \in 1 .. Len(out)
    <3>1. out'[i] = out[i]
      BY <2>3, AppendProperties DEF Emit
    <3>2. Append(Headers, Header(e))[i] = Headers[i]
      BY <1>2, <1>3, <2>3, AppendProperties
    <3>3. Headers[i] = Header(out[i])
      BY <2>3 DEF Headers
    <3> QED BY <2>1, <3>1, <3>2, <3>3
  <2>4. i = Len(out) + 1 \/ i \in 1 .. Len(out)
    BY <1>1
  <2> QED BY <2>2, <2>3, <2>4
<1> QED BY <1>1, <1>2, <1>4, <1>5, SeqEqual

-----------------------------------------------------------------------------
(* Type correctness and the order of the steps.                            *)

Inv == TypeOK /\ Orderly

(* The initial state satisfies both.                                       *)
LEMMA InitInv == Init => Inv
<1> SUFFICES ASSUME Init PROVE Inv
  OBVIOUS
<1>1. read \in Seq(Chunks) /\ pending \in Seq(Fragment) /\ out \in Seq(Events)
      /\ Len(read) = 0
  BY EmptySeq DEF Init
<1>2. totals \in Totals /\ stopReason \in StopReasons
  BY DEF Init, NoTotals, Totals, StopReasons
<1>3. TypeOK
  <2>1. /\ Len(read) <= MaxChunks /\ pc \in Places /\ nextIndex \in Nat
        /\ pc \notin {"reasoning", "text", "calls", "usage"}
    BY <1>1, BoundAssumption DEF Init, Places
  <2>2. current \in Blocks \cup {NoBlock} /\ stopped \in BOOLEAN /\ started \in SUBSET Calls
    BY DEF Init
  <2> QED BY <1>1, <1>2, <2>1, <2>2, Zenon DEF TypeOK
<1>4. Orderly
  BY DEF Init, Orderly, UnderWay
<1> QED BY <1>3, <1>4 DEF Inv

(* The chunk being handled is one of the chunks.                           *)
LEMMA ChunkType ==
    ASSUME TypeOK, pc \in {"reasoning", "text", "calls", "usage"}
    PROVE  chunk \in Chunk /\ chunk \in Chunks
<1>1. Len(read) \in 1 .. Len(read)
  BY LenProperties DEF TypeOK
<1> QED BY <1>1, ElementOfSeq, ChunksAssumption DEF TypeOK, chunk

(* The next fragment names a call, and the others are fragments.           *)
LEMMA FragmentType ==
    ASSUME TypeOK, pending # << >>
    PROVE  Head(pending).index \in Calls /\ Tail(pending) \in Seq(Fragment)
<1>1. pending \in Seq(Fragment)
  BY DEF TypeOK
<1>2. Head(pending) \in Fragment /\ Tail(pending) \in Seq(Fragment)
  BY <1>1, HeadTailProperties
<1> QED BY <1>2 DEF Fragment

(* The events of a block are events.                                       *)
LEMMA BlockEvents ==
    ASSUME NEW i \in Nat
    PROVE  /\ \A typ \in Types, call \in Calls \cup {NoCall} :
                 [name |-> "content_block_start", index |-> i, typ |-> typ, call |-> call] \in Events
           /\ \A piece \in Pieces :
                 [name |-> "content_block_delta", index |-> i, piece |-> piece] \in Events
           /\ [name |-> "content_block_stop", index |-> i] \in Events
BY DEF Events

(* So are those of the message.                                            *)
LEMMA MessageEvents ==
    /\ [name |-> "message_start", index |-> NoBlock] \in Events
    /\ [name |-> "message_stop", index |-> NoBlock] \in Events
    /\ \A closing \in Closings :
          [name |-> "message_delta", index |-> NoBlock, closing |-> closing] \in Events
BY DEF Events

(* A piece of the chunk being handled.                                     *)
LEMMA PieceType ==
    ASSUME TypeOK, NEW typ \in Types, NEW call \in Calls \cup {NoCall}
    PROVE  Piece(typ, call) \in Pieces
BY LenProperties DEF TypeOK, Piece, Pieces

(* Opening a block keeps the invariant wherever a part of a chunk needs    *)
(* one.                                                                    *)
LEMMA OpenBlockInv ==
    ASSUME Inv, NEW typ \in Types, NEW call \in Calls \cup {NoCall},
           OpenBlock(typ, call),
           \/ pc = "reasoning" /\ chunk.reasoning /\ ~InBlock("thinking") /\ typ = "thinking"
           \/ pc = "text" /\ chunk.text /\ ~chunk.bad /\ ~InBlock("text") /\ typ = "text"
           \/ pc = "calls" /\ pending # << >> /\ Head(pending).index \notin started
              /\ typ = "tool_use" /\ call \in Calls
    PROVE  Inv'
<1>1. CASE current # NoBlock /\ StopBlock
  <2>1. current.index \in Nat /\ current \in Blocks
    BY <1>1 DEF Inv, TypeOK, Blocks
  <2>2. /\ out' \in Seq(Events) /\ out' # << >>
        /\ LatestName' = "content_block_stop"
    BY <1>1, <2>1, BlockEvents, EmitType DEF StopBlock, Inv, TypeOK
  <2>3. /\ stopped' = TRUE
        /\ UNCHANGED <<pc, read, pending, current, nextIndex, started, stopReason, totals>>
    BY <1>1 DEF StopBlock
  <2>4. TypeOK'
    BY <2>2, <2>3 DEF Inv, TypeOK
  <2>5. Orderly'
    BY <1>1, <2>2, <2>3 DEF Inv, Orderly, UnderWay, InBlock, chunk
  <2> QED BY <2>4, <2>5 DEF Inv
<1>2. CASE /\ current = NoBlock \/ stopped
           /\ StartBlock(typ, call)
           /\ started' = IF typ = "tool_use" THEN started \cup {call} ELSE started
  <2>1. /\ out' \in Seq(Events) /\ out' # << >>
        /\ LatestName' = "content_block_start"
    BY <1>2, BlockEvents, EmitType DEF StartBlock, Inv, TypeOK
  <2>2. /\ current' = [typ |-> typ, index |-> nextIndex]
        /\ stopped' = FALSE
        /\ nextIndex' = nextIndex + 1
        /\ UNCHANGED <<pc, read, pending, stopReason, totals>>
    BY <1>2 DEF StartBlock
  <2>3. current' \in Blocks /\ current' # NoBlock
    BY <2>2, NoBlockAssumption DEF Blocks, Inv, TypeOK
  <2>4. TypeOK'
    <3>1. started' \in SUBSET Calls
      BY <1>2 DEF Inv, TypeOK
    <3>2. nextIndex' \in Nat
      BY <2>2 DEF Inv, TypeOK
    <3> QED BY <2>1, <2>2, <2>3, <3>1, <3>2 DEF Inv, TypeOK
  <2>5. Orderly'
    BY <2>1, <2>2, <2>3 DEF Inv, Orderly, UnderWay
  <2> QED BY <2>4, <2>5 DEF Inv
<1> QED BY <1>1, <1>2 DEF OpenBlock

(* Every step keeps the invariant.                                         *)
LEMMA NextInv == Inv /\ [Next]_vars => Inv'
<1> SUFFICES ASSUME Inv, [Next]_vars PROVE Inv'
  OBVIOUS
<1> USE DEF Inv
<1>1. CASE UNCHANGED vars
  BY <1>1 DEF vars, TypeOK, Orderly, LatestName, chunk
<1>2. CASE MessageStart
  <2>1. out' \in Seq(Events) /\ out' # << >> /\ LatestName' = "message_start"
    BY <1>2, MessageEvents, EmitType DEF MessageStart, TypeOK
  <2>2. pc = "begin" /\ pc' = "scan"
        /\ UNCHANGED <<read, pending, current, stopped, nextIndex, started, stopReason, totals>>
    BY <1>2 DEF MessageStart, At, Goto
  <2>3. TypeOK'
    BY <2>1, <2>2 DEF TypeOK, Places
  <2>4. Orderly'
    BY <2>1, <2>2 DEF Orderly, UnderWay
  <2> QED BY <2>3, <2>4
<1>3. ASSUME NEW c \in Chunks, Read(c) PROVE Inv'
  <2>1. c \in Chunk /\ c.calls \in Seq(Fragment) /\ c.finish \in Reasons
    BY ChunksAssumption DEF Chunk
  <2>2. /\ pc = "scan" /\ Len(read) < MaxChunks /\ read' = Append(read, c)
        /\ UNCHANGED <<current, stopped, nextIndex, started, totals, out>>
    BY <1>3 DEF Read, At
  <2>3. /\ read' \in Seq(Chunks) /\ Len(read') = Len(read) + 1 /\ Len(read) \in Nat
    BY <2>2, AppendProperties, LenProperties DEF TypeOK
  <2>4. /\ pc' \in {"scan", "reasoning"}
        /\ pending' \in Seq(Fragment)
        /\ stopReason' \in StopReasons
    BY <1>3, <2>1, <2>2 DEF Read, Goto, TypeOK, StopReason, StopReasons
  <2>5. TypeOK'
    BY <2>2, <2>3, <2>4, BoundAssumption DEF TypeOK, Places
  <2>6. Orderly'
    BY <2>2, <2>4 DEF Orderly, UnderWay, LatestName
  <2> QED BY <2>5, <2>6
<1>4. CASE ReadEnd \/ ReadFails
  <2>1. /\ pc = "scan" /\ pc' \in {"close", "failed"}
        /\ UNCHANGED <<read, pending, current, stopped, nextIndex, started, stopReason, totals, out>>
    BY <1>4 DEF ReadEnd, ReadFails, At, Goto
  <2> QED BY <2>1 DEF TypeOK, Orderly, Places, UnderWay, LatestName
<1>5. CASE NoReasoning \/ BadText \/ NoText \/ CallsDone
  <2>1. /\ \/ pc = "reasoning" /\ ~chunk.reasoning /\ pc' = "text"
           \/ pc = "text" /\ chunk.bad /\ pc' = "failed"
           \/ pc = "text" /\ ~chunk.text /\ pc' = "calls"
           \/ pc = "calls" /\ pending = << >> /\ pc' = "usage"
        /\ UNCHANGED <<read, pending, current, stopped, nextIndex, started, stopReason, totals, out>>
    BY <1>5 DEF NoReasoning, BadText, NoText, CallsDone, At, Goto
  <2>2. TypeOK'
    BY <2>1 DEF TypeOK, Places
  <2>3. Orderly'
    BY <2>1 DEF Orderly, UnderWay, LatestName
  <2> QED BY <2>2, <2>3
<1>6. CASE OpenThinking \/ OpenText \/ OpenCall
  <2>1. CASE OpenThinking
    BY <2>1, OpenBlockInv DEF OpenThinking, At, Types
  <2>2. CASE OpenText
    BY <2>2, OpenBlockInv DEF OpenText, At, Types
  <2>3. CASE OpenCall
    <3>1. Head(pending).index \in Calls
      BY <2>3, FragmentType DEF OpenCall
    <3>2. PICK call \in Calls :
             /\ pc = "calls" /\ pending # << >> /\ Head(pending).index \notin started
             /\ call = Head(pending).index /\ OpenBlock("tool_use", call)
      BY <2>3, <3>1 DEF OpenCall, At
    <3>3. "tool_use" \in Types /\ call \in Calls \cup {NoCall}
      BY DEF Types
    <3> HIDE DEF Inv
    <3> QED BY <3>2, <3>3, OpenBlockInv
  <2> QED BY <1>6, <2>1, <2>2, <2>3
<1>7. CASE ThinkingDelta \/ TextDelta
  <2>1. PICK typ \in {"thinking", "text"} :
           /\ InBlock(typ) /\ FillBlock(Piece(typ, NoCall))
           /\ \/ pc = "reasoning" /\ typ = "thinking" /\ pc' = "text"
              \/ pc = "text" /\ typ = "text" /\ pc' = "calls"
           /\ totals' \in Totals
           /\ UNCHANGED <<read, pending, current, stopped, nextIndex, started, stopReason>>
    BY <1>7, SMTT(30) DEF ThinkingDelta, TextDelta, At, Goto, TypeOK, Totals
  <2>2. current.index \in Nat
    BY <2>1 DEF InBlock, TypeOK, Blocks
  <2>3. Piece(typ, NoCall) \in Pieces
    BY PieceType DEF Types
  <2>4. out' \in Seq(Events) /\ LatestName' = "content_block_delta"
    BY <2>1, <2>2, <2>3, BlockEvents, EmitType DEF FillBlock, TypeOK
  <2>5. TypeOK'
    BY <2>1, <2>4 DEF TypeOK, Places
  <2>6. Orderly'
    BY <2>1, <2>4 DEF Orderly, UnderWay, InBlock
  <2> QED BY <2>5, <2>6
<1>8. CASE CallDelta
  <2> DEFINE call == Head(pending).index
  <2>1. /\ pc = "calls" /\ pc' = "calls" /\ pending # << >> /\ call \in started
        /\ pending' = Tail(pending)
        /\ UNCHANGED <<read, current, stopped, nextIndex, started, stopReason, totals>>
    BY <1>8 DEF CallDelta, At
  <2>2. pending' \in Seq(Fragment) /\ call \in Calls
    BY <2>1, FragmentType
  <2>3. current # NoBlock /\ ~stopped /\ current.index \in Nat
    BY <2>1 DEF Orderly, TypeOK, Blocks
  <2>4. out' \in Seq(Events) /\ LatestName' \notin {"nothing", "message_delta", "message_stop"}
    <3>1. CASE FillBlock(Piece("tool_use", call))
      <4>1. Piece("tool_use", call) \in Pieces
        BY <2>2, PieceType DEF Types
      <4> QED BY <2>3, <3>1, <4>1, BlockEvents, EmitType DEF FillBlock, TypeOK
    <3>2. CASE UNCHANGED out
      BY <2>1, <3>2 DEF TypeOK, Orderly, UnderWay, LatestName
    <3> QED BY <1>8, <3>1, <3>2 DEF CallDelta
  <2>5. TypeOK'
    BY <2>1, <2>2, <2>4 DEF TypeOK
  <2>6. Orderly'
    BY <2>1, <2>3, <2>4 DEF Orderly
  <2> QED BY <2>5, <2>6
<1>9. CASE TakeUsage
  <2>1. pc = "usage" /\ pc' = "scan"
        /\ UNCHANGED <<read, pending, current, stopped, nextIndex, started, stopReason, out>>
    BY <1>9 DEF TakeUsage, At, Goto
  <2>2. totals' \in Totals
    <3>1. CASE chunk.usage = NoUsage
      BY <1>9, <3>1 DEF TakeUsage, TypeOK
    <3>2. CASE chunk.usage # NoUsage
      <4>1. chunk.usage \in Usage
        BY <2>1, <3>2, ChunkType DEF Chunk
      <4>2. Count(chunk.usage) \in Totals
        BY <4>1 DEF Usage, Count, Totals
      <4> QED BY <1>9, <3>2, <4>2 DEF TakeUsage
    <3> QED BY <3>1, <3>2
  <2> QED BY <2>1, <2>2 DEF TypeOK, Orderly, Places, UnderWay, LatestName
<1>10. CASE CloseLast
  <2>1. /\ pc = "close" /\ current # NoBlock /\ stopped' = TRUE
        /\ Emit([name |-> "content_block_stop", index |-> current.index])
        /\ UNCHANGED <<pc, read, pending, current, nextIndex, started, stopReason, totals>>
    BY <1>10 DEF CloseLast, StopBlock, At
  <2>2. current.index \in Nat
    BY <2>1 DEF TypeOK, Blocks
  <2>3. out' \in Seq(Events) /\ LatestName' = "content_block_stop"
    BY <2>1, <2>2, BlockEvents, EmitType DEF TypeOK
  <2>4. TypeOK'
    BY <2>1, <2>3 DEF TypeOK
  <2>5. Orderly'
    BY <2>1, <2>3 DEF Orderly
  <2> QED BY <2>4, <2>5
<1>11. CASE Closed
  <2>1. /\ pc = "close" /\ pc' = "delta" /\ (current = NoBlock \/ stopped)
        /\ UNCHANGED <<read, pending, current, stopped, nextIndex, started, stopReason, totals, out>>
    BY <1>11 DEF Closed, At, Goto
  <2> QED BY <2>1 DEF TypeOK, Orderly, Places, UnderWay, LatestName
<1>12. CASE MessageDelta
  <2>1. /\ pc = "delta" /\ pc' = "stop"
        /\ UNCHANGED <<read, pending, current, stopped, nextIndex, started, stopReason, totals>>
    BY <1>12 DEF MessageDelta, At, Goto
  <2>2. [stopReason |-> stopReason, usage |-> totals] \in Closings
    BY DEF TypeOK, Closings
  <2>3. out' \in Seq(Events) /\ LatestName' = "message_delta"
    BY <1>12, <2>2, MessageEvents, EmitType DEF MessageDelta, TypeOK
  <2>4. TypeOK'
    BY <2>1, <2>3 DEF TypeOK, Places
  <2>5. Orderly'
    BY <2>1, <2>3 DEF Orderly, UnderWay
  <2> QED BY <2>4, <2>5
<1>13. CASE MessageStop
  <2>1. /\ pc = "stop" /\ pc' = "done"
        /\ UNCHANGED <<read, pending, current, stopped, nextIndex, started, stopReason, totals>>
    BY <1>13 DEF MessageStop, At, Goto
  <2>2. out' \in Seq(Events)
    BY <1>13, MessageEvents, EmitType DEF MessageStop, TypeOK
  <2>3. TypeOK'
    BY <2>1, <2>2 DEF TypeOK, Places
  <2>4. Orderly'
    BY <2>1 DEF Orderly, UnderWay
  <2> QED BY <2>3, <2>4
<1>14. CASE WriteFails
  <2>1. /\ pc' = "failed"
        /\ UNCHANGED <<read, pending, current, stopped, nextIndex, started, stopReason, totals, out>>
    BY <1>14 DEF WriteFails, Goto
  <2> QED BY <2>1 DEF TypeOK, Orderly, Places, UnderWay
<1> QED
  BY <1>1, <1>2, <1>3, <1>4, <1>5, <1>6, <1>7, <1>8, <1>9, <1>10, <1>11, <1>12, <1>13, <1>14
  DEF Next

(* Types and order are invariant.                                          *)
LEMMA Invariant == Spec => []Inv
BY InitInv, NextInv, PTL DEF Spec

(* Type correctness, for any chunks and any number of them: no counter     *)
(* goes negative and every event is one.                                   *)
THEOREM TypeCorrect == Spec => []TypeOK
BY Invariant, PTL DEF Inv

(* No delta meets a stopped block, and the message ends after its blocks.  *)
THEOREM StepsAreOrderly == Spec => []Orderly
BY Invariant, PTL DEF Inv

-----------------------------------------------------------------------------
(* Refinement.                                                             *)

(* The last header is that of the last event.                              *)
LEMMA AbstractPhase ==
    ASSUME out \in Seq(Events)
    PROVE  /\ Abstract!Latest = LatestName
           /\ Headers = << >> <=> out = << >>
<1>1. Headers \in Seq(HeaderSet) /\ Len(Headers) = Len(out) /\ Len(out) \in Nat
  BY HeadersType, LenProperties DEF Headers
<1>2. Headers = << >> <=> out = << >>
  BY <1>1, EmptySeq
<1>3. ASSUME out # << >> PROVE Headers[Len(Headers)].name = out[Len(out)].name
  <2>1. Len(out) \in 1 .. Len(out)
    BY <1>1, <1>3, EmptySeq
  <2>2. Headers[Len(out)] = Header(out[Len(out)])
    BY <2>1 DEF Headers
  <2> QED BY <1>1, <2>2 DEF Header
<1> QED BY <1>2, <1>3 DEF Abstract!Latest, LatestName

(* An event sent by the code is the abstract event of its name and index.  *)
LEMMA AbstractSend ==
    ASSUME out \in Seq(Events), NEW e \in Events, Emit(e)
    PROVE  Abstract!Send(e.name, e.index)
BY EmitHeader DEF Abstract!Send, Abstract!Event, Header

(* Stopping the current block is a BlockStop.                              *)
LEMMA StopBlockSteps ==
    ASSUME Inv, pc \in UnderWay, current # NoBlock, StopBlock
    PROVE  Abstract!BlockStop
<1>1. Abstract!InMessage
  BY AbstractPhase DEF Inv, TypeOK, Orderly, Abstract!InMessage
<1>2. current.index \in Nat
  BY DEF Inv, TypeOK, Blocks
<1>3. Live = current.index /\ Live # NoBlock /\ Live' = NoBlock /\ nextIndex' = nextIndex
  BY <1>2, NoBlockAssumption DEF StopBlock, Live
<1>4. Abstract!Send("content_block_stop", Live)
  BY <1>2, <1>3, BlockEvents, AbstractSend DEF StopBlock, Inv, TypeOK
<1> QED BY <1>1, <1>3, <1>4 DEF Abstract!BlockStop

(* Opening a block is a BlockStop or a BlockStart.                         *)
LEMMA OpenBlockSteps ==
    ASSUME Inv, pc \in UnderWay,
           NEW typ \in Types, NEW call \in Calls \cup {NoCall}, OpenBlock(typ, call)
    PROVE  Abstract!BlockStop \/ Abstract!BlockStart
<1>1. Abstract!InMessage
  BY AbstractPhase DEF Inv, TypeOK, Orderly, Abstract!InMessage
<1>2. CASE current # NoBlock /\ StopBlock
  BY <1>2, StopBlockSteps
<1>3. CASE (current = NoBlock \/ stopped) /\ StartBlock(typ, call)
  <2>1. Live = NoBlock /\ nextIndex' = nextIndex + 1 /\ nextIndex \in Nat
    BY <1>3 DEF StartBlock, Live, Inv, TypeOK
  <2>2. current' = [typ |-> typ, index |-> nextIndex] /\ stopped' = FALSE
    BY <1>3 DEF StartBlock
  <2>3. current' # NoBlock
    BY <2>1, <2>2, NoBlockAssumption DEF Blocks
  <2>4. Live' = nextIndex
    BY <2>2, <2>3 DEF Live
  <2>5. Abstract!Send("content_block_start", nextIndex)
    BY <1>3, <2>1, BlockEvents, AbstractSend DEF StartBlock, Inv, TypeOK
  <2> QED BY <1>1, <2>1, <2>4, <2>5 DEF Abstract!BlockStart
<1> QED BY <1>2, <1>3 DEF OpenBlock

(* Filling the open block is a BlockDelta.                                 *)
LEMMA FillBlockSteps ==
    ASSUME Inv, pc \in UnderWay, current # NoBlock, ~stopped,
           NEW piece \in Pieces, FillBlock(piece),
           UNCHANGED <<current, stopped, nextIndex>>
    PROVE  Abstract!BlockDelta
<1>1. Abstract!InMessage
  BY AbstractPhase DEF Inv, TypeOK, Orderly, Abstract!InMessage
<1>2. current.index \in Nat /\ Live = current.index /\ Live # NoBlock /\ Live' = Live
  BY NoBlockAssumption DEF Inv, TypeOK, Blocks, Live
<1>3. Abstract!Send("content_block_delta", Live)
  BY <1>2, BlockEvents, AbstractSend DEF FillBlock, Inv, TypeOK
<1> QED BY <1>1, <1>2, <1>3 DEF Abstract!BlockDelta

(* The translation implements the Messages stream.                         *)
THEOREM StreamImplementsAnthropicStream == Spec => ImplementsAnthropicStream
<1> DEFINE avars == <<Headers, nextIndex, Live>>
<1>1. Init => Abstract!Init
  <2> SUFFICES ASSUME Init PROVE Abstract!Init
    OBVIOUS
  <2>1. Headers = << >>
    BY InitInv, AbstractPhase DEF Init, Inv, TypeOK
  <2> QED BY <2>1 DEF Init, Abstract!Init, Live
<1>2. Inv /\ [Next]_vars => [Abstract!Next]_avars
  <2> SUFFICES ASSUME Inv, [Next]_vars PROVE Abstract!Next \/ UNCHANGED avars
    OBVIOUS
  <2>1. CASE UNCHANGED <<current, stopped, nextIndex, out>>
    BY <2>1 DEF Headers, Live
  <2>2. CASE MessageStart
    <3>1. Headers = << >> /\ Abstract!Send("message_start", NoBlock)
      BY <2>2, MessageEvents, AbstractSend, AbstractPhase
      DEF MessageStart, At, Inv, TypeOK, Orderly
    <3> QED
      BY <2>2, <3>1 DEF MessageStart, Live, Abstract!Next, Abstract!MessageStart
  <2>3. CASE OpenThinking \/ OpenText \/ OpenCall
    <3>1. OpenThinking => Abstract!BlockStop \/ Abstract!BlockStart
      BY OpenBlockSteps DEF OpenThinking, At, UnderWay, Types
    <3>2. OpenText => Abstract!BlockStop \/ Abstract!BlockStart
      BY OpenBlockSteps DEF OpenText, At, UnderWay, Types
    <3>3. ASSUME OpenCall PROVE Abstract!BlockStop \/ Abstract!BlockStart
      <4>1. Head(pending).index \in Calls
        BY <3>3, FragmentType DEF OpenCall, Inv
      <4>2. PICK call \in Calls : pc = "calls" /\ OpenBlock("tool_use", call)
        BY <3>3, <4>1 DEF OpenCall, At
      <4>3. "tool_use" \in Types /\ call \in Calls \cup {NoCall} /\ pc \in UnderWay
        BY <4>2 DEF Types, UnderWay
      <4> QED BY <4>2, <4>3, OpenBlockSteps
    <3> QED BY <2>3, <3>1, <3>2, <3>3 DEF Abstract!Next
  <2>4. CASE ThinkingDelta
    <3>1. current # NoBlock /\ ~stopped /\ pc \in UnderWay
      BY <2>4 DEF ThinkingDelta, At, InBlock, Inv, Orderly, UnderWay
    <3>2. Piece("thinking", NoCall) \in Pieces
      BY PieceType DEF Inv, Types
    <3> QED BY <2>4, <3>1, <3>2, FillBlockSteps DEF ThinkingDelta, Abstract!Next
  <2>5. CASE TextDelta
    <3>1. current # NoBlock /\ ~stopped /\ pc \in UnderWay
      BY <2>5 DEF TextDelta, At, InBlock, Inv, Orderly, UnderWay
    <3>2. Piece("text", NoCall) \in Pieces
      BY PieceType DEF Inv, Types
    <3> QED BY <2>5, <3>1, <3>2, FillBlockSteps DEF TextDelta, Abstract!Next
  <2>6. CASE CallDelta /\ out' # out
    <3>1. /\ pc = "calls" /\ pending # << >> /\ Head(pending).index \in started
          /\ FillBlock(Piece("tool_use", Head(pending).index))
          /\ UNCHANGED <<current, stopped, nextIndex>>
      BY <2>6 DEF CallDelta, At
    <3>2. current # NoBlock /\ ~stopped /\ pc \in UnderWay
      BY <3>1 DEF Inv, Orderly, UnderWay
    <3>3. Piece("tool_use", Head(pending).index) \in Pieces
      BY <3>1, PieceType DEF Inv, TypeOK, Types
    <3> QED BY <3>1, <3>2, <3>3, FillBlockSteps DEF Abstract!Next
  <2>7. CASE CloseLast
    BY <2>7, StopBlockSteps DEF CloseLast, At, UnderWay, Abstract!Next
  <2>8. CASE MessageDelta
    <3>1. Live = NoBlock /\ Live' = NoBlock /\ nextIndex' = nextIndex
      BY <2>8 DEF MessageDelta, At, Inv, Orderly, Live
    <3>2. [stopReason |-> stopReason, usage |-> totals] \in Closings
      BY DEF Inv, TypeOK, Closings
    <3>3. Abstract!Send("message_delta", NoBlock) /\ Abstract!InMessage
      BY <2>8, <3>2, MessageEvents, AbstractSend, AbstractPhase
      DEF MessageDelta, At, Inv, TypeOK, Orderly, UnderWay, Abstract!InMessage
    <3> QED BY <3>1, <3>3 DEF Abstract!Next, Abstract!MessageDelta
  <2>9. CASE MessageStop
    <3>1. Abstract!Send("message_stop", NoBlock) /\ Abstract!Latest = "message_delta"
      BY <2>9, MessageEvents, AbstractSend, AbstractPhase
      DEF MessageStop, At, Inv, TypeOK, Orderly
    <3> QED BY <2>9, <3>1 DEF MessageStop, Live, Abstract!Next, Abstract!MessageStop
  <2>10. CASE CallDelta /\ out' = out
    BY <2>1, <2>10 DEF CallDelta
  <2> QED
    BY <2>1, <2>2, <2>3, <2>4, <2>5, <2>6, <2>7, <2>8, <2>9, <2>10
    DEF Next, vars, Read, ReadEnd, ReadFails, NoReasoning, BadText, NoText, CallsDone,
        TakeUsage, Closed, WriteFails
<1> QED
  BY Invariant, <1>1, <1>2, PTL DEF Spec, ImplementsAnthropicStream, Abstract!Spec, Abstract!svars
=============================================================================
