-------------------------- MODULE StreamTranslate ---------------------------
(***************************************************************************)
(* transform.StreamOpenAIToAnthropic: one translation of a Chat            *)
(* Completions stream into a Messages stream.  A step reads one data line, *)
(* or handles one part of the chunk it holds up to its next event.         *)
(*                                                                         *)
(* A chunk keeps what the translation looks at: whether it has a choice    *)
(* with a delta, the finish_reason, whether there is reasoning and text,   *)
(* the tool call fragments in order, and the usage.  What the fragments    *)
(* and the texts say is the identity of the piece that carries them.       *)
(***************************************************************************)
EXTENDS ReplyClosing, Sequences

CONSTANTS
    Chunks,     \* the chunks an upstream may send
    MaxChunks,  \* bound: chunks of one stream
    Calls,      \* tool call indices of the upstream
    NoCall,     \* absent call
    NoUsage,    \* absent usage
    NoBlock     \* currentBlock is nil

Fragment == [index : Calls, args : BOOLEAN]

(* delta FALSE: choices is empty, or its first choice has no delta.        *)
(* bad TRUE: the content is neither text, parts nor null.                  *)
Chunk == [delta : BOOLEAN, finish : Reasons, reasoning : BOOLEAN, text : BOOLEAN,
          bad : BOOLEAN, calls : Seq(Fragment), usage : Usage \cup {NoUsage}]

ASSUME ChunksAssumption == Chunks \subseteq Chunk
ASSUME NoneAssumption == NoCall \notin Calls /\ NoUsage \notin Usage
ASSUME BoundAssumption == MaxChunks \in Nat

VARIABLES
    pc,         \* the part of the function being run
    read,       \* chunks read so far; the last one is being handled
    pending,    \* its tool call fragments still to handle
    current,    \* currentBlock
    stopped,    \* current has been stopped, its successor not yet started
    nextIndex,
    started,    \* tool call indices whose block has been started
    stopReason,
    totals,     \* the four token counters
    out         \* events written to dst

vars == <<pc, read, pending, current, stopped, nextIndex, started, stopReason, totals, out>>

Types == {"thinking", "text", "tool_use"}
Blocks == [typ : Types, index : Nat]
ASSUME NoBlockAssumption == NoBlock \notin Blocks /\ NoBlock \notin Nat

Closings == [stopReason : StopReasons, usage : Totals]
Pieces == [chunk : Nat, typ : Types, call : Calls \cup {NoCall}]

Places == {"begin", "scan", "reasoning", "text", "calls", "usage", "close", "delta",
           "stop", "done", "failed"}

chunk == read[Len(read)]
Piece(typ, call) == [chunk |-> Len(read), typ |-> typ, call |-> call]

Init ==
    /\ pc = "begin"
    /\ read = << >>
    /\ pending = << >>
    /\ current = NoBlock
    /\ stopped = FALSE
    /\ nextIndex = 0
    /\ started = {}
    /\ stopReason = "end_turn"
    /\ totals = NoTotals
    /\ out = << >>

-----------------------------------------------------------------------------
At(place) == pc = place
Goto(place) == pc' = place
Emit(e) == out' = Append(out, e)

(* streamBlockStop.  Events that carry no index have NoBlock.              *)
StopBlock ==
    /\ ~stopped
    /\ Emit([name |-> "content_block_stop", index |-> current.index])
    /\ stopped' = TRUE
    /\ UNCHANGED <<pc, read, pending, current, nextIndex, started, stopReason, totals>>

(* Slip: the current block changes its type but keeps its index.           *)
StartBlockOldIndex(typ, call) ==
    /\ Emit([name |-> "content_block_start", index |-> nextIndex, typ |-> typ, call |-> call])
    /\ current' = [typ |-> typ, index |-> IF current = NoBlock THEN nextIndex ELSE current.index]
    /\ stopped' = FALSE
    /\ nextIndex' = nextIndex + 1
    /\ UNCHANGED <<pc, read, pending, stopReason, totals>>

(* content_block_start, currentBlock and nextIndex, for a block of type    *)
(* typ; a tool_use block names its call.                                   *)
StartBlock(typ, call) ==
    /\ Emit([name |-> "content_block_start", index |-> nextIndex, typ |-> typ, call |-> call])
    /\ current' = [typ |-> typ, index |-> nextIndex]
    /\ stopped' = FALSE
    /\ nextIndex' = nextIndex + 1
    /\ UNCHANGED <<pc, read, pending, stopReason, totals>>

(* A new block: the open one is stopped first, then the new one started.   *)
OpenBlock(typ, call) ==
    \/ current # NoBlock /\ StopBlock
    \/ (current = NoBlock \/ stopped) /\ StartBlock(typ, call)
          /\ started' = IF typ = "tool_use" THEN started \cup {call} ELSE started

FillBlock(piece) ==
    Emit([name |-> "content_block_delta", index |-> current.index, piece |-> piece])

(* Slip: any open block will do.                                           *)
InAnyBlock(typ) == current # NoBlock

InBlock(typ) == current # NoBlock /\ current.typ = typ

MessageStart ==
    /\ At("begin")
    /\ Emit([name |-> "message_start", index |-> NoBlock])
    /\ Goto("scan")
    /\ UNCHANGED <<read, pending, current, stopped, nextIndex, started, stopReason, totals>>

-----------------------------------------------------------------------------
(* The scan loop.                                                          *)

(* Slip: the started tool calls are remembered for one chunk only.         *)
ReadForgettingCalls(c) ==
    /\ At("scan")
    /\ Len(read) < MaxChunks
    /\ read' = Append(read, c)
    /\ IF c.delta
       THEN /\ Goto("reasoning")
            /\ pending' = c.calls
            /\ stopReason' = IF c.finish = "" THEN stopReason ELSE StopReason(c.finish)
       ELSE UNCHANGED <<pc, pending, stopReason>>
    /\ started' = {}
    /\ UNCHANGED <<current, stopped, nextIndex, totals, out>>

(* A chunk without a choice or a delta is skipped, usage and all.          *)
Read(c) ==
    /\ At("scan")
    /\ Len(read) < MaxChunks
    /\ read' = Append(read, c)
    /\ IF c.delta
       THEN /\ Goto("reasoning")
            /\ pending' = c.calls
            /\ stopReason' = IF c.finish = "" THEN stopReason ELSE StopReason(c.finish)
       ELSE UNCHANGED <<pc, pending, stopReason>>
    /\ UNCHANGED <<current, stopped, nextIndex, started, totals, out>>

(* [DONE], or the end of the body.                                         *)
ReadEnd ==
    /\ At("scan")
    /\ Goto("close")
    /\ UNCHANGED <<read, pending, current, stopped, nextIndex, started, stopReason, totals, out>>

(* A line that is not JSON or too long, an error object, a broken body.    *)
ReadFails ==
    /\ At("scan")
    /\ Goto("failed")
    /\ UNCHANGED <<read, pending, current, stopped, nextIndex, started, stopReason, totals, out>>

-----------------------------------------------------------------------------
(* The parts of a chunk, in the order the function takes them.             *)

NoReasoning ==
    /\ At("reasoning") /\ ~chunk.reasoning
    /\ Goto("text")
    /\ UNCHANGED <<read, pending, current, stopped, nextIndex, started, stopReason, totals, out>>

OpenThinking ==
    /\ At("reasoning") /\ chunk.reasoning /\ ~InBlock("thinking")
    /\ OpenBlock("thinking", NoCall)

ThinkingDelta ==
    /\ At("reasoning") /\ chunk.reasoning /\ InBlock("thinking")
    /\ FillBlock(Piece("thinking", NoCall))
    /\ Goto("text")
    /\ UNCHANGED <<read, pending, current, stopped, nextIndex, started, stopReason, totals>>

(* streamDeltaText rejects content of another type.                        *)
BadText ==
    /\ At("text") /\ chunk.bad
    /\ Goto("failed")
    /\ UNCHANGED <<read, pending, current, stopped, nextIndex, started, stopReason, totals, out>>

NoText ==
    /\ At("text") /\ ~chunk.bad /\ ~chunk.text
    /\ Goto("calls")
    /\ UNCHANGED <<read, pending, current, stopped, nextIndex, started, stopReason, totals, out>>

OpenText ==
    /\ At("text") /\ ~chunk.bad /\ chunk.text /\ ~InBlock("text")
    /\ OpenBlock("text", NoCall)

TextDelta ==
    /\ At("text") /\ ~chunk.bad /\ chunk.text /\ InBlock("text")
    /\ FillBlock(Piece("text", NoCall))
    /\ totals' = [totals EXCEPT !.output = @ + 1]
    /\ Goto("calls")
    /\ UNCHANGED <<read, pending, current, stopped, nextIndex, started, stopReason>>

(* The first fragment of a call opens its block.                           *)
OpenCall ==
    /\ At("calls") /\ pending # << >>
    /\ Head(pending).index \notin started
    /\ OpenBlock("tool_use", Head(pending).index)

(* Slip: only the first fragment of a chunk is handled.                    *)
CallDeltaFirstOnly ==
    /\ At("calls") /\ pending # << >>
    /\ Head(pending).index \in started
    /\ IF Head(pending).args
       THEN FillBlock(Piece("tool_use", Head(pending).index))
       ELSE UNCHANGED out
    /\ pending' = << >>
    /\ UNCHANGED <<pc, read, current, stopped, nextIndex, started, stopReason, totals>>

(* Its arguments go to the current block, whichever that is by now.        *)
CallDelta ==
    /\ At("calls") /\ pending # << >>
    /\ Head(pending).index \in started
    /\ IF Head(pending).args
       THEN FillBlock(Piece("tool_use", Head(pending).index))
       ELSE UNCHANGED out
    /\ pending' = Tail(pending)
    /\ UNCHANGED <<pc, read, current, stopped, nextIndex, started, stopReason, totals>>

CallsDone ==
    /\ At("calls") /\ pending = << >>
    /\ Goto("usage")
    /\ UNCHANGED <<read, pending, current, stopped, nextIndex, started, stopReason, totals, out>>

TakeUsage ==
    /\ At("usage")
    /\ totals' = IF chunk.usage = NoUsage THEN totals ELSE Count(chunk.usage)
    /\ Goto("scan")
    /\ UNCHANGED <<read, pending, current, stopped, nextIndex, started, stopReason, out>>

-----------------------------------------------------------------------------
(* After the loop.                                                         *)

CloseLast ==
    /\ At("close") /\ current # NoBlock
    /\ StopBlock

(* Slip: the last block is left open.                                      *)
ClosedUnstopped ==
    /\ At("close")
    /\ Goto("delta")
    /\ UNCHANGED <<read, pending, current, stopped, nextIndex, started, stopReason, totals, out>>

Closed ==
    /\ At("close") /\ (current = NoBlock \/ stopped)
    /\ Goto("delta")
    /\ UNCHANGED <<read, pending, current, stopped, nextIndex, started, stopReason, totals, out>>

MessageDelta ==
    /\ At("delta")
    /\ Emit([name |-> "message_delta", index |-> NoBlock,
             closing |-> [stopReason |-> stopReason, usage |-> totals]])
    /\ Goto("stop")
    /\ UNCHANGED <<read, pending, current, stopped, nextIndex, started, stopReason, totals>>

MessageStop ==
    /\ At("stop")
    /\ Emit([name |-> "message_stop", index |-> NoBlock])
    /\ Goto("done")
    /\ UNCHANGED <<read, pending, current, stopped, nextIndex, started, stopReason, totals>>

(* The next thing the function does is to write an event.                  *)
Writing ==
    \/ pc \in {"begin", "delta", "stop"}
    \/ At("reasoning") /\ chunk.reasoning
    \/ At("text") /\ chunk.text /\ ~chunk.bad
    \/ At("calls") /\ pending # << >> /\ (Head(pending).index \in started => Head(pending).args)
    \/ At("close") /\ current # NoBlock /\ ~stopped

(* The client is gone: streamEmit returns the error of the write.          *)
WriteFails ==
    /\ Writing
    /\ Goto("failed")
    /\ UNCHANGED <<read, pending, current, stopped, nextIndex, started, stopReason, totals, out>>

Next ==
    \/ MessageStart
    \/ \E c \in Chunks : Read(c)
    \/ ReadEnd \/ ReadFails
    \/ NoReasoning \/ OpenThinking \/ ThinkingDelta
    \/ BadText \/ NoText \/ OpenText \/ TextDelta
    \/ OpenCall \/ CallDelta \/ CallsDone
    \/ TakeUsage
    \/ CloseLast \/ Closed \/ MessageDelta \/ MessageStop
    \/ WriteFails

Spec == Init /\ [][Next]_vars
-----------------------------------------------------------------------------
(* Properties.                                                             *)

Events ==
    [name : {"message_start", "message_stop"}, index : {NoBlock}]
    \cup [name : {"content_block_start"}, index : Nat, typ : Types, call : Calls \cup {NoCall}]
    \cup [name : {"content_block_delta"}, index : Nat, piece : Pieces]
    \cup [name : {"content_block_stop"}, index : Nat]
    \cup [name : {"message_delta"}, index : {NoBlock}, closing : Closings]

(* Every variable has its type, and while a chunk is handled there is one. *)
TypeOK ==
    /\ pc \in Places
    /\ read \in Seq(Chunks) /\ Len(read) <= MaxChunks
    /\ pc \in {"reasoning", "text", "calls", "usage"} => Len(read) > 0
    /\ pending \in Seq(Fragment)
    /\ current \in Blocks \cup {NoBlock}
    /\ stopped \in BOOLEAN
    /\ nextIndex \in Nat
    /\ started \in SUBSET Calls
    /\ stopReason \in StopReasons
    /\ totals \in Totals
    /\ out \in Seq(Events)

(* The message is under way from message_start to message_delta.           *)
UnderWay == {"scan", "reasoning", "text", "calls", "usage", "close", "delta"}
LatestName == IF out = << >> THEN "nothing" ELSE out[Len(out)].name

(* The current block is stopped only on the way to its successor or to the *)
(* end of the message, so no delta meets a stopped block; and a call that  *)
(* has been started has left a current block.                              *)
Orderly ==
    /\ pc = "begin" => out = << >> /\ current = NoBlock
    /\ pc \in UnderWay => LatestName \notin {"nothing", "message_delta", "message_stop"}
    /\ pc = "stop" => LatestName = "message_delta"
    /\ pc = "delta" => current = NoBlock \/ stopped
    /\ started # {} => current # NoBlock
    /\ stopped =>
          /\ current # NoBlock
          /\ \/ pc = "reasoning" /\ chunk.reasoning /\ current.typ # "thinking"
             \/ pc = "text" /\ chunk.text /\ ~chunk.bad /\ current.typ # "text"
             \/ pc = "calls" /\ pending # << >> /\ Head(pending).index \notin started
             \/ pc \in {"close", "delta", "stop", "done", "failed"}

(* What the client sees: the headers of the events, and the open block.    *)
Header(e) == [name |-> e.name, index |-> e.index]
Headers == [i \in 1 .. Len(out) |-> Header(out[i])]
Live == IF current = NoBlock \/ stopped THEN NoBlock ELSE current.index

Abstract == INSTANCE AnthropicStream
    WITH out <- Headers, started <- nextIndex, live <- Live

(* Whatever the upstream sends, the events form a Messages stream: blocks  *)
(* numbered without gaps, one open at a time, deltas only into the open    *)
(* one, all stopped before message_delta, message_stop last.               *)
ImplementsAnthropicStream == Abstract!Spec
=============================================================================
