---------------------------- MODULE StreamClient ----------------------------
(***************************************************************************)
(* A translated stream as its client puts it together: blocks by index,    *)
(* each the concatenation of its deltas, against what the upstream sent.   *)
(***************************************************************************)
EXTENDS StreamTranslate, SequencesExt

CONSTANT EmptyObject    \* the arguments {}

(* What a whole reply may say of its usage; what is absent is neither that *)
(* nor a number.                                                           *)
WholeUsage == [prompt : Nat, completion : Nat, cacheRead : Nat, cacheCreation : Nat,
               detailsCached : {NoUsage}, detailsWritten : {NoUsage}]
ASSUME AbsentAssumption == NoUsage \notin Nat /\ NoUsage \notin WholeUsage

(* The translation of whole replies, to compare with.                      *)
Whole == INSTANCE ReplyTranslate WITH Malformed <- {}, Nil <- NoUsage

(* What a filter keeps is put together from lists of one and of none.      *)
Named(name) == FlattenSeq([i \in 1 .. Len(out) |-> IF out[i].name = name THEN <<out[i]>> ELSE << >>])
Starts == Named("content_block_start")
Deltas == Named("content_block_delta")
Closing == Head(Named("message_delta")).closing
Complete == Named("message_stop") # << >>

(* Block index b as the client holds it.                                   *)
StartOf(b) ==
    LET starts == Starts IN starts[CHOOSE k \in 1 .. Len(starts) : starts[k].index = b]
PiecesOf(b) ==
    LET deltas == Deltas
    IN  FlattenSeq([i \in 1 .. Len(deltas) |->
                       IF deltas[i].index = b THEN <<deltas[i].piece>> ELSE << >>])
Shown == FlattenSeq([i \in 1 .. Len(Starts) |-> PiecesOf(Starts[i].index)])

(* What the upstream sent, part by part, in the chunks that count; a       *)
(* fragment may announce a call without giving any of its arguments.       *)
Part(n, typ, call, payload) ==
    [piece |-> [chunk |-> n, typ |-> typ, call |-> call], payload |-> payload]
ProseParts(n, c) == IF c.reasoning THEN <<Part(n, "thinking", NoCall, TRUE)>> ELSE << >>
TextParts(n, c) == IF c.text THEN <<Part(n, "text", NoCall, TRUE)>> ELSE << >>
CallParts(n, calls) ==
    [i \in 1 .. Len(calls) |-> Part(n, "tool_use", calls[i].index, calls[i].args)]
PartsOf(n, c) ==
    IF c.delta THEN ProseParts(n, c) \o (TextParts(n, c) \o CallParts(n, c.calls)) ELSE << >>
Sent == FlattenSeq([n \in 1 .. Len(read) |-> PartsOf(n, read[n])])
Payload(parts) ==
    FlattenSeq([i \in 1 .. Len(parts) |->
                   IF parts[i].payload THEN <<parts[i].piece>> ELSE << >>])
SentPayload == Payload(Sent)

CallsOf(parts) == [i \in 1 .. Len(parts) |-> parts[i].piece.call]

(* Every call's fragments follow each other with nothing in between.       *)
Contiguous ==
    LET call == CallsOf(Sent)
    IN  \A i, j \in 1 .. Len(call) :
            i < j /\ call[i] = call[j] /\ call[i] # NoCall =>
                \A k \in i .. j : call[k] = call[i]

InItsOwnCall(e) == StartOf(e.index).call = e.piece.call

-----------------------------------------------------------------------------
(* Read block after block, the client has what the upstream sent, in the   *)
(* order it was sent, nothing twice and nothing out of place; once it gets *)
(* message_stop it has all of it.                                          *)
ShownAsSent ==
    /\ IsPrefix(Shown, SentPayload)
    /\ Complete => Shown = SentPayload

(* Reasoning is shown as thinking and text as text, however they are mixed *)
(* with each other and with tool calls.                                    *)
ProseInItsOwnBlock ==
    \A i \in 1 .. Len(Deltas) :
        Deltas[i].piece.typ # "tool_use" =>
            StartOf(Deltas[i].index).typ = Deltas[i].piece.typ

(* A call gets one block however many fragments it comes in, and no call   *)
(* of a complete stream goes without.                                      *)
OneBlockPerCall ==
    \A t \in Calls :
        LET own == {k \in 1 .. Len(Starts) : Starts[k].call = t}
        IN  /\ \A j, k \in own : j = k
            /\ Complete /\ (\E i \in 1 .. Len(Sent) : Sent[i].piece.call = t) => own # {}

(* As long as the upstream finishes one call before the next and sends no  *)
(* prose in between, every argument fragment lands in its call's block.    *)
ContiguousCallsKeepTheirArguments ==
    Contiguous =>
        \A i \in 1 .. Len(Deltas) :
            Deltas[i].piece.typ = "tool_use" => InItsOwnCall(Deltas[i])

(* The chunks that end the reply or bill it, and those of them with a      *)
(* delta; and no text in a chunk after n.                                  *)
Ending == {n \in 1 .. Len(read) : read[n].finish # ""}
Billed == {n \in 1 .. Len(read) : read[n].usage # NoUsage}
Finished == {n \in Ending : read[n].delta}
Counted == {n \in Billed : read[n].delta}
Latest(S) == CHOOSE n \in S : \A m \in S : m <= n
NoTextAfter(n) == \A m \in 1 .. Len(read) : read[m].delta /\ read[m].text => m <= n

(* message_delta gives the last finish_reason and the last usage that came *)
(* with a delta, and of those without one nothing.  What was read from the *)
(* cache is not in the input, the two add up to the prompt; and the output *)
(* is what was billed, and more only for text that came after the bill.    *)
ClosingTellsTheLast ==
    Named("message_delta") # << >> =>
        /\ Finished = {} => Closing.stopReason = "end_turn"
        /\ Finished # {} =>
              Closing.stopReason = StopReason(read[Latest(Finished)].finish)
        /\ Counted = {} => Closing.usage.input = 0 /\ Closing.usage.cacheRead = 0
        /\ Counted # {} =>
              LET u == read[Latest(Counted)].usage
              IN  /\ Closing.usage.cacheRead = u.cached
                  /\ Closing.usage.cacheWrite = u.written
                  /\ IF u.cached <= u.prompt
                     THEN Closing.usage.input + Closing.usage.cacheRead = u.prompt
                     ELSE Closing.usage.input = 0
                  /\ Closing.usage.output >= u.completion
                  /\ NoTextAfter(Latest(Counted)) => Closing.usage.output = u.completion

(* What a provider that streamed this would have sent in one piece: the    *)
(* texts put together, the calls in the order they first come in, and the  *)
(* last finish_reason and the last usage of any chunk, with a delta or     *)
(* without.                                                                *)
PiecesIn(pieces, typ, call) ==
    FlattenSeq([i \in 1 .. Len(pieces) |->
                   IF pieces[i].typ = typ /\ pieces[i].call = call THEN <<pieces[i]>> ELSE << >>])
PiecesSent(typ, call) == PiecesIn(SentPayload, typ, call)
Firsts(s) ==
    FlattenSeq([i \in 1 .. Len(s) |->
                   IF \A j \in 1 .. i - 1 : s[j] # s[i] THEN <<s[i]>> ELSE << >>])
CallsSent ==
    LET calls == Firsts(CallsOf(Sent))
    IN  FlattenSeq([i \in 1 .. Len(calls) |-> IF calls[i] # NoCall THEN <<calls[i]>> ELSE << >>])
Assembled ==
    LET bill == read[Latest(Billed)].usage
        calls == [k \in 1 .. Len(CallsSent) |->
                     [id |-> CallsSent[k], arguments |-> PiecesSent("tool_use", CallsSent[k])]]
        message == [content |-> [form |-> "text", text |-> PiecesSent("text", NoCall)],
                    calls |-> calls, reasoningContent |-> PiecesSent("thinking", NoCall),
                    reasoning |-> << >>]
        finish == IF Ending = {} THEN "" ELSE read[Latest(Ending)].finish
        usage == IF Billed = {} THEN NoUsage
                 ELSE [prompt |-> bill.prompt, completion |-> bill.completion,
                       cacheRead |-> bill.cached, cacheCreation |-> bill.written,
                       detailsCached |-> NoUsage, detailsWritten |-> NoUsage]
    IN  [error |-> FALSE, choices |-> <<[message |-> message, finish |-> finish]>>,
         usage |-> usage]

(* The blocks the client has built.                                        *)
BlockHeld(start) ==
    LET pieces == PiecesOf(start.index)
    IN  CASE start.typ = "thinking" -> Whole!ThinkingBlock(pieces)
          [] start.typ = "text" -> Whole!TextBlock(pieces)
          [] start.typ = "tool_use" -> Whole!ToolUse([id |-> start.call, arguments |-> pieces])

(* Reasoning, then text, then one call after the other.                    *)
Rank(p) == CASE p.piece.typ = "thinking" -> 1 [] p.piece.typ = "text" -> 2 [] OTHER -> 3
InOrder ==
    /\ Contiguous
    /\ LET sent == Sent IN \A i, j \in 1 .. Len(sent) : i < j => Rank(sent[i]) <= Rank(sent[j])

(* The client cannot tell a reply that was streamed to it from the same    *)
(* reply translated whole, as far as the two agree: the blocks are the     *)
(* same if the parts came in the order of a whole reply, the stop reason   *)
(* if the last finish_reason came with a delta, the costs if the last      *)
(* usage did and no text came after it.  Otherwise they differ: the        *)
(* streamed translation passes over what comes without a delta, the bill   *)
(* of include_usage among it (UsageReported), and counts text that was     *)
(* billed no more.                                                         *)
StreamedLikeWhole ==
    Complete =>
        LET whole == Whole!OpenAIToAnthropic(Assembled)
        IN  /\ InOrder => [i \in 1 .. Len(Starts) |-> BlockHeld(Starts[i])] = whole.content
            /\ Ending = {} \/ Latest(Ending) \in Finished => Closing.stopReason = whole.stopReason
            /\ Billed # {} =>
                  (/\ Latest(Billed) \in Counted
                   /\ NoTextAfter(Latest(Billed))
                   => Closing.usage = whole.usage)

-----------------------------------------------------------------------------
(* What the code's own words claim and its steps refute.                   *)

(* response.go:189: toolCalls[index] is the accumulated tool call, so what *)
(* comes with an index belongs to that call's block.                       *)
FragmentsReachTheirCall ==
    \A i \in 1 .. Len(Deltas) :
        Deltas[i].piece.typ = "tool_use" => InItsOwnCall(Deltas[i])

(* openai.go:74: the stream options ask for the final usage chunk to       *)
(* prevent cache loss; so once usage was sent, the reply carries it.       *)
UsageReported ==
    Complete /\ Billed # {} =>
        Closing.usage.cacheRead = read[Latest(Billed)].usage.cached
=============================================================================
