-------------------------- MODULE RequestTranslate --------------------------
(***************************************************************************)
(* transform.AnthropicToOpenAI: a Messages request as a Chat Completions   *)
(* provider gets it.                                                       *)
(*                                                                         *)
(* A content is [form |-> "absent"], "text" with its text, "blocks" with   *)
(* its blocks, or "other".  mark says whether a block carries              *)
(* cache_control; a source is its type and what it shows.                  *)
(***************************************************************************)
EXTENDS Integers, SequencesExt

CONSTANT EmptyObject    \* the arguments {}

Absent == [form |-> "absent"]
Text(t) == [form |-> "text", text |-> t]
Parts(ps) == [form |-> "parts", parts |-> ps]

(* EffectiveCache and ReasoningFieldName: model before provider, provider  *)
(* before default; an unset attribute is "".                               *)
EffectiveCache(m) ==
    CASE m.cache # "" -> m.cache
      [] m.cache = "" /\ m.providerCache # "" -> m.providerCache
      [] OTHER -> "none"
ReasoningFieldName(m) ==
    IF m.reasoningField = "" THEN "reasoning_content" ELSE m.reasoningField

(* Slip: the mark of any block is kept, whatever the mode.                 *)
KeptAlways(block, m) == block.mark

Kept(block, m) == EffectiveCache(m) = "explicit" /\ block.mark

TextPart(block, m) == [type |-> "text", text |-> block.text, mark |-> Kept(block, m)]
ImagePart(block, m) ==
    [type |-> "image_url", image |-> block.source.shows, mark |-> Kept(block, m)]

(* reqParseContent                                                         *)
BlocksOf(content) ==
    CASE content.form = "blocks" -> content.blocks
      [] content.form = "text" ->
             <<[type |-> "text", text |-> content.text, mark |-> FALSE]>>
      [] OTHER -> << >>

Typed(blocks, type) ==
    FlattenSeq([i \in 1 .. Len(blocks) |-> IF blocks[i].type = type THEN <<blocks[i]>> ELSE << >>])
Field(blocks, name) == [i \in 1 .. Len(blocks) |-> blocks[i][name]]

(* reqSystemText: no marks survive.                                        *)
SystemText(content) == FlattenSeq(Field(Typed(BlocksOf(content), "text"), "text"))
SystemMessages(content) ==
    IF SystemText(content) = << >> THEN << >>
    ELSE <<[role |-> "system", content |-> Text(SystemText(content))]>>

-----------------------------------------------------------------------------
(* reqAssistantMessage.                                                    *)

AssistantContent(parts, calls) ==
    CASE parts = << >> -> Absent
      [] Len(parts) = 1 /\ calls = << >> /\ ~parts[1].mark -> Text(parts[1].text)
      [] OTHER -> Parts(parts)

Call(b) ==
    [id |-> b.id, arguments |-> IF b.input = << >> THEN EmptyObject ELSE b.input]

(* Thinking goes back under the name the provider reads it by.             *)
AssistantMessage(content, m) ==
    LET blocks == BlocksOf(content)
        texts == Typed(blocks, "text")
        uses == Typed(blocks, "tool_use")
        parts == [i \in 1 .. Len(texts) |-> TextPart(texts[i], m)]
        calls == [i \in 1 .. Len(uses) |-> Call(uses[i])]
        thought == FlattenSeq(Field(Typed(blocks, "thinking"), "thinking"))
        own == ReasoningFieldName(m) = "reasoning"
    IN  [role |-> "assistant", content |-> AssistantContent(parts, calls), calls |-> calls,
         reasoning |-> IF own THEN thought ELSE << >>,
         reasoningContent |-> IF own THEN << >> ELSE thought]

-----------------------------------------------------------------------------
(* reqUserMessages: each tool result is a message of its own, after what   *)
(* stands before it and before what follows it.                            *)

(* reqToolResultParts: text alone collapses; an image keeps the parts.     *)
Telling(b) == (b.type = "text" /\ b.text # << >>) \/ b.type = "image"
ToolResultParts(blocks, m) ==
    LET kept == FlattenSeq([i \in 1 .. Len(blocks) |->
                               IF Telling(blocks[i]) THEN <<blocks[i]>> ELSE << >>])
    IN  IF Typed(kept, "image") = << >> THEN Text(FlattenSeq(Field(kept, "text")))
        ELSE Parts([i \in 1 .. Len(kept) |->
                       IF kept[i].type = "image" THEN ImagePart(kept[i], m)
                       ELSE [type |-> "text", text |-> kept[i].text, mark |-> FALSE]])

(* reqToolResultContent                                                    *)
ToolResultContent(content, m) ==
    CASE content.form = "absent" -> Text(<< >>)
      [] content.form = "text" -> Text(content.text)
      [] content.form = "blocks" -> ToolResultParts(content.blocks, m)

ToolMessage(b, m) ==
    [role |-> "tool", callId |-> b.toolUseId, content |-> ToolResultContent(b.content, m)]

(* reqBuildUserMessage                                                     *)
UserMessage(parts) ==
    [role |-> "user",
     content |-> IF Len(parts) = 1 /\ parts[1].type = "text" /\ ~parts[1].mark
                 THEN Text(parts[1].text) ELSE Parts(parts)]
Flushed(parts) == IF parts = << >> THEN << >> ELSE <<UserMessage(parts)>>

(* Slip: the pending parts are sent but not reset.                         *)
TakeBlockUnreset(acc, b, m) ==
    CASE b.type = "text" -> [acc EXCEPT !.parts = Append(@, TextPart(b, m))]
      [] b.type = "image" -> [acc EXCEPT !.parts = Append(@, ImagePart(b, m))]
      [] b.type = "tool_result" ->
             [acc EXCEPT !.messages = @ \o Flushed(acc.parts) \o <<ToolMessage(b, m)>>]
      [] OTHER -> acc

TakeBlock(acc, b, m) ==
    CASE b.type = "text" -> [acc EXCEPT !.parts = Append(@, TextPart(b, m))]
      [] b.type = "image" -> [acc EXCEPT !.parts = Append(@, ImagePart(b, m))]
      [] b.type = "tool_result" ->
             [messages |-> acc.messages \o Flushed(acc.parts) \o <<ToolMessage(b, m)>>,
              parts |-> << >>]
      [] OTHER -> acc

(* What is built from the blocks, the first to the last.                   *)
NothingTaken == [messages |-> << >>, parts |-> << >>]
Taken(blocks, m) ==
    LET acc[k \in 0 .. Len(blocks)] ==
            IF k = 0 THEN NothingTaken ELSE TakeBlock(acc[k - 1], blocks[k], m)
    IN  acc[Len(blocks)]

(* Slip: the remaining text goes out before the results.                   *)
UserMessagesTextFirst(content, m) ==
    LET acc == Taken(BlocksOf(content), m) IN Flushed(acc.parts) \o acc.messages

UserMessages(content, m) ==
    LET acc == Taken(BlocksOf(content), m) IN acc.messages \o Flushed(acc.parts)

-----------------------------------------------------------------------------
(* The requests for which AnthropicToOpenAI returns an error.              *)
BadImage(b) == b.type = "image" /\ b.source.type \notin {"base64", "url"}
BadResult(b) ==
    /\ b.type = "tool_result"
    /\ \/ b.content.form = "other"
       \/ b.content.form = "blocks" /\ \E i \in 1 .. Len(b.content.blocks) :
                                           BadImage(b.content.blocks[i])
BadTurn(turn) ==
    \/ turn.role \notin {"system", "user", "assistant"}
    \/ turn.content.form = "other"
    \/ turn.role = "user" /\ \E i \in 1 .. Len(BlocksOf(turn.content)) :
           BadImage(BlocksOf(turn.content)[i]) \/ BadResult(BlocksOf(turn.content)[i])
Untranslatable(req) ==
    req.system.form = "other" \/ \E i \in 1 .. Len(req.messages) : BadTurn(req.messages[i])

TurnMessages(turn, m) ==
    CASE turn.role = "assistant" -> <<AssistantMessage(turn.content, m)>>
      [] turn.role = "user" -> UserMessages(turn.content, m)
      [] turn.role = "system" -> SystemMessages(turn.content)

(* Zero stands for a field that is left out.                               *)
MaxTokens(req, m) ==
    LET clamped == IF m.maxOutputTokens > 0 /\ req.maxTokens > m.maxOutputTokens
                   THEN m.maxOutputTokens ELSE req.maxTokens
    IN  IF clamped > 0 THEN clamped ELSE 0

(* tool_choice goes through as it came, in Anthropic's form.               *)
AnthropicToOpenAI(req, m) ==
    [model |-> m.id, stream |-> req.stream, includeUsage |-> req.stream,
     maxTokens |-> MaxTokens(req, m), toolChoice |-> req.toolChoice,
     tools |-> Field(req.tools, "name"),
     messages |-> SystemMessages(req.system)
                  \o FlattenSeq([i \in 1 .. Len(req.messages) |->
                                    TurnMessages(req.messages[i], m)])]
=============================================================================
