--------------------------- MODULE ReplyTranslate ---------------------------
(***************************************************************************)
(* transform.OpenAIToAnthropic and completeOpenAI: a whole Chat            *)
(* Completions reply as the Messages client gets it.                       *)
(*                                                                         *)
(* A text is the sequence of its pieces, so that the empty text is << >>   *)
(* and joining is concatenation.  A content is absent, a text, a list of   *)
(* parts, or something else; the name of a function goes with its call ID. *)
(***************************************************************************)
EXTENDS ReplyClosing, SequencesExt

CONSTANTS
    EmptyObject,    \* the arguments {}
    Malformed,      \* argument texts that are not JSON
    Nil             \* a field that is absent

(* CachedTokens and CacheWriteTokens: a gateway's Anthropic counter counts *)
(* before the provider's details.                                          *)
Counter(own, detail) ==
    IF own # Nil THEN own ELSE IF detail # Nil THEN detail ELSE 0

(* Slip: both places are believed, and a hit reported twice counts twice.  *)
UsageOfBoth(u) ==
    IF u = Nil THEN NoTotals
    ELSE Count([prompt |-> u.prompt, completion |-> u.completion,
                cached |-> Counter(u.cacheRead, Nil) + Counter(Nil, u.detailsCached),
                written |-> Counter(u.cacheCreation, u.detailsWritten)])

(* respUsage                                                               *)
UsageOf(u) ==
    IF u = Nil THEN NoTotals
    ELSE Count([prompt |-> u.prompt, completion |-> u.completion,
                cached |-> Counter(u.cacheRead, u.detailsCached),
                written |-> Counter(u.cacheCreation, u.detailsWritten)])

-----------------------------------------------------------------------------
(* respContentBlocks.                                                      *)

ThinkingBlock(t) == [type |-> "thinking", thinking |-> t]
TextBlock(t) == [type |-> "text", text |-> t, mark |-> FALSE]
ToolUse(call) ==
    [type |-> "tool_use", id |-> call.id, mark |-> FALSE,
     input |-> IF call.arguments = << >> THEN EmptyObject ELSE call.arguments]

ReasoningText(msg) ==
    IF msg.reasoningContent # << >> THEN msg.reasoningContent ELSE msg.reasoning

Thinking(msg) ==
    IF ReasoningText(msg) = << >> THEN << >> ELSE <<ThinkingBlock(ReasoningText(msg))>>

(* Parts other than text have no place in the reply.                       *)
Texts(content) ==
    CASE content.form = "parts" ->
             FlattenSeq([i \in 1 .. Len(content.parts) |->
                 IF content.parts[i].type = "text" THEN <<TextBlock(content.parts[i].text)>>
                 ELSE << >>])
      [] content.form = "text" /\ content.text # << >> -> <<TextBlock(content.text)>>
      [] OTHER -> << >>

ToolUses(msg) == [i \in 1 .. Len(msg.calls) |-> ToolUse(msg.calls[i])]

(* Slip: reasoning is read under one of its two names only.                *)
ContentBlocksOneName(msg) ==
    LET thinking == IF msg.reasoningContent = << >> THEN << >>
                    ELSE <<ThinkingBlock(msg.reasoningContent)>>
    IN  thinking \o Texts(msg.content) \o ToolUses(msg)

ContentBlocks(msg) == Thinking(msg) \o Texts(msg.content) \o ToolUses(msg)

-----------------------------------------------------------------------------
(* The replies that OpenAIToAnthropic turns down.                          *)
Refused(resp) ==
    \/ resp.error
    \/ resp.choices = << >>
    \/ Head(resp.choices).message = Nil

OpenAIToAnthropic(resp) ==
    [content |-> ContentBlocks(Head(resp.choices).message),
     stopReason |-> StopReason(Head(resp.choices).finish),
     usage |-> UsageOf(resp.usage)]

(* writeJSON: the encoder checks raw JSON once the status line is out.     *)
Encodable(reply) ==
    \A i \in 1 .. Len(reply.content) :
        reply.content[i].type = "tool_use" => reply.content[i].input \notin Malformed

(* completeOpenAI: the status and the body the client gets.                *)
Completed(resp) ==
    IF Refused(resp) THEN [status |-> 502, body |-> Nil]
    ELSE LET reply == OpenAIToAnthropic(resp)
         IN  [status |-> 200, body |-> IF Encodable(reply) THEN reply ELSE Nil]
=============================================================================
