---------------------------- MODULE Conversation ----------------------------
(***************************************************************************)
(* A conversation held through the gateway with a Chat Completions         *)
(* provider: the client composes a turn, the gateway translates the whole  *)
(* history (proxyOpenAI), the provider answers, the gateway translates     *)
(* the reply (completeOpenAI), and the client keeps what it was shown and  *)
(* sends it again with its next turn, perhaps to another model.            *)
(*                                                                         *)
(* The client and the provider are external.  The client is the Messages   *)
(* client of Claude Desktop: a turn that follows tool calls has all their  *)
(* results, and a reply it could not read is no part of the history.       *)
(***************************************************************************)
EXTENDS RequestTranslate

CONSTANTS
    Models,         \* the models the client may choose from
    Systems,        \* the system prompts it may start with
    Turns(_, _),    \* what the client may add as turn n, given the calls to answer
    Replies(_),     \* what a provider may answer to turn n
    MaxTurns,       \* bound: turns the client composes
    WantedTokens,   \* the client's max_tokens
    Malformed,      \* argument texts that are not JSON
    Pieces,         \* what texts are made of, and images
    Ids,            \* the IDs of calls
    OtherBlocks,    \* blocks that the translation passes over
    Nil

VARIABLES
    phase,      \* "idle", "composed" or "waiting"
    system,     \* the client's system prompt
    history,    \* the messages the client holds
    settled,    \* how many of them a reply has confirmed
    composed,   \* turns composed so far
    model,      \* the model asked last
    sent,       \* the request the provider got last, or Nil
    answers,    \* the provider's messages behind the assistant turns of history
    last        \* the provider's last answer and what the client got for it, or Nil

vars == <<phase, system, history, settled, composed, model, sent, answers, last>>

Reply == INSTANCE ReplyTranslate

-----------------------------------------------------------------------------
(* What a client holds and a provider answers.                             *)

Prose == Seq(Pieces)

TextBlocks == [type : {"text"}, text : Prose, mark : BOOLEAN]
Images == [type : {"image"}, source : [type : STRING, shows : Pieces], mark : BOOLEAN]
Contents(blocks) ==
    {Absent} \cup [form : {"text"}, text : Prose] \cup [form : {"blocks"}, blocks : Seq(blocks)]
    \cup [form : {"other"}]
SeenBlocks == TextBlocks \cup Images \cup OtherBlocks
Results ==
    [type : {"tool_result"}, toolUseId : Ids, content : Contents(SeenBlocks), mark : BOOLEAN]

(* A system prompt and a system message are text.                          *)
UserBlocks == SeenBlocks \cup Results
SystemBlocks == TextBlocks \cup OtherBlocks
UserTurns == [role : {"user"}, content : Contents(UserBlocks)]
SystemTurns == [role : {"system"}, content : Contents(SystemBlocks)]
ClientTurns == UserTurns \cup SystemTurns

Calls == [id : Ids, arguments : Prose]
AnswerContents ==
    {Absent} \cup [form : {"text"}, text : Prose]
    \cup [form : {"parts"}, parts : Seq([type : STRING, text : Prose])] \cup [form : {"other"}]
ChatAnswers ==
    [content : AnswerContents, calls : Seq(Calls), reasoning : Prose, reasoningContent : Prose]
Counters == Nat \cup {Nil}
AnyBill ==
    [prompt : Nat, completion : Nat, cacheRead : Counters, detailsCached : Counters,
     cacheCreation : Counters, detailsWritten : Counters]
(* The details of a prompt are there or not, with both their counts.       *)
Bills == {u \in AnyBill : u.detailsCached = Nil <=> u.detailsWritten = Nil}
ChatChoices == [message : ChatAnswers \cup {Nil}, finish : STRING]
Responses == [error : BOOLEAN, choices : Seq(ChatChoices), usage : Bills \cup {Nil}]

(* What a provider is asked.                                               *)
Inputs == Prose \cup {EmptyObject}
SentParts ==
    [type : {"text"}, text : Prose, mark : BOOLEAN]
    \cup [type : {"image_url"}, image : Pieces, mark : BOOLEAN]
SentContents ==
    {Absent} \cup [form : {"text"}, text : Prose] \cup [form : {"parts"}, parts : Seq(SentParts)]
SentTurns ==
    [role : {"system", "user"}, content : SentContents]
    \cup [role : {"tool"}, callId : Ids, content : SentContents]
    \cup [role : {"assistant"}, content : SentContents,
          calls : Seq([id : Ids, arguments : Inputs]),
          reasoning : Prose, reasoningContent : Prose]
Completions ==
    [model : STRING, stream : BOOLEAN, includeUsage : BOOLEAN, maxTokens : Nat,
     toolChoice : {Nil}, tools : {<< >>}, messages : Seq(SentTurns)]

ModelRecords ==
    [id : STRING, cache : STRING, providerCache : STRING, reasoningField : STRING,
     maxOutputTokens : Nat]

(* The calls that a turn may have to answer.                               *)
Asked ==
    {<< >>} \cup
    {Head(resp.choices).message.calls :
         resp \in {r \in UNION {Replies(n) : n \in 0 .. MaxTurns} : ~Reply!Refused(r)}}

(* Calls are answered by the results in the first message of a turn.       *)
CallIds(calls) == {calls[i].id : i \in 1 .. Len(calls)}
ResultsIn(message) == Typed(BlocksOf(message.content), "tool_result")
Answering(turn, calls) ==
    /\ calls # << >> =>
           /\ turn # << >>
           /\ Len(ResultsIn(Head(turn))) = Len(calls)
           /\ {ResultsIn(Head(turn))[i].toolUseId : i \in 1 .. Len(calls)} = CallIds(calls)
    /\ \A i \in 1 .. Len(turn) : i > 1 \/ calls = << >> => ResultsIn(turn[i]) = << >>

ASSUME BoundsAssumption == MaxTurns \in Nat /\ WantedTokens \in Nat /\ Nil \notin Nat
ASSUME BlocksAssumption == \A b \in OtherBlocks : b.type \notin {"text", "image", "tool_result"}
ASSUME ModelsAssumption == Models \subseteq ModelRecords
ASSUME SystemsAssumption == Systems \subseteq Contents(SystemBlocks)
ASSUME TurnsAssumption ==
    \A n \in 1 .. MaxTurns : \A calls \in Asked : \A turn \in Turns(n, calls) :
        turn \in Seq(ClientTurns) /\ Answering(turn, calls)
ASSUME RepliesAssumption == \A n \in 0 .. MaxTurns : Replies(n) \subseteq Responses

-----------------------------------------------------------------------------
Roles(messages, role) ==
    FlattenSeq([i \in 1 .. Len(messages) |->
                   IF messages[i].role = role THEN <<messages[i]>> ELSE << >>])

Init ==
    /\ phase = "idle"
    /\ system \in Systems
    /\ history = << >>
    /\ settled = 0
    /\ composed = 0
    /\ model \in Models
    /\ sent = Nil
    /\ answers = << >>
    /\ last = Nil

(* The calls of the last reply, which the next turn has to answer.         *)
Outstanding ==
    IF answers = << >> THEN << >> ELSE answers[Len(answers)].calls

(* A turn is a user message, with a system message before or after it if   *)
(* the client has one to give.                                             *)
Compose ==
    /\ phase = "idle"
    /\ composed < MaxTurns
    /\ composed' = composed + 1
    /\ \E turn \in Turns(composed', Outstanding) : history' = history \o turn
    /\ phase' = "composed"
    /\ UNCHANGED <<system, settled, model, sent, answers, last>>

Request(m) ==
    [system |-> system, messages |-> history, stream |-> FALSE, maxTokens |-> WantedTokens,
     toolChoice |-> Nil, tools |-> << >>]

(* The client sends its history, for the first time or again.              *)
Send(m) ==
    /\ phase = "composed"
    /\ ~Untranslatable(Request(m))
    /\ model' = m
    /\ sent' = AnthropicToOpenAI(Request(m), m)
    /\ phase' = "waiting"
    /\ UNCHANGED <<system, history, settled, composed, answers, last>>

(* The gateway answers 400 and no provider sees the request.               *)
SendRefused ==
    /\ phase = "composed"
    /\ \E m \in Models : Untranslatable(Request(m))
    /\ history' = SubSeq(history, 1, settled)
    /\ phase' = "idle"
    /\ UNCHANGED <<system, settled, composed, model, sent, answers, last>>

(* A reply the client can read and that says something.                    *)
Readable(got) == got.body # Nil /\ got.body.content # << >>

(* The provider answers.  After an answer that is refused, unreadable or   *)
(* empty the turn is still the client's to send.                           *)
Answer(resp) ==
    LET got == Reply!Completed(resp)
    IN  /\ phase = "waiting"
        /\ last' = [resp |-> resp, got |-> got]
        /\ IF Readable(got)
           THEN /\ history' = Append(history,
                       [role |-> "assistant",
                        content |-> [form |-> "blocks", blocks |-> got.body.content]])
                /\ settled' = Len(history')
                /\ answers' = Append(answers, Head(resp.choices).message)
                /\ phase' = "idle"
           ELSE /\ phase' = "composed"
                /\ UNCHANGED <<history, settled, answers>>
        /\ UNCHANGED <<system, composed, model, sent>>

(* The client gives the turn up.                                           *)
GiveUp ==
    /\ phase = "composed"
    /\ history' = SubSeq(history, 1, settled)
    /\ phase' = "idle"
    /\ UNCHANGED <<system, settled, composed, model, sent, answers, last>>

Next ==
    \/ Compose
    \/ \E m \in Models : Send(m)
    \/ SendRefused
    \/ \E resp \in Replies(composed) : Answer(resp)
    \/ GiveUp

Spec == Init /\ [][Next]_vars
-----------------------------------------------------------------------------
(* Properties.                                                             *)

(* Every variable has its type, every assistant turn has its answer, and   *)
(* no count of tokens goes below zero.                                     *)
TypeOK ==
    /\ phase \in {"idle", "composed", "waiting"}
    /\ system \in Systems
    /\ composed \in 0 .. MaxTurns
    /\ settled \in 0 .. Len(history)
    /\ \A i \in 1 .. Len(history) : history[i].role \in {"system", "user", "assistant"}
    /\ phase = "idle" => settled = Len(history)
    /\ model \in Models
    /\ Len(answers) = Len(Roles(history, "assistant"))
    /\ phase = "waiting" => sent \in Completions
    /\ last # Nil /\ last.got.body # Nil => last.got.body.usage \in Reply!Totals

(* The texts and images of a content, in order, and without its form.      *)
SaidIn(content) ==
    CASE content.form = "parts" ->
             FlattenSeq([i \in 1 .. Len(content.parts) |->
                 IF content.parts[i].type = "text" THEN content.parts[i].text
                 ELSE <<content.parts[i].image>>])
      [] content.form = "text" -> content.text
      [] OTHER -> << >>

(* The texts and images of blocks a client holds, of the kinds that the    *)
(* translation knows.                                                      *)
ShownIn(blocks) ==
    FlattenSeq([i \in 1 .. Len(blocks) |->
        CASE blocks[i].type = "text" -> blocks[i].text
          [] blocks[i].type = "image" -> <<blocks[i].source.shows>>
          [] OTHER -> << >>])

(* What a request says apart from its assistant turns, piece by piece: who *)
(* says it, in answer to which call.                                       *)
Says(who, call, pieces) == [i \in 1 .. Len(pieces) |-> [who |-> who, call |-> call, piece |-> pieces[i]]]

HeldBlock(role, b) ==
    IF b.type = "tool_result"
    THEN Says("tool", b.toolUseId, ShownIn(BlocksOf(b.content)))
    ELSE Says(role, Nil, ShownIn(<<b>>))
HeldTurn(turn) ==
    IF turn.role = "assistant" THEN << >>
    ELSE FlattenSeq([i \in 1 .. Len(BlocksOf(turn.content)) |->
                        HeldBlock(turn.role, BlocksOf(turn.content)[i])])
Held ==
    HeldTurn([role |-> "system", content |-> system])
    \o FlattenSeq([i \in 1 .. Len(history) |-> HeldTurn(history[i])])

SentMessage(msg) ==
    CASE msg.role = "assistant" -> << >>
      [] msg.role = "tool" -> Says("tool", msg.callId, SaidIn(msg.content))
      [] OTHER -> Says(msg.role, Nil, SaidIn(msg.content))
SentPieces == FlattenSeq([i \in 1 .. Len(sent.messages) |-> SentMessage(sent.messages[i])])

(* The provider gets every text, image and tool result of the system       *)
(* prompt and the user's turns, once, in order, from the right speaker and *)
(* for the right call, however the turns are cut into messages.            *)
NothingOfTheUserIsLost == phase = "waiting" => SentPieces = Held

(* An assistant turn comes back to the provider as its answer was: the     *)
(* text, the calls and their arguments, and the reasoning under the name   *)
(* the model now asked reads and no other, after any number of turns and   *)
(* changes of model.                                                       *)
SameTurn(msg, answer) ==
    /\ SaidIn(msg.content) =
          SaidIn(IF answer.content.form = "parts"
                 THEN Parts(Typed(answer.content.parts, "text")) ELSE answer.content)
    /\ msg.calls = [i \in 1 .. Len(answer.calls) |->
           [answer.calls[i] EXCEPT !.arguments = IF @ = << >> THEN EmptyObject ELSE @]]
    /\ IF ReasoningFieldName(model) = "reasoning"
       THEN msg.reasoning = Reply!ReasoningText(answer) /\ msg.reasoningContent = << >>
       ELSE msg.reasoningContent = Reply!ReasoningText(answer) /\ msg.reasoning = << >>
AnswersComeBackAsGiven ==
    phase = "waiting" =>
        LET own == Roles(sent.messages, "assistant")
        IN  /\ Len(own) = Len(answers)
            /\ \A i \in 1 .. Len(own) : SameTurn(own[i], answers[i])

(* The client's user turns that have tool results begin with them.         *)
ResultsFirst ==
    \A i \in 1 .. Len(history) :
        LET blocks == BlocksOf(history[i].content)
        IN  history[i].role = "user" =>
                \A j, k \in 1 .. Len(blocks) :
                    j < k /\ blocks[k].type = "tool_result" => blocks[j].type = "tool_result"

(* request.go:220: Chat Completions wants the results of a turn's calls    *)
(* right behind it, one for each, before any text of the same user turn.   *)
(* That is so whenever the client's own turns begin with their results.    *)
CallsOf(i) == IF sent.messages[i].role = "assistant" THEN sent.messages[i].calls ELSE << >>
Behind(i) == i + 1 .. i + Len(CallsOf(i))
ResultsFollowTheirCalls ==
    phase = "waiting" /\ ResultsFirst =>
        LET messages == sent.messages
            tools == {k \in 1 .. Len(messages) : messages[k].role = "tool"}
        IN  /\ tools = UNION {Behind(i) : i \in 1 .. Len(messages)}
            /\ \A i \in 1 .. Len(messages) :
                   CallIds(CallsOf(i)) = {messages[k].callId : k \in Behind(i)}

(* The pieces that leave with cache_control.                               *)
Marked(list) ==
    FlattenSeq([i \in 1 .. Len(list) |-> IF list[i].mark THEN <<list[i]>> ELSE << >>])
MarkedIn(content) ==
    IF content.form # "parts" THEN << >> ELSE SaidIn(Parts(Marked(content.parts)))
SentMarks == FlattenSeq([i \in 1 .. Len(sent.messages) |-> MarkedIn(sent.messages[i].content)])

(* Those the client marks in its turns: texts and images, and of the       *)
(* results of tools the images.                                            *)
HeldMark(b) ==
    LET own == IF b.type # "tool_result" THEN <<b>> ELSE Typed(BlocksOf(b.content), "image")
    IN  ShownIn(Marked(own))
HeldMarks ==
    FlattenSeq([i \in 1 .. Len(history) |->
        IF history[i].role # "user" THEN << >>
        ELSE LET blocks == BlocksOf(history[i].content)
             IN  FlattenSeq([k \in 1 .. Len(blocks) |-> HeldMark(blocks[k])])])

(* README.md:78: a provider that is not on explicit never gets a mark,     *)
(* although the same conversation was marked for another one before; one   *)
(* that is gets the marks of the user's own texts and images, and no more. *)
MarksGoWhereConfigured ==
    phase = "waiting" =>
        SentMarks = IF EffectiveCache(model) = "explicit" THEN HeldMarks ELSE << >>

(* A count is told once if it is given in both places, and of the place it *)
(* is given in if that is one only; where they differ a gateway's own      *)
(* counter wins, and so it does when it is zero.                           *)
Tells(n, own, details) ==
    LET given == {own, details} \ {Nil}
    IN  /\ n \in IF given = {} THEN {0} ELSE given
        /\ own # Nil => n = own

(* What a reply is said to cost is what its provider counted, wherever it  *)
(* reports its cache hits and writes: hits and other input make up the     *)
(* prompt, and a provider whose hits exceed it is billed for no input.     *)
CostsAddUp ==
    last # Nil /\ last.got.body # Nil /\ last.resp.usage # Nil =>
        LET u == last.resp.usage
            told == last.got.body.usage
        IN  /\ Tells(told.cacheRead, u.cacheRead, u.detailsCached)
            /\ Tells(told.cacheWrite, u.cacheCreation, u.detailsWritten)
            /\ IF told.cacheRead <= u.prompt
               THEN told.input + told.cacheRead = u.prompt
               ELSE told.input = 0
            /\ told.output = u.completion

-----------------------------------------------------------------------------
(* What the code's own words claim and its steps refute.                   *)

(* README.md:78: on explicit, cache_control blocks are forwarded           *)
(* untouched, so a request that carries a mark in any of its blocks goes   *)
(* out with one.                                                           *)
HasMark(content) == \E i \in 1 .. Len(BlocksOf(content)) : BlocksOf(content)[i].mark
CacheMarksForwarded ==
    /\ phase = "waiting"
    /\ EffectiveCache(model) = "explicit"
    /\ \/ HasMark(system)
       \/ \E i \in 1 .. Len(history) :
              history[i].role # "assistant" /\ HasMark(history[i].content)
    => SentMarks # << >>

(* response.go:106: arguments that are not valid JSON are an error, so the *)
(* client gets either an error status or the reply.                        *)
InvalidArgumentsAreAnError ==
    last # Nil /\ last.got.status = 200 => last.got.body # Nil
=============================================================================
