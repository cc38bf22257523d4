--------------------------- MODULE MCConversation ---------------------------
(* Instances of Conversation for TLC: turns, replies and models that       *)
(* differ in everything the translations look at.                          *)
EXTENDS Conversation

CONSTANTS callA, callB

Model(cache, providerCache, reasoningField) ==
    [id |-> "m", cache |-> cache, providerCache |-> providerCache,
     reasoningField |-> reasoningField, maxOutputTokens |-> 4]
AllModels == {Model("explicit", "none", ""), Model("", "explicit", "reasoning"), Model("", "", "")}

(* Pieces say who made them and in which turn.                             *)
User(n, k) == <<[turn |-> n, by |-> "user", part |-> k]>>
Provider(n, k) == <<[turn |-> n, by |-> "provider", part |-> k]>>
System(k) == <<[turn |-> 0, by |-> "system", part |-> k]>>

AllPieces ==
    [turn : 0 .. MaxTurns, by : {"user", "provider", "system"},
     part : {callA, callB, "prompt", "image", "more", "before", "text", "thought", "one", "no", "two",
                       "arguments", "{", "be", "brief", "reminder"}]
CallIdsAsked == {callA, callB}

TextBlock(t, mark) == [type |-> "text", text |-> t, mark |-> mark]
Image(n, type) ==
    [type |-> "image", source |-> [type |-> type, shows |-> User(n, "image")[1]], mark |-> TRUE]
Document == [type |-> "document", mark |-> FALSE]
Documents == {Document}
Result(call, content) ==
    [type |-> "tool_result", toolUseId |-> call.id, content |-> content, mark |-> TRUE]
Blocks(blocks) == [form |-> "blocks", blocks |-> blocks]
By(role, content) == [role |-> role, content |-> content]

AllSystems ==
    {Absent, Blocks(<<TextBlock(System("be"), TRUE), TextBlock(<< >>, FALSE), TextBlock(System("brief"), FALSE)>>)}

Prompt(n) == By("user", Text(User(n, "prompt")))
MarkedPrompt(n) ==
    By("user", Blocks(<<TextBlock(User(n, "prompt"), TRUE), Image(n, "url"), Document>>))
BadPrompt(n) == By("user", Blocks(<<Image(n, "file")>>))
Reminder(n) == By("system", Text(<<[turn |-> n, by |-> "system", part |-> "reminder"]>>))

(* Results of the calls, in the order of the calls or the other way round, *)
(* as text, as parts, with an image, and perhaps with text behind them.    *)
Answered(n, calls) ==
    LET text == [i \in 1 .. Len(calls) |-> Result(calls[i], Text(User(n, calls[i].id)))]
        parts == [i \in 1 .. Len(calls) |->
                     Result(calls[i], Blocks(<<TextBlock(User(n, calls[i].id), FALSE), TextBlock(<< >>, FALSE)>>))]
        seen == [i \in 1 .. Len(calls) |->
                    Result(calls[i], Blocks(<<Image(n, "base64"), TextBlock(User(n, calls[i].id), TRUE)>>))]
    IN  {<<By("user", Blocks(Reverse(text)))>>,
         <<By("user", Blocks(parts \o <<TextBlock(User(n, "more"), TRUE)>>))>>,
         <<By("user", Blocks(<<TextBlock(User(n, "before"), FALSE)>> \o text))>>,
         <<By("user", Blocks(seen)), Reminder(n)>>}
AllTurns(n, calls) ==
    IF calls # << >> THEN Answered(n, calls)
    ELSE {<<Prompt(n)>>, <<Reminder(n), MarkedPrompt(n)>>, <<BadPrompt(n)>>}

(* Replies: plain text, reasoning under either name, parts, calls with and *)
(* without arguments, arguments that are not JSON, nothing, an error.      *)
NoMessage == [content |-> Absent, calls |-> << >>, reasoning |-> << >>, reasoningContent |-> << >>]
CallTo(id, arguments) == [id |-> id, arguments |-> arguments]
Respond(message, finish, usage) ==
    [error |-> FALSE, choices |-> <<[message |-> message, finish |-> finish]>>, usage |-> usage]
(* Bills: a gateway's counters and the provider's details, or either, or   *)
(* neither; a hit in both, in one where the other has none, and one that   *)
(* exceeds the prompt.                                                     *)
Bill(cacheRead, cacheCreation, cached, written) ==
    [prompt |-> 5, completion |-> 2, cacheRead |-> cacheRead, cacheCreation |-> cacheCreation,
     detailsCached |-> cached, detailsWritten |-> written]

Broken == <<[turn |-> 0, by |-> "provider", part |-> "{"]>>
BrokenArguments == {Broken}
AllReplies(n) ==
    LET plain == [NoMessage EXCEPT !.content = Text(Provider(n, "text"))]
        thought == [plain EXCEPT !.reasoning = Provider(n, "thought")]
        twice == [NoMessage EXCEPT !.reasoningContent = Provider(n, "thought"),
                                   !.content = Parts(<<[type |-> "text", text |-> Provider(n, "one")],
                                                       [type |-> "refusal", text |-> Provider(n, "no")],
                                                       [type |-> "text", text |-> Provider(n, "two")]>>)]
        calling == [plain EXCEPT !.reasoningContent = Provider(n, "thought"),
                                 !.calls = <<CallTo(callA, Provider(n, "arguments")), CallTo(callB, << >>)>>]
        broken == [NoMessage EXCEPT !.calls = <<CallTo(callA, Broken)>>]
    IN  {Respond(thought, "stop", Bill(3, Nil, 3, 1)), Respond(twice, "length", Bill(Nil, Nil, 2, 1)),
         Respond(calling, "tool_calls", Bill(Nil, Nil, Nil, Nil)), Respond(broken, "tool_calls", Nil),
         Respond(NoMessage, "stop", Bill(7, 2, Nil, Nil)), Respond(NoMessage, "stop", Bill(0, 0, 2, 1)),
         Respond(Nil, "stop", Nil),
         [error |-> TRUE, choices |-> << >>, usage |-> Nil]}
=============================================================================
