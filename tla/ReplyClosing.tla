---------------------------- MODULE ReplyClosing ----------------------------
(***************************************************************************)
(* How a reply of a Chat Completions provider is summed up for a Messages  *)
(* client: why it ended and what it cost.  Streamed and whole replies      *)
(* share it.                                                               *)
(***************************************************************************)
EXTENDS Naturals

Reasons == {"", "stop", "length", "tool_calls", "content_filter"}
StopReasons == {"end_turn", "max_tokens", "tool_use", "refusal"}

(* respStopReason                                                          *)
StopReason(finish) ==
    CASE finish = "length" -> "max_tokens"
      [] finish = "tool_calls" -> "tool_use"
      [] finish = "content_filter" -> "refusal"
      [] OTHER -> "end_turn"

Usage == [prompt : Nat, completion : Nat, cached : Nat, written : Nat]
Totals == [input : Nat, output : Nat, cacheRead : Nat, cacheWrite : Nat]
NoTotals == [input |-> 0, output |-> 0, cacheRead |-> 0, cacheWrite |-> 0]

(* Slip: cached tokens are reported a second time as input.                *)
CountCachedTwice(u) ==
    [input |-> u.prompt, output |-> u.completion,
     cacheRead |-> u.cached, cacheWrite |-> u.written]

(* Slip: providers whose cached tokens exceed their prompt are trusted.    *)
CountUnclamped(u) ==
    [input |-> u.prompt - u.cached, output |-> u.completion,
     cacheRead |-> u.cached, cacheWrite |-> u.written]

(* Anthropic's input excludes what was read from the cache.                *)
Count(u) ==
    [input |-> IF u.prompt < u.cached THEN 0 ELSE u.prompt - u.cached,
     output |-> u.completion, cacheRead |-> u.cached, cacheWrite |-> u.written]
=============================================================================
