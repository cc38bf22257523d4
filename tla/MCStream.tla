------------------------------ MODULE MCStream ------------------------------
(* Instances of StreamClient for TLC: a few chunks of every kind.          *)
EXTENDS StreamClient

CONSTANTS callA, callB

Nothing == [delta |-> TRUE, finish |-> "", reasoning |-> FALSE, text |-> FALSE,
            bad |-> FALSE, calls |-> << >>, usage |-> NoUsage]
With(index, args) == [index |-> index, args |-> args]
Bill == [prompt |-> 5, completion |-> 2, cached |-> 3, written |-> 1]
Overcached == [prompt |-> 2, completion |-> 1, cached |-> 3, written |-> 0]

Thinks == [Nothing EXCEPT !.reasoning = TRUE]
Says == [Nothing EXCEPT !.text = TRUE]
ThinksAndSays == [Thinks EXCEPT !.text = TRUE]
CallsA == [Nothing EXCEPT !.calls = <<With(callA, TRUE)>>]
AnnouncesB == [Nothing EXCEPT !.calls = <<With(callB, FALSE)>>]
CallsBoth == [Nothing EXCEPT !.calls = <<With(callA, TRUE), With(callB, TRUE)>>]
SaysAndCalls == [Says EXCEPT !.calls = <<With(callA, TRUE)>>]
Ends == [Nothing EXCEPT !.finish = "tool_calls", !.usage = Bill]
EndsAgain == [Says EXCEPT !.finish = "length", !.usage = Overcached]
BareUsage == [Nothing EXCEPT !.delta = FALSE, !.usage = Bill]
BareFinish == [Nothing EXCEPT !.delta = FALSE, !.finish = "length"]
BadContent == [Nothing EXCEPT !.bad = TRUE]

AllChunks == {Thinks, Says, ThinksAndSays, CallsA, AnnouncesB, CallsBoth, SaysAndCalls,
              Ends, EndsAgain, BareUsage, BareFinish, BadContent}
=============================================================================
