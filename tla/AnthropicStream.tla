-------------------------- MODULE AnthropicStream ---------------------------
(***************************************************************************)
(* The shape of a streamed Messages reply that a client of the Messages    *)
(* API can rely on: message_start first; then content blocks, numbered     *)
(* from 0 without gaps, one at a time, each started once, filled by deltas *)
(* that carry its index and stopped once; then one message_delta, and one  *)
(* message_stop.  The reply may break off anywhere.  Payloads are left     *)
(* out: an event is its name and the index it carries.                     *)
(***************************************************************************)
EXTENDS Naturals, Sequences

CONSTANT NoBlock

VARIABLES out,       \* events sent
          started,   \* content blocks started
          live       \* index of the block that is open, or NoBlock

svars == <<out, started, live>>

Event(name, index) == [name |-> name, index |-> index]
Send(name, index) == out' = Append(out, Event(name, index))

Latest == IF out = << >> THEN "nothing" ELSE out[Len(out)].name
InMessage == Latest \notin {"nothing", "message_delta", "message_stop"}

Init == out = << >> /\ started = 0 /\ live = NoBlock

MessageStart ==
    /\ out = << >>
    /\ Send("message_start", NoBlock)
    /\ UNCHANGED <<started, live>>

BlockStart ==
    /\ InMessage /\ live = NoBlock
    /\ Send("content_block_start", started)
    /\ started' = started + 1
    /\ live' = started

BlockDelta ==
    /\ InMessage /\ live # NoBlock
    /\ Send("content_block_delta", live)
    /\ UNCHANGED <<started, live>>

BlockStop ==
    /\ InMessage /\ live # NoBlock
    /\ Send("content_block_stop", live)
    /\ live' = NoBlock
    /\ UNCHANGED started

MessageDelta ==
    /\ InMessage /\ live = NoBlock
    /\ Send("message_delta", NoBlock)
    /\ UNCHANGED <<started, live>>

MessageStop ==
    /\ Latest = "message_delta"
    /\ Send("message_stop", NoBlock)
    /\ UNCHANGED <<started, live>>

Next == MessageStart \/ BlockStart \/ BlockDelta \/ BlockStop \/ MessageDelta \/ MessageStop

Spec == Init /\ [][Next]_svars
=============================================================================
