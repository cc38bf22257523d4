------------------------------ MODULE Service -------------------------------
(***************************************************************************)
(* What the life of the process promises to its clients: requests are      *)
(* taken once it is up, each is answered or given up by its client, and a  *)
(* process that ends well leaves nobody without an answer.  One that fails *)
(* cuts off whoever is still waiting.                                      *)
(***************************************************************************)
CONSTANT Conns

VARIABLES
    mode,       \* "down", "up", "clean" or "failed"
    waiting,    \* connections with a request that is not answered yet
    cut         \* connections that were cut off waiting

vars == <<mode, waiting, cut>>

Init == mode = "down" /\ waiting = {} /\ cut = {}

Up == mode = "down" /\ mode' = "up" /\ UNCHANGED <<waiting, cut>>

Take(c) ==
    /\ mode = "up"
    /\ waiting' = waiting \cup {c}
    /\ UNCHANGED <<mode, cut>>

(* Answered, or its client is gone.                                        *)
Release(c) ==
    /\ waiting' = waiting \ {c}
    /\ UNCHANGED <<mode, cut>>

EndWell ==
    /\ mode = "up" /\ waiting = {}
    /\ mode' = "clean"
    /\ UNCHANGED <<waiting, cut>>

Fail ==
    /\ mode \in {"down", "up"}
    /\ mode' = "failed"
    /\ cut' = waiting
    /\ waiting' = {}

Next == Up \/ EndWell \/ Fail \/ \E c \in Conns : Take(c) \/ Release(c)

Spec == Init /\ [][Next]_vars
=============================================================================
