-------------------------------- MODULE Gate --------------------------------
(***************************************************************************)
(* What maxConcurrent promises, whatever counts the slots: each provider   *)
(* has a set of handlers that are inside it, a handler is inside at most   *)
(* one provider, and a provider that is limited never holds more handlers  *)
(* than its limit.  MaxConcurrent[p] = 0 means that p has no gate.         *)
(***************************************************************************)
EXTENDS Naturals, FiniteSets

CONSTANTS Handlers,       \* goroutines serving requests
          Providers,      \* provider names
          MaxConcurrent   \* the provider's maxConcurrent attribute

VARIABLE inside           \* inside[p]: the handlers admitted to p

Limited(p) == MaxConcurrent[p] > 0

Init == inside = [p \in Providers |-> {}]

Enter(h, p) ==
    /\ \A q \in Providers : h \notin inside[q]
    /\ Limited(p) => Cardinality(inside[p]) < MaxConcurrent[p]
    /\ inside' = [inside EXCEPT ![p] = @ \cup {h}]

Leave(h, p) ==
    /\ h \in inside[p]
    /\ inside' = [inside EXCEPT ![p] = @ \ {h}]

Next == \E h \in Handlers, p \in Providers : Enter(h, p) \/ Leave(h, p)

Spec == Init /\ [][Next]_inside
=============================================================================
