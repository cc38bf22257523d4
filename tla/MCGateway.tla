----------------------------- MODULE MCGateway ------------------------------
(* Instances of Gateway for TLC.                                           *)
EXTENDS Gateway, TLC

CONSTANTS h1, h2, h3, pGated, pOpen

(* One provider with a gate and one without.                               *)
OneGate(limit) == [p \in Providers |-> IF p = pGated THEN limit ELSE 0]
LimitOne == OneGate(1)
LimitTwo == OneGate(2)

HandlerSymmetry == Permutations(Handlers)
=============================================================================
