---------------------------- MODULE MCCodeStore -----------------------------
(* An instance of CodeStore for TLC: two codes of each kind, so that a     *)
(* sweep meets codes it must spare and codes it must not.                  *)
EXTENDS CodeStore, TLC

CONSTANTS h1, h2, h3, a1, a2, d1, d2

KindOf == [c \in Codes |-> IF c \in {d1, d2} THEN "device" ELSE "auth"]
Lifetime == [kind \in Kinds |-> IF kind = "auth" THEN 1 ELSE 2]

HandlerSymmetry == Permutations(Handlers)
=============================================================================
