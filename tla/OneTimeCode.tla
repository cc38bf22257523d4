---------------------------- MODULE OneTimeCode -----------------------------
(***************************************************************************)
(* What a code of the sign-in flow promises: it is issued once, taken at   *)
(* most once, and only while it is live; only the one who took it can turn *)
(* it into a token, once.  A code that lapses, because it expired, was     *)
(* refused or the gateway restarted, never comes back.                     *)
(***************************************************************************)
EXTENDS Naturals

CONSTANT Codes

VARIABLES state,   \* state[c]
          tokens   \* tokens[c]: tokens handed out for c

ovars == <<state, tokens>>

Init ==
    /\ state = [c \in Codes |-> "unissued"]
    /\ tokens = [c \in Codes |-> 0]

Becomes(c, from, to) == state[c] = from /\ state' = [state EXCEPT ![c] = to]

Issue(c) == Becomes(c, "unissued", "live") /\ UNCHANGED tokens

Take(c) == Becomes(c, "live", "taken") /\ UNCHANGED tokens

Grant(c) ==
    /\ Becomes(c, "taken", "dead")
    /\ tokens' = [tokens EXCEPT ![c] = @ + 1]

Lapse ==
    \E S \in SUBSET {c \in Codes : state[c] \in {"live", "taken"}} :
        /\ state' = [c \in Codes |-> IF c \in S THEN "dead" ELSE state[c]]
        /\ UNCHANGED tokens

Next == (\E c \in Codes : Issue(c) \/ Take(c) \/ Grant(c)) \/ Lapse

Spec == Init /\ [][Next]_ovars
=============================================================================
