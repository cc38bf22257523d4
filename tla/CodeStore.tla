----------------------------- MODULE CodeStore ------------------------------
(***************************************************************************)
(* The sign-in codes of oauth.go: handlers that issue them, the store with *)
(* its lock, and handlers that redeem them, with a clock and restarts.     *)
(*                                                                         *)
(* Authorization codes and device codes live in two maps behind one lock.  *)
(* A code is one of the two for good, so one function holds both maps and  *)
(* Kind tells them apart.  randomToken never repeats a value.  A code      *)
(* presented under the other grant type is not found and changes nothing;  *)
(* that is no step here, nor are requests turned down for their shape.     *)
(***************************************************************************)
EXTENDS Naturals

CONSTANTS
    Handlers,   \* goroutines that serve requests
    Codes,      \* values randomToken returns
    Kind,       \* "auth" or "device", for each code
    TTL,        \* authCodeTTL and deviceCodeTTL
    MaxTime,    \* bound: the last instant of the clock
    NoCode,     \* a handler that works on no code
    Absent      \* a code the store does not hold

Kinds == {"auth", "device"}

ASSUME KindAssumption == Kind \in [Codes -> Kinds]
ASSUME TTLAssumption == TTL \in [Kinds -> Nat]
ASSUME TimeAssumption == MaxTime \in Nat
ASSUME NoneAssumption == NoCode \notin Codes /\ Absent \notin Nat

VARIABLES
    now,      \* time.Now()
    store,    \* store[c]: when c expires, for the codes in the maps
    pc,       \* where each handler is
    held,     \* the code it works on
    expires,  \* the expiry an issuing handler has computed
    drawn,    \* codes randomToken has returned
    tokens    \* tokens[c]: tokens handed out for c

vars == <<now, store, pc, held, expires, drawn, tokens>>

Places == {"idle", "put", "verify", "token"}

Init ==
    /\ now = 0
    /\ store = [c \in Codes |-> Absent]
    /\ pc = [h \in Handlers |-> "idle"]
    /\ held = [h \in Handlers |-> NoCode]
    /\ expires = [h \in Handlers |-> 0]
    /\ drawn = {}
    /\ tokens = [c \in Codes |-> 0]

(* time.Now().After(expires)                                               *)
Stored(c) == store[c] # Absent
Expired(c) == Stored(c) /\ now > store[c]

Work(h, place, c) ==
    /\ pc' = [pc EXCEPT ![h] = place]
    /\ held' = [held EXCEPT ![h] = c]
Return(h) == Work(h, "idle", NoCode) /\ expires' = [expires EXCEPT ![h] = 0]

(* Slip: the lifetime is subtracted.                                       *)
ExpiryBackwards(c) == now - TTL[Kind[c]]

Expiry(c) == now + TTL[Kind[c]]

(* handleAuthorize and handleDeviceAuthorization draw a code and compute   *)
(* its expiry before they take the lock.                                   *)
Draw(h, c) ==
    /\ pc[h] = "idle"
    /\ c \notin drawn
    /\ Work(h, "put", c)
    /\ expires' = [expires EXCEPT ![h] = Expiry(c)]
    /\ drawn' = drawn \cup {c}
    /\ UNCHANGED <<now, store, tokens>>

(* Slip: the sweep drops what has not expired yet.                         *)
SweptEarly(c, kind) == Kind[c] = kind /\ Stored(c) /\ now >= store[c]

Swept(c, kind) == Kind[c] = kind /\ Expired(c)

(* put and putDevice: the sweep of the code's own map, then the code.      *)
Put(h) ==
    /\ pc[h] = "put"
    /\ store' = [c \in Codes |->
                    IF c = held[h] THEN expires[h]
                    ELSE IF Swept(c, Kind[held[h]]) THEN Absent ELSE store[c]]
    /\ Return(h)
    /\ UNCHANGED <<now, drawn, tokens>>

(* Slip: the code is looked up but not deleted.                            *)
TakeLeavingCode(h, c) ==
    /\ pc[h] = "idle"
    /\ c \in drawn
    /\ Stored(c) /\ ~Expired(c)
    /\ Work(h, IF Kind[c] = "auth" THEN "verify" ELSE "token", c)
    /\ UNCHANGED <<now, store, expires, drawn, tokens>>

(* take and takeDevice: the code is deleted before its expiry is looked    *)
(* at.  An authorization code still has to match redirect and verifier.    *)
Take(h, c) ==
    /\ pc[h] = "idle"
    /\ c \in drawn
    /\ store' = [store EXCEPT ![c] = Absent]
    /\ IF Stored(c) /\ ~Expired(c)
       THEN Work(h, IF Kind[c] = "auth" THEN "verify" ELSE "token", c)
       ELSE UNCHANGED <<pc, held>>
    /\ UNCHANGED <<now, expires, drawn, tokens>>

(* redirect_uri and code_verifier match.                                   *)
Verify(h) ==
    /\ pc[h] = "verify"
    /\ Work(h, "token", held[h])
    /\ UNCHANGED <<now, store, expires, drawn, tokens>>

(* Slip: a code whose verifier did not match is put back for another try.  *)
RejectPuttingBack(h) ==
    /\ pc[h] = "verify"
    /\ store' = [store EXCEPT ![held[h]] = now]
    /\ Return(h)
    /\ UNCHANGED <<now, drawn, tokens>>

(* They do not: 400, and the code is gone.                                 *)
Reject(h) ==
    /\ pc[h] = "verify"
    /\ Return(h)
    /\ UNCHANGED <<now, store, drawn, tokens>>

(* writeToken                                                              *)
Grant(h) ==
    /\ pc[h] = "token"
    /\ tokens' = [tokens EXCEPT ![held[h]] = @ + 1]
    /\ Return(h)
    /\ UNCHANGED <<now, store, drawn>>

Tick ==
    /\ now < MaxTime
    /\ now' = now + 1
    /\ UNCHANGED <<store, pc, held, expires, drawn, tokens>>

(* The maps live in memory and the handlers end with the process.          *)
Restart ==
    /\ store' = [c \in Codes |-> Absent]
    /\ pc' = [h \in Handlers |-> "idle"]
    /\ held' = [h \in Handlers |-> NoCode]
    /\ expires' = [h \in Handlers |-> 0]
    /\ UNCHANGED <<now, drawn, tokens>>

Next ==
    \/ \E h \in Handlers, c \in Codes : Draw(h, c) \/ Take(h, c)
    \/ \E h \in Handlers : Put(h) \/ Verify(h) \/ Reject(h) \/ Grant(h)
    \/ Tick
    \/ Restart

Spec == Init /\ [][Next]_vars

-----------------------------------------------------------------------------
(* Properties.                                                             *)

(* Every variable has its type, and a handler works on a code exactly when *)
(* it is not idle.                                                         *)
TypeOK ==
    /\ now \in 0 .. MaxTime
    /\ store \in [Codes -> Nat \cup {Absent}]
    /\ pc \in [Handlers -> Places]
    /\ held \in [Handlers -> Codes \cup {NoCode}]
    /\ \A h \in Handlers : pc[h] = "idle" <=> held[h] = NoCode
    /\ expires \in [Handlers -> Nat]
    /\ drawn \in SUBSET Codes
    /\ tokens \in [Codes -> Nat]

(* However many handlers are given the same code, at whatever moment, at   *)
(* most one token comes of it, restarts included.                          *)
AtMostOneToken == \A c \in Codes : tokens[c] <= 1

Redeems(h, c) == pc[h] = "idle" /\ pc'[h] \in {"verify", "token"} /\ held'[h] = c

(* Another sign-in never costs a client its code: a code that has not      *)
(* expired leaves the store only with the handler that redeems it, or at a *)
(* restart.                                                                *)
LiveCodesStay ==
    [][\A c \in Codes :
          (Stored(c) /\ ~Expired(c) /\ store'[c] = Absent) =>
              \/ \E h \in Handlers : Redeems(h, c)
              \/ Restart]_vars

-----------------------------------------------------------------------------
(* How far a code is in its life, for the abstract code.                   *)
Redeeming(c) == \E h \in Handlers : held[h] = c /\ pc[h] \in {"verify", "token"}
Issuing(c) == \E h \in Handlers : held[h] = c /\ pc[h] = "put"
LifeOf(c) ==
    IF c \notin drawn THEN "unissued"
    ELSE IF Stored(c) \/ Issuing(c) THEN "live"
    ELSE IF Redeeming(c) THEN "taken"
    ELSE "dead"
Life == [c \in Codes |-> LifeOf(c)]

Abstract == INSTANCE OneTimeCode WITH state <- Life

(* A code goes through its life in one direction: what was taken, refused, *)
(* swept or lost is never live again, and a token comes of a code that was *)
(* taken and of no other.                                                  *)
ImplementsOneTimeCode == Abstract!Spec
=============================================================================
