--------------------------- MODULE CodeStoreProofs --------------------------
(***************************************************************************)
(* Theorems about CodeStore for any number of handlers and codes, any      *)
(* lifetimes and any end of the clock.                                     *)
(***************************************************************************)
EXTENDS CodeStore, TLAPS

(* Who works on a code.                                                    *)
Free(c) == \A h \in Handlers : held[h] # c

(* A value not drawn yet is nowhere; a stored code has no holder; a code   *)
(* has one holder at most; and a code that is stored or held has not been  *)
(* turned into a token.                                                    *)
OneOwner ==
    /\ \A c \in Codes : c \notin drawn => ~Stored(c) /\ Free(c)
    /\ \A c \in Codes : Stored(c) => Free(c)
    /\ \A g, h \in Handlers : held[g] # NoCode /\ held[g] = held[h] => g = h
    /\ \A c \in Codes : (c \notin drawn \/ Stored(c) \/ ~Free(c)) => tokens[c] = 0

IInv == TypeOK /\ OneOwner /\ AtMostOneToken

USE KindAssumption, TTLAssumption, TimeAssumption, NoneAssumption

(* The invariant holds at the start.                                       *)
LEMMA InitEstablishes == Init => IInv
  BY DEF Init, IInv, TypeOK, OneOwner, AtMostOneToken, Free, Stored, Places

(* Every step keeps it: a code changes owner only by a draw, a put or a    *)
(* take, each of which leaves the previous owner without it.               *)
LEMMA StepPreserves == IInv /\ [Next]_vars => IInv'
<1> SUFFICES ASSUME IInv, [Next]_vars PROVE IInv'
  OBVIOUS
<1> USE DEF IInv, Stored, Places
<1>1. ASSUME NEW h \in Handlers, NEW c \in Codes, Draw(h, c) PROVE IInv'
  <2>1. TypeOK'
    BY <1>1 DEF Draw, Work, Expiry, TypeOK, Kinds
  <2>2. OneOwner'
    BY <1>1 DEF Draw, Work, TypeOK, OneOwner, Free
  <2>3. AtMostOneToken'
    BY <1>1 DEF Draw, AtMostOneToken
  <2> QED BY <2>1, <2>2, <2>3
<1>2. ASSUME NEW h \in Handlers, NEW c \in Codes, Take(h, c) PROVE IInv'
  <2>1. TypeOK'
    BY <1>2 DEF Take, Work, TypeOK
  <2>2. OneOwner'
    BY <1>2 DEF Take, Work, TypeOK, OneOwner, Free
  <2>3. AtMostOneToken'
    BY <1>2 DEF Take, AtMostOneToken
  <2> QED BY <2>1, <2>2, <2>3
<1>3. ASSUME NEW h \in Handlers, Put(h) PROVE IInv'
  <2>1. TypeOK'
    BY <1>3 DEF Put, Return, Work, TypeOK
  <2>2. OneOwner'
    BY <1>3 DEF Put, Return, Work, TypeOK, OneOwner, Free
  <2>3. AtMostOneToken'
    BY <1>3 DEF Put, AtMostOneToken
  <2> QED BY <2>1, <2>2, <2>3
<1>4. ASSUME NEW h \in Handlers, Verify(h) PROVE IInv'
  BY <1>4 DEF Verify, Work, TypeOK, OneOwner, Free, AtMostOneToken
<1>5. ASSUME NEW h \in Handlers, Reject(h) PROVE IInv'
  BY <1>5 DEF Reject, Return, Work, TypeOK, OneOwner, Free, AtMostOneToken
<1>6. ASSUME NEW h \in Handlers, Grant(h) PROVE IInv'
  <2>1. held[h] \in Codes /\ tokens[held[h]] = 0
    BY <1>6 DEF Grant, TypeOK, OneOwner, Free
  <2>2. TypeOK'
    BY <1>6, <2>1 DEF Grant, Return, Work, TypeOK
  <2>3. OneOwner'
    BY <1>6, <2>1 DEF Grant, Return, Work, TypeOK, OneOwner, Free
  <2>4. AtMostOneToken'
    BY <1>6, <2>1 DEF Grant, TypeOK, AtMostOneToken
  <2> QED BY <2>2, <2>3, <2>4
<1>7. CASE Tick
  BY <1>7 DEF Tick, TypeOK, OneOwner, Free, AtMostOneToken
<1>8. CASE Restart
  BY <1>8 DEF Restart, TypeOK, OneOwner, Free, AtMostOneToken
<1>9. CASE UNCHANGED vars
  BY <1>9 DEF vars, TypeOK, OneOwner, Free, AtMostOneToken
<1> QED
  BY <1>1, <1>2, <1>3, <1>4, <1>5, <1>6, <1>7, <1>8, <1>9 DEF Next

(* The invariant holds throughout.                                         *)
THEOREM Invariant == Spec => []IInv
  BY InitEstablishes, StepPreserves, PTL DEF Spec

(* Handlers, codes, clock and counters keep their types.                   *)
THEOREM TypeCorrect == Spec => []TypeOK
  BY Invariant, PTL DEF IInv

(* One token at most comes of a code, however many handlers race for it.   *)
THEOREM CodesAreUsedOnce == Spec => []AtMostOneToken
  BY Invariant, PTL DEF IInv

(* A put sweeps nothing that is still live.                                *)
THEOREM LiveCodesAreKept == Spec => LiveCodesStay
<1> DEFINE Stays ==
      \A c \in Codes :
          (Stored(c) /\ ~Expired(c) /\ store'[c] = Absent) =>
              \/ \E h \in Handlers : Redeems(h, c)
              \/ Restart
<1>1. IInv /\ [Next]_vars => [Stays]_vars
  <2> SUFFICES ASSUME IInv, [Next]_vars, NEW c \in Codes,
                      Stored(c), ~Expired(c), store'[c] = Absent, ~Restart
               PROVE  \/ \E h \in Handlers : Redeems(h, c)
                      \/ UNCHANGED vars
    OBVIOUS
  <2> USE DEF IInv, TypeOK, Stored, Expired
  <2>1. ASSUME NEW h \in Handlers, NEW d \in Codes, Draw(h, d) PROVE FALSE
    BY <2>1 DEF Draw
  <2>2. ASSUME NEW h \in Handlers, NEW d \in Codes, Take(h, d) PROVE Redeems(h, c)
    BY <2>2 DEF Take, Work, Redeems
  <2>3. ASSUME NEW h \in Handlers, Put(h) PROVE FALSE
    BY <2>3 DEF Put, Swept
  <2>4. ASSUME NEW h \in Handlers, Verify(h) \/ Reject(h) \/ Grant(h) PROVE FALSE
    BY <2>4 DEF Verify, Reject, Grant
  <2>5. ASSUME Tick PROVE FALSE
    BY <2>5 DEF Tick
  <2> QED
    BY <2>1, <2>2, <2>3, <2>4, <2>5 DEF Next
<1> QED
  BY <1>1, Invariant, PTL DEF Spec, LiveCodesStay

-----------------------------------------------------------------------------
(* The abstract code of OneTimeCode.                                       *)

(* The start of the store is the start of every code's life.               *)
LEMMA RefinesInit == Init => Abstract!Init
  BY DEF Init, Abstract!Init, Life, LifeOf

(* A step after which no code is further in its life than dead, and which  *)
(* leaves the lives of the others alone, is a lapse.                       *)
LEMMA LapseOf ==
  ASSUME NEW S \in SUBSET Codes,
         \A c \in S : LifeOf(c) \in {"live", "taken"} /\ LifeOf(c)' = "dead",
         \A c \in Codes \ S : LifeOf(c)' = LifeOf(c),
         UNCHANGED tokens
  PROVE  Abstract!Lapse
<1>1. S \in SUBSET {c \in Codes : Life[c] \in {"live", "taken"}}
  BY DEF Life
<1>2. Life' = [c \in Codes |-> IF c \in S THEN "dead" ELSE Life[c]]
  BY DEF Life
<1> QED
  BY <1>1, <1>2 DEF Abstract!Lapse

(* Every step of the handlers is a step of the codes' lives, or none.      *)
LEMMA RefinesNext == IInv /\ IInv' /\ [Next]_vars => [Abstract!Next]_(Abstract!ovars)
<1> SUFFICES ASSUME IInv, IInv', [Next]_vars
             PROVE  Abstract!Next \/ UNCHANGED Abstract!ovars
  OBVIOUS
<1> USE DEF IInv, TypeOK, Stored, Places
<1> HIDE KindAssumption, TTLAssumption, TimeAssumption
<1>0. ASSUME \A c \in Codes : LifeOf(c)' = LifeOf(c), UNCHANGED tokens
      PROVE  UNCHANGED Abstract!ovars
  BY <1>0 DEF Life, Abstract!ovars
<1>1. ASSUME NEW h \in Handlers, NEW c \in Codes, Draw(h, c) PROVE Abstract!Issue(c)
  <2>1. LifeOf(c) = "unissued" /\ LifeOf(c)' = "live"
    BY <1>1 DEF Draw, Work, LifeOf, Issuing
  <2>2. ASSUME NEW d \in Codes, d # c PROVE LifeOf(d)' = LifeOf(d)
    BY <1>1, <2>2 DEF Draw, Work, LifeOf, Issuing, Redeeming
  <2>3. Life' = [Life EXCEPT ![c] = "live"]
    BY <2>1, <2>2 DEF Life
  <2> QED
    BY <1>1, <2>1, <2>3 DEF Draw, Life, Abstract!Issue, Abstract!Becomes
<1>2. ASSUME NEW h \in Handlers, NEW c \in Codes, Take(h, c)
      PROVE  Abstract!Take(c) \/ Abstract!Lapse \/ UNCHANGED Abstract!ovars
  <2>1. ASSUME NEW d \in Codes, d # c PROVE LifeOf(d)' = LifeOf(d)
    BY <1>2, <2>1 DEF Take, Work, LifeOf, Issuing, Redeeming
  <2>2. CASE Stored(c) /\ ~Expired(c)
    <3>1. LifeOf(c) = "live"
      BY <1>2, <2>2 DEF Take, LifeOf
    <3>2. LifeOf(c)' = "taken"
      BY <1>2, <2>2 DEF Take, Work, LifeOf, Issuing, Redeeming, OneOwner
    <3>3. Life' = [Life EXCEPT ![c] = "taken"]
      BY <2>1, <3>2 DEF Life
    <3> QED
      BY <1>2, <3>1, <3>3 DEF Take, Life, Abstract!Take, Abstract!Becomes
  <2>3. CASE Expired(c)
    <3>1. LifeOf(c) = "live"
      BY <1>2, <2>3 DEF Take, LifeOf, Expired
    <3>2. LifeOf(c)' = "dead"
      BY <1>2, <2>3 DEF Take, LifeOf, Expired, Issuing, Redeeming, OneOwner, Free
    <3> QED
      BY <1>2, <2>1, <3>1, <3>2, LapseOf, {c} \in SUBSET Codes DEF Take
  <2>4. CASE ~Stored(c)
    <3>1. store' = store /\ UNCHANGED <<pc, held, drawn, tokens>>
      BY <1>2, <2>4 DEF Take
    <3>2. \A d \in Codes : LifeOf(d)' = LifeOf(d)
      BY <3>1 DEF LifeOf, Issuing, Redeeming
    <3> QED
      BY <1>0, <3>1, <3>2
  <2> QED
    BY <2>2, <2>3, <2>4 DEF Expired
<1>3. ASSUME NEW h \in Handlers, Put(h) PROVE Abstract!Lapse
  <2> DEFINE S == {c \in Codes : c # held[h] /\ Swept(c, Kind[held[h]])}
  <2>1. ASSUME NEW c \in S PROVE LifeOf(c) = "live" /\ LifeOf(c)' = "dead"
    <3>1. Stored(c) /\ ~Stored(c)' /\ Free(c) /\ Free(c)' /\ c \in drawn /\ c \in drawn'
      BY <1>3 DEF Put, Return, Work, OneOwner, Free, Swept, Expired
    <3> QED
      BY <3>1 DEF LifeOf, Issuing, Redeeming, Free
  <2>2. held[h] \in Codes /\ held[h] \in drawn
    BY <1>3 DEF Put, OneOwner, Free
  <2>3. LifeOf(held[h]) = "live"
    BY <1>3, <2>2 DEF Put, LifeOf, Issuing
  <2>4. ASSUME NEW c \in Codes, c = held[h] PROVE LifeOf(c)' = "live"
    BY <1>3, <2>2, <2>4 DEF Put, LifeOf
  <2>5. ASSUME NEW c \in Codes \ S, c # held[h] PROVE LifeOf(c)' = LifeOf(c)
    <3>1. Stored(c)' = Stored(c) /\ drawn' = drawn
      BY <1>3, <2>5 DEF Put
    <3>2. Issuing(c)' = Issuing(c) /\ Redeeming(c)' = Redeeming(c)
      BY <1>3, <2>5 DEF Put, Return, Work, Issuing, Redeeming
    <3> QED
      BY <3>1, <3>2 DEF LifeOf
  <2>6. \A c \in Codes \ S : LifeOf(c)' = LifeOf(c)
    BY <2>3, <2>4, <2>5
  <2> QED
    BY <1>3, <2>1, <2>6, LapseOf, S \in SUBSET Codes DEF Put
<1>4. ASSUME NEW h \in Handlers, Verify(h) PROVE UNCHANGED Abstract!ovars
  <2>1. \A c \in Codes : LifeOf(c)' = LifeOf(c)
    BY <1>4 DEF Verify, Work, LifeOf, Issuing, Redeeming
  <2> QED
    BY <1>0, <1>4, <2>1 DEF Verify
<1>5. ASSUME NEW h \in Handlers, Reject(h) PROVE Abstract!Lapse
  <2>1. held[h] \in Codes /\ LifeOf(held[h]) = "taken"
    BY <1>5 DEF Reject, LifeOf, Issuing, Redeeming, OneOwner, Free
  <2>2. ASSUME NEW c \in Codes, c = held[h] PROVE LifeOf(c)' = "dead"
    BY <1>5, <2>1, <2>2 DEF Reject, Return, Work, LifeOf, Issuing, Redeeming, OneOwner, Free
  <2>3. ASSUME NEW c \in Codes, c # held[h] PROVE LifeOf(c)' = LifeOf(c)
    BY <1>5, <2>3 DEF Reject, Return, Work, LifeOf, Issuing, Redeeming
  <2> QED
    BY <1>5, <2>1, <2>2, <2>3, LapseOf, {held[h]} \in SUBSET Codes DEF Reject
<1>6. ASSUME NEW h \in Handlers, Grant(h) PROVE Abstract!Grant(held[h])
  <2>1. held[h] \in Codes /\ LifeOf(held[h]) = "taken"
    BY <1>6 DEF Grant, LifeOf, Issuing, Redeeming, OneOwner, Free
  <2>2. ASSUME NEW c \in Codes, c = held[h] PROVE LifeOf(c)' = "dead"
    BY <1>6, <2>1, <2>2 DEF Grant, Return, Work, LifeOf, Issuing, Redeeming, OneOwner, Free
  <2>3. ASSUME NEW c \in Codes, c # held[h] PROVE LifeOf(c)' = LifeOf(c)
    BY <1>6, <2>3 DEF Grant, Return, Work, LifeOf, Issuing, Redeeming
  <2>4. Life' = [Life EXCEPT ![held[h]] = "dead"]
    BY <2>2, <2>3 DEF Life
  <2> QED
    BY <1>6, <2>1, <2>4 DEF Grant, Life, Abstract!Grant, Abstract!Becomes
<1>7. ASSUME Tick PROVE UNCHANGED Abstract!ovars
  <2>1. \A c \in Codes : LifeOf(c)' = LifeOf(c)
    BY <1>7 DEF Tick, LifeOf, Issuing, Redeeming
  <2> QED
    BY <1>0, <1>7, <2>1 DEF Tick
<1>8. ASSUME Restart PROVE Abstract!Lapse
  <2> DEFINE S == {c \in Codes : LifeOf(c) \in {"live", "taken"}}
  <2>1. ASSUME NEW c \in Codes, c \in drawn PROVE LifeOf(c)' = "dead"
    BY <1>8, <2>1 DEF Restart, LifeOf, Issuing, Redeeming
  <2>2. ASSUME NEW c \in Codes, c \notin drawn PROVE LifeOf(c)' = "unissued"
    BY <1>8, <2>2 DEF Restart, LifeOf
  <2>3. \A c \in S : LifeOf(c)' = "dead"
    BY <2>1 DEF LifeOf
  <2>4. \A c \in Codes \ S : LifeOf(c)' = LifeOf(c)
    BY <2>1, <2>2 DEF LifeOf
  <2> QED
    BY <1>8, <2>3, <2>4, LapseOf, S \in SUBSET Codes DEF Restart
<1>9. ASSUME UNCHANGED vars PROVE UNCHANGED Abstract!ovars
  <2>1. \A c \in Codes : LifeOf(c)' = LifeOf(c)
    BY <1>9 DEF vars, LifeOf, Issuing, Redeeming
  <2> QED
    BY <1>0, <1>9, <2>1 DEF vars
<1> QED
  <2>1. ASSUME NEW h \in Handlers, NEW c \in Codes, Draw(h, c) \/ Take(h, c)
        PROVE  Abstract!Next \/ UNCHANGED Abstract!ovars
    BY <1>1, <1>2, <2>1 DEF Abstract!Next
  <2>2. ASSUME NEW h \in Handlers, Put(h) \/ Verify(h) \/ Reject(h) \/ Grant(h)
        PROVE  Abstract!Next \/ UNCHANGED Abstract!ovars
    <3>1. Grant(h) => held[h] \in Codes
      BY DEF Grant
    <3> QED
      BY <1>3, <1>4, <1>5, <1>6, <2>2, <3>1 DEF Abstract!Next
  <2> QED
    BY <1>7, <1>8, <1>9, <2>1, <2>2 DEF Next, Abstract!Next

(* Handlers, store, clock and restarts implement one-time codes.           *)
THEOREM StoreImplementsOneTimeCode == Spec => ImplementsOneTimeCode
<1>1. Init => Abstract!Init
  BY RefinesInit
<1>2. IInv /\ IInv' /\ [Next]_vars => [Abstract!Next]_(Abstract!ovars)
  BY RefinesNext
<1> QED
  BY <1>1, <1>2, Invariant, PTL DEF Spec, ImplementsOneTimeCode, Abstract!Spec
=============================================================================
