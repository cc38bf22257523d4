--------------------------- MODULE SequenceLemmas ---------------------------
(***************************************************************************)
(* What the proofs need to know of FlattenSeq, and the induction that it   *)
(* takes: over a set of numbers, from the least-element principle.         *)
(***************************************************************************)
EXTENDS SequencesExt, SequenceTheorems, WellFoundedInduction, TLAPS

(* Every non-empty set of natural numbers has a least element.             *)
LEMMA LeastNumber ==
    ASSUME NEW T \in SUBSET Nat, T # {}
    PROVE  \E x \in T : \A y \in T : x <= y
<1> DEFINE R == OpToRel(<, Nat)
<1>1. IsWellFoundedOn(R, Nat)
  BY NatLessThanWellFounded
<1>2. \A x, y \in Nat : <<y, x>> \in R <=> y < x
  BY DEF OpToRel
<1> HIDE DEF R
<1>3. \E x \in T : \A y \in T : ~ (<<y, x>> \in R)
  BY <1>1, WFMin
<1>4. PICK x \in T : \A y \in T : ~ (<<y, x>> \in R)
  BY <1>3
<1>5. ASSUME NEW y \in T PROVE x <= y
  <2>1. x \in Nat /\ y \in Nat /\ ~ (<<y, x>> \in R)
    BY <1>4
  <2>2. ~ (y < x)
    BY <1>2, <2>1
  <2> QED BY <2>1, <2>2
<1> QED BY <1>5

(* A set that has zero and, with a number, the next one has all of them.   *)
LEMMA SetInduction ==
    ASSUME NEW S, 0 \in S, \A n \in Nat : n \in S => n + 1 \in S
    PROVE  \A n \in Nat : n \in S
<1> DEFINE T == Nat \ S
<1> SUFFICES ASSUME T # {} PROVE FALSE
  OBVIOUS
<1>1. PICK x \in T : \A y \in T : x <= y
  BY LeastNumber
<1>2. x \in Nat /\ x # 0 /\ x - 1 \in Nat /\ ~ (x <= x - 1)
  BY <1>1
<1>3. x - 1 \in S
  BY <1>1, <1>2
<1>4. (x - 1) + 1 = x
  BY <1>2
<1> QED BY <1>2, <1>3, <1>4

(* A set that has the empty list and, with a list, the longer ones, has    *)
(* all lists.                                                              *)
LEMMA ListInduction ==
    ASSUME NEW S, NEW T, << >> \in T, \A s \in Seq(S), e \in S : s \in T => Append(s, e) \in T
    PROVE  \A s \in Seq(S) : s \in T
<1> DEFINE N == {n \in Nat : \A s \in Seq(S) : Len(s) = n => s \in T}
<1>1. 0 \in N
  BY EmptySeq
<1>2. ASSUME NEW n \in Nat, n \in N PROVE n + 1 \in N
  <2> SUFFICES ASSUME NEW s \in Seq(S), Len(s) = n + 1 PROVE s \in T
    OBVIOUS
  <2>1. s # << >>
    BY EmptySeq
  <2>2. PICK t \in Seq(S), e \in S : s = Append(t, e)
    BY <2>1, SequenceEmptyOrAppend
  <2>3. Len(t) = n
    BY <2>2, AppendProperties, LenProperties
  <2> QED BY <1>2, <2>2, <2>3
<1> HIDE DEF N
<1>3. ASSUME NEW s \in Seq(S) PROVE s \in T
  <2>1. Len(s) \in N
    BY <1>1, <1>2, SetInduction, LenProperties
  <2> QED BY <2>1 DEF N
<1> QED BY <1>3

-----------------------------------------------------------------------------
(* f[i] is the first i elements of ss put together.                        *)
Joins(f, ss, n) == f = [i \in 1 .. n |-> IF i = 1 THEN ss[i] ELSE f[i - 1] \o ss[i]]

(* There is such a function, however many elements.                        *)
LEMMA JoinsExists == ASSUME NEW ss PROVE \A n \in Nat : \E f : Joins(f, ss, n)
<1> DEFINE S == {n \in Nat : \E f : Joins(f, ss, n)}
<1>1. 0 \in S
  <2> DEFINE f == [i \in 1 .. 0 |-> ss[i]]
  <2>1. Joins(f, ss, 0)
    BY DEF Joins
  <2> QED BY <2>1
<1>2. ASSUME NEW n \in Nat, n \in S PROVE n + 1 \in S
  <2>1. PICK f : Joins(f, ss, n)
    BY <1>2
  <2> DEFINE g == [i \in 1 .. n + 1 |->
                      IF i <= n THEN f[i] ELSE IF i = 1 THEN ss[i] ELSE f[i - 1] \o ss[i]]
  <2>2. \A i \in 1 .. n : f[i] = IF i = 1 THEN ss[i] ELSE f[i - 1] \o ss[i]
    BY <2>1 DEF Joins
  <2>3. \A i \in 1 .. n + 1 : g[i] = IF i = 1 THEN ss[i] ELSE g[i - 1] \o ss[i]
    <3> SUFFICES ASSUME NEW i \in 1 .. n + 1
                 PROVE  g[i] = IF i = 1 THEN ss[i] ELSE g[i - 1] \o ss[i]
      OBVIOUS
    <3>1. i # 1 => i - 1 \in 1 .. n /\ g[i - 1] = f[i - 1]
      OBVIOUS
    <3>2. CASE i <= n
      BY <2>2, <3>1, <3>2
    <3>3. CASE ~ (i <= n)
      BY <3>1, <3>3
    <3> QED BY <3>2, <3>3
  <2>4. Joins(g, ss, n + 1)
    BY <2>3 DEF Joins
  <2> QED BY <2>4
<1> HIDE DEF S
<1>3. \A n \in Nat : n \in S
  BY <1>1, <1>2, SetInduction
<1> QED BY <1>3 DEF S

(* It is the same for two lists as far as they agree.                      *)
LEMMA JoinsAgree ==
    ASSUME NEW f, NEW g, NEW ss, NEW tt, NEW m \in Nat, NEW n \in Nat, n <= m,
           Joins(f, ss, n), Joins(g, tt, m), \A i \in 1 .. n : ss[i] = tt[i]
    PROVE  \A i \in 1 .. n : f[i] = g[i]
<1> DEFINE S == {k \in Nat : k \in 1 .. n => f[k] = g[k]}
<1>1. 0 \in S
  OBVIOUS
<1>2. /\ \A i \in 1 .. n : f[i] = IF i = 1 THEN ss[i] ELSE f[i - 1] \o ss[i]
      /\ \A i \in 1 .. m : g[i] = IF i = 1 THEN tt[i] ELSE g[i - 1] \o tt[i]
  BY DEF Joins
<1>3. ASSUME NEW k \in Nat, k \in S PROVE k + 1 \in S
  <2> SUFFICES ASSUME k + 1 \in 1 .. n PROVE f[k + 1] = g[k + 1]
    OBVIOUS
  <2>1. CASE k = 0
    BY <1>2, <2>1
  <2>2. CASE k # 0
    <3>1. k \in 1 .. n /\ k + 1 \in 1 .. m /\ f[k] = g[k] /\ (k + 1) - 1 = k /\ k + 1 # 1
      BY <1>3, <2>2
    <3>2. f[k + 1] = f[k] \o ss[k + 1] /\ g[k + 1] = g[k] \o tt[k + 1]
      BY <1>2, <3>1
    <3> QED BY <3>1, <3>2
  <2> QED BY <2>1, <2>2
<1> HIDE DEF S
<1>4. \A k \in Nat : k \in S
  BY <1>1, <1>3, SetInduction
<1> QED BY <1>4 DEF S

(* FlattenSeq is the last of the joins.                                    *)
LEMMA FlattenJoins ==
    ASSUME NEW ss, NEW n \in Nat, n # 0, Len(ss) = n
    PROVE  \E f : Joins(f, ss, n) /\ FlattenSeq(ss) = f[n]
<1> DEFINE f == CHOOSE f : f = [i \in 1 .. Len(ss) |-> IF i = 1 THEN ss[i] ELSE f[i - 1] \o ss[i]]
<1>1. FlattenSeq(ss) = f[Len(ss)]
  BY DEF FlattenSeq
<1>2. \E h : h = [i \in 1 .. Len(ss) |-> IF i = 1 THEN ss[i] ELSE h[i - 1] \o ss[i]]
  BY JoinsExists, Zenon DEF Joins
<1>3. f = [i \in 1 .. Len(ss) |-> IF i = 1 THEN ss[i] ELSE f[i - 1] \o ss[i]]
  BY <1>2, Zenon
<1> HIDE DEF f
<1> QED BY <1>1, <1>3 DEF Joins

(* No lists make no list.                                                  *)
LEMMA FlattenEmpty == FlattenSeq(<< >>) = << >>
BY DEF FlattenSeq

(* One more list is put at the end.                                        *)
LEMMA FlattenAppend ==
    ASSUME NEW S, NEW ss \in Seq(Seq(S)), NEW s \in Seq(S)
    PROVE  FlattenSeq(Append(ss, s)) = FlattenSeq(ss) \o s
<1> DEFINE tt == Append(ss, s)
           n == Len(ss)
<1>1. /\ n \in Nat /\ Len(tt) = n + 1 /\ tt[n + 1] = s
      /\ \A i \in 1 .. n : ss[i] = tt[i]
  BY AppendProperties, LenProperties
<1> HIDE DEF tt, n
<1>2. PICK h : Joins(h, tt, n + 1) /\ FlattenSeq(tt) = h[n + 1]
  BY <1>1, FlattenJoins
<1>3. h[n + 1] = IF n + 1 = 1 THEN s ELSE h[n] \o s
  <2>1. \A i \in 1 .. n + 1 : h[i] = IF i = 1 THEN tt[i] ELSE h[i - 1] \o tt[i]
    BY <1>2, Zenon DEF Joins
  <2>2. n \in Nat
    BY <1>1
  <2>3. n + 1 \in 1 .. n + 1 /\ (n + 1) - 1 = n
    BY <2>2
  <2> QED BY <1>1, <2>1, <2>3
<1>4. CASE n = 0
  <2>1. ss = << >>
    BY <1>4, EmptySeq DEF n
  <2>2. << >> \o s = s
    BY ConcatEmptySeq
  <2> QED BY <1>2, <1>3, <1>4, <2>1, <2>2, FlattenEmpty DEF tt
<1>5. CASE n # 0
  <2>1. PICK k : Joins(k, ss, n) /\ FlattenSeq(ss) = k[n]
    BY <1>1, <1>5, FlattenJoins DEF n
  <2>2. n \in 1 .. n /\ n <= n + 1 /\ n + 1 \in Nat /\ n + 1 # 1
    BY <1>1, <1>5
  <2>3. PICK m \in Nat : m = n + 1
    BY <2>2
  <2>4. \A i \in 1 .. n : k[i] = h[i]
    BY <1>1, <1>2, <2>1, <2>2, <2>3, JoinsAgree, SMTT(30)
  <2> QED BY <1>2, <1>3, <2>1, <2>2, <2>4 DEF tt
<1> QED BY <1>4, <1>5

(* Lists of S put together are a list of S.                                *)
LEMMA FlattenType ==
    ASSUME NEW S, NEW ss \in Seq(Seq(S))
    PROVE  FlattenSeq(ss) \in Seq(S)
<1> DEFINE T == {tt \in Seq(Seq(S)) : FlattenSeq(tt) \in Seq(S)}
<1>1. << >> \in T
  BY FlattenEmpty, EmptySeq
<1>2. ASSUME NEW tt \in Seq(Seq(S)), NEW s \in Seq(S), tt \in T PROVE Append(tt, s) \in T
  <2>1. FlattenSeq(Append(tt, s)) = FlattenSeq(tt) \o s
    BY FlattenAppend
  <2>2. FlattenSeq(tt) \o s \in Seq(S)
    BY <1>2, ConcatProperties
  <2> QED BY <2>1, <2>2, AppendProperties
<1> HIDE DEF T
<1>3. ss \in T
  BY <1>1, <1>2, ListInduction
<1> QED BY <1>3 DEF T

(* Brackets do not matter between lists of S.                              *)
AssociativeOn(S) == \A x, y, z \in Seq(S) : (x \o y) \o z = x \o (y \o z)

(* They never do; stated for all lists at once.                            *)
LEMMA Associative == ASSUME NEW S PROVE AssociativeOn(S)
BY ConcatAssociative, SMTT(30) DEF AssociativeOn

(* An element appended to the right list.                                  *)
LEMMA ConcatAppend ==
    ASSUME NEW S, NEW s \in Seq(S), NEW t \in Seq(S), NEW e \in S
    PROVE  s \o Append(t, e) = Append(s \o t, e)
<1>1. <<e>> \in Seq(S) /\ s \o t \in Seq(S)
  BY ConcatProperties
<1>2. Append(t, e) = t \o <<e>> /\ Append(s \o t, e) = (s \o t) \o <<e>>
  BY <1>1, AppendIsConcat
<1>3. (s \o t) \o <<e>> = s \o (t \o <<e>>)
  BY <1>1, ConcatAssociative, SMTT(30)
<1> QED BY <1>2, <1>3

(* Putting together goes through concatenation.                            *)
LEMMA FlattenConcat ==
    ASSUME NEW S, NEW ss \in Seq(Seq(S)), NEW tt \in Seq(Seq(S))
    PROVE  FlattenSeq(ss \o tt) = FlattenSeq(ss) \o FlattenSeq(tt)
<1> DEFINE T == {uu \in Seq(Seq(S)) :
                     FlattenSeq(ss \o uu) = FlattenSeq(ss) \o FlattenSeq(uu)}
<1>1. << >> \in T
  <2>1. ss \o << >> = ss
    BY ConcatEmptySeq
  <2>2. FlattenSeq(ss) \o << >> = FlattenSeq(ss)
    BY FlattenType, ConcatEmptySeq
  <2> QED BY <2>1, <2>2, FlattenEmpty, EmptySeq
<1>2. ASSUME NEW uu \in Seq(Seq(S)), NEW s \in Seq(S), uu \in T PROVE Append(uu, s) \in T
  <2>1. ss \o Append(uu, s) = Append(ss \o uu, s)
    BY ConcatAppend, SMTT(30)
  <2>2. ss \o uu \in Seq(Seq(S)) /\ Append(uu, s) \in Seq(Seq(S))
    BY ConcatProperties, AppendProperties
  <2>3. FlattenSeq(Append(ss \o uu, s)) = FlattenSeq(ss \o uu) \o s
    BY <2>2, FlattenAppend
  <2>4. FlattenSeq(Append(uu, s)) = FlattenSeq(uu) \o s
    BY FlattenAppend
  <2>5. FlattenSeq(ss) \in Seq(S) /\ FlattenSeq(uu) \in Seq(S)
    BY FlattenType
  <2>6. (FlattenSeq(ss) \o FlattenSeq(uu)) \o s = FlattenSeq(ss) \o (FlattenSeq(uu) \o s)
    <3>1. AssociativeOn(S)
      BY Associative
    <3> QED BY <2>5, <3>1, Zenon DEF AssociativeOn
  <2>7. FlattenSeq(ss \o uu) = FlattenSeq(ss) \o FlattenSeq(uu)
    BY <1>2
  <2>8. FlattenSeq(ss \o Append(uu, s)) = FlattenSeq(ss) \o FlattenSeq(Append(uu, s))
    BY <2>1, <2>3, <2>4, <2>6, <2>7, Zenon
  <2> QED BY <2>2, <2>8
<1> HIDE DEF T
<1>3. tt \in T
  BY <1>1, <1>2, ListInduction
<1> QED BY <1>3 DEF T

(* One list put together is that list.                                     *)
LEMMA FlattenOne ==
    ASSUME NEW S, NEW s \in Seq(S)
    PROVE  FlattenSeq(<<s>>) = s
<1>1. << >> \in Seq(Seq(S)) /\ Append(<< >>, s) = <<s>> /\ << >> \o s = s
  BY EmptySeq, ConcatEmptySeq
<1>2. FlattenSeq(Append(<< >>, s)) = FlattenSeq(<< >>) \o s
  BY <1>1, FlattenAppend
<1> QED BY <1>1, <1>2, FlattenEmpty

-----------------------------------------------------------------------------
(* What G makes of the elements of s, put together.                        *)
FlatMap(s, G) == FlattenSeq([i \in 1 .. Len(s) |-> G[s[i]]])

(* The lists that are put together are lists of T.                         *)
LEMMA FlatMapLists ==
    ASSUME NEW S, NEW T, NEW G \in [S -> Seq(T)], NEW s \in Seq(S)
    PROVE  LET f == [i \in 1 .. Len(s) |-> G[s[i]]]
           IN  f \in Seq(Seq(T)) /\ Len(f) = Len(s)
<1> DEFINE f == [i \in 1 .. Len(s) |-> G[s[i]]]
<1>1. Len(s) \in Nat /\ \A i \in 1 .. Len(s) : s[i] \in S
  BY LenProperties, ElementOfSeq
<1>2. f \in [1 .. Len(s) -> Seq(T)]
  BY <1>1
<1>3. f \in Seq(Seq(T))
  BY <1>1, <1>2, SeqDef
<1>4. Len(f) = Len(s)
  BY <1>1, <1>2, <1>3, LenProperties
<1> QED BY <1>3, <1>4

(* Together they are a list of T.                                          *)
LEMMA FlatMapType ==
    ASSUME NEW S, NEW T, NEW G \in [S -> Seq(T)], NEW s \in Seq(S)
    PROVE  FlatMap(s, G) \in Seq(T)
<1> DEFINE f == [i \in 1 .. Len(s) |-> G[s[i]]]
<1>1. f \in Seq(Seq(T))
  BY FlatMapLists
<1> HIDE DEF f
<1>2. FlattenSeq(f) \in Seq(T)
  BY <1>1, FlattenType
<1> QED BY <1>2 DEF FlatMap, f

(* Nothing makes nothing.                                                  *)
LEMMA FlatMapEmpty == ASSUME NEW G PROVE FlatMap(<< >>, G) = << >>
<1>1. [i \in 1 .. Len(<< >>) |-> G[<< >>[i]]] = << >>
  OBVIOUS
<1> QED BY <1>1, FlattenEmpty DEF FlatMap

(* One more element adds what G makes of it.                               *)
LEMMA FlatMapAppend ==
    ASSUME NEW S, NEW T, NEW G \in [S -> Seq(T)], NEW s \in Seq(S), NEW e \in S
    PROVE  FlatMap(Append(s, e), G) = FlatMap(s, G) \o G[e]
<1> DEFINE f == [i \in 1 .. Len(s) |-> G[s[i]]]
           t == Append(s, e)
           g == [i \in 1 .. Len(t) |-> G[t[i]]]
<1>1. t \in Seq(S) /\ Len(t) = Len(s) + 1 /\ Len(s) \in Nat /\ t[Len(s) + 1] = e
      /\ \A i \in 1 .. Len(s) : t[i] = s[i]
  BY AppendProperties, LenProperties
<1>2. f \in Seq(Seq(T)) /\ Len(f) = Len(s)
  BY FlatMapLists
<1> HIDE DEF t
<1>3. g \in Seq(Seq(T)) /\ Len(g) = Len(t)
  BY <1>1, FlatMapLists
<1>4. G[e] \in Seq(T)
  OBVIOUS
<1>5. /\ Append(f, G[e]) \in Seq(Seq(T)) /\ Len(Append(f, G[e])) = Len(s) + 1
      /\ \A i \in 1 .. Len(s) : Append(f, G[e])[i] = f[i]
      /\ Append(f, G[e])[Len(s) + 1] = G[e]
  BY <1>2, <1>4, AppendProperties
<1>6. \A i \in 1 .. Len(s) + 1 : g[i] = Append(f, G[e])[i]
  <2> SUFFICES ASSUME NEW i \in 1 .. Len(s) + 1 PROVE g[i] = Append(f, G[e])[i]
    OBVIOUS
  <2>1. CASE i = Len(s) + 1
    BY <1>1, <1>5, <2>1
  <2>2. CASE i \in 1 .. Len(s)
    <3>1. g[i] = f[i]
      BY <1>1, <2>2
    <3> HIDE DEF f, g
    <3> QED BY <1>5, <2>2, <3>1
  <2> QED BY <1>1, <2>1, <2>2
<1> HIDE DEF f, g
<1>7. g = Append(f, G[e])
  BY <1>1, <1>3, <1>5, <1>6, SeqEqual, SMTT(30)
<1>8. FlattenSeq(g) = FlattenSeq(f) \o G[e]
  BY <1>2, <1>4, <1>7, FlattenAppend
<1> QED BY <1>8 DEF FlatMap, f, g, t

(* It goes through concatenation.                                          *)
LEMMA FlatMapConcat ==
    ASSUME NEW S, NEW T, NEW G \in [S -> Seq(T)], NEW s \in Seq(S), NEW t \in Seq(S)
    PROVE  FlatMap(s \o t, G) = FlatMap(s, G) \o FlatMap(t, G)
<1> DEFINE U == {u \in Seq(S) : FlatMap(s \o u, G) = FlatMap(s, G) \o FlatMap(u, G)}
<1>1. << >> \in U
  <2>1. s \o << >> = s
    BY ConcatEmptySeq
  <2>2. FlatMap(s, G) \o << >> = FlatMap(s, G)
    BY FlatMapType, ConcatEmptySeq
  <2> QED BY <2>1, <2>2, FlatMapEmpty, EmptySeq
<1>2. ASSUME NEW u \in Seq(S), NEW e \in S, u \in U PROVE Append(u, e) \in U
  <2>1. s \o Append(u, e) = Append(s \o u, e) /\ s \o u \in Seq(S) /\ Append(u, e) \in Seq(S)
    <3>1. s \o Append(u, e) = Append(s \o u, e)
      BY ConcatAppend, SMTT(30)
    <3> QED BY <3>1, ConcatProperties, AppendProperties
  <2>2. FlatMap(Append(s \o u, e), G) = FlatMap(s \o u, G) \o G[e]
    BY <2>1, FlatMapAppend
  <2>3. FlatMap(Append(u, e), G) = FlatMap(u, G) \o G[e]
    BY FlatMapAppend
  <2>4. FlatMap(s, G) \in Seq(T) /\ FlatMap(u, G) \in Seq(T) /\ G[e] \in Seq(T)
    BY FlatMapType
  <2>5. (FlatMap(s, G) \o FlatMap(u, G)) \o G[e] = FlatMap(s, G) \o (FlatMap(u, G) \o G[e])
    <3>1. AssociativeOn(T)
      BY Associative
    <3> QED BY <2>4, <3>1, Zenon DEF AssociativeOn
  <2>6. FlatMap(s \o u, G) = FlatMap(s, G) \o FlatMap(u, G)
    BY <1>2
  <2>7. FlatMap(s \o Append(u, e), G) = FlatMap(s, G) \o FlatMap(Append(u, e), G)
    BY <2>1, <2>2, <2>3, <2>5, <2>6, Zenon
  <2> QED BY <2>1, <2>7
<1> HIDE DEF U
<1>3. t \in U
  BY <1>1, <1>2, ListInduction
<1> QED BY <1>3 DEF U

(* G goes through both appending and concatenation of lists of S.          *)
Spreads(G, S) ==
    /\ \A a \in Seq(S), e \in S : FlatMap(Append(a, e), G) = FlatMap(a, G) \o G[e]
    /\ \A a, b \in Seq(S) : FlatMap(a \o b, G) = FlatMap(a, G) \o FlatMap(b, G)

(* Whatever makes lists does; stated for all lists at once.                *)
LEMMA Spreading == ASSUME NEW S, NEW T, NEW G \in [S -> Seq(T)] PROVE Spreads(G, S)
<1>1. ASSUME NEW a \in Seq(S), NEW e \in S
      PROVE  FlatMap(Append(a, e), G) = FlatMap(a, G) \o G[e]
  BY FlatMapAppend, ZenonT(60)
<1>2. ASSUME NEW a \in Seq(S), NEW b \in Seq(S)
      PROVE  FlatMap(a \o b, G) = FlatMap(a, G) \o FlatMap(b, G)
  BY FlatMapConcat, ZenonT(60)
<1> QED BY <1>1, <1>2 DEF Spreads

(* One element makes what G makes of it.                                   *)
LEMMA FlatMapOne ==
    ASSUME NEW S, NEW T, NEW G \in [S -> Seq(T)], NEW e \in S
    PROVE  FlatMap(<<e>>, G) = G[e]
<1>1. << >> \in Seq(S) /\ Append(<< >>, e) = <<e>> /\ << >> \o G[e] = G[e]
  BY EmptySeq, ConcatEmptySeq
<1>2. FlatMap(Append(<< >>, e), G) = FlatMap(<< >>, G) \o G[e]
  BY <1>1, FlatMapAppend
<1> QED BY <1>1, <1>2, FlatMapEmpty

(* G need only be known on the elements of s.                              *)
LEMMA FlatMapAgree ==
    ASSUME NEW s, NEW G, NEW H, \A i \in 1 .. Len(s) : G[s[i]] = H[s[i]]
    PROVE  FlatMap(s, G) = FlatMap(s, H)
<1>1. [i \in 1 .. Len(s) |-> G[s[i]]] = [i \in 1 .. Len(s) |-> H[s[i]]]
  OBVIOUS
<1> QED BY <1>1 DEF FlatMap

(* Where G makes nothing of any element, nothing is made of s.             *)
LEMMA FlatMapNothing ==
    ASSUME NEW S, NEW s \in Seq(S), NEW G, \A i \in 1 .. Len(s) : G[s[i]] = << >>
    PROVE  FlatMap(s, G) = << >>
<1> DEFINE N == [e \in S |-> << >>]
           T == {t \in Seq(S) : FlatMap(t, N) = << >>}
<1>1. N \in [S -> Seq({})]
  BY EmptySeq
<1>2. << >> \in T
  BY FlatMapEmpty, EmptySeq
<1>3. ASSUME NEW t \in Seq(S), NEW e \in S, t \in T PROVE Append(t, e) \in T
  <2>1. FlatMap(Append(t, e), N) = FlatMap(t, N) \o N[e]
    <3> HIDE DEF N
    <3> QED BY <1>1, FlatMapAppend, Zenon
  <2>2. FlatMap(t, N) = << >> /\ N[e] = << >>
    BY <1>3
  <2>3. << >> \o << >> = << >>
    BY EmptySeq, ConcatEmptySeq
  <2> QED BY <2>1, <2>2, <2>3, AppendProperties
<1>4. s \in T
  BY <1>2, <1>3, ListInduction
<1>5. \A i \in 1 .. Len(s) : s[i] \in S
  BY ElementOfSeq
<1>6. \A i \in 1 .. Len(s) : G[s[i]] = N[s[i]]
  BY <1>5
<1> QED BY <1>4, <1>6, FlatMapAgree

Makers(S, T) == [S -> Seq(T)]

(* If K makes of each element what H makes of what G makes of it, it does  *)
(* so of s.                                                                *)
LEMMA FlatMapTwice ==
    ASSUME NEW S, NEW T, NEW U, NEW G \in Makers(S, T), NEW H \in Makers(T, U),
           NEW K, \A e \in S : FlatMap(G[e], H) = K[e], NEW s \in Seq(S)
    PROVE  FlatMap(FlatMap(s, G), H) = FlatMap(s, K)
<1> DEFINE L == [e \in S |-> K[e]]
           V == {t \in Seq(S) : FlatMap(FlatMap(t, G), H) = FlatMap(t, L)}
<1> USE DEF Makers
<1>1. L \in [S -> Seq(U)] /\ \A e \in S : L[e] = K[e]
  <2>1. ASSUME NEW e \in S PROVE K[e] \in Seq(U)
    <3>1. FlatMap(G[e], H) \in Seq(U)
      BY FlatMapType
    <3> QED BY <3>1
  <2> QED BY <2>1
<1>2. << >> \in V
  BY FlatMapEmpty, EmptySeq
<1> HIDE DEF L
<1>3. ASSUME NEW t \in Seq(S), NEW e \in S, t \in V PROVE Append(t, e) \in V
  <2>1. FlatMap(Append(t, e), G) = FlatMap(t, G) \o G[e]
    BY FlatMapAppend
  <2>2. FlatMap(t, G) \in Seq(T) /\ G[e] \in Seq(T)
    BY FlatMapType
  <2>3. FlatMap(FlatMap(t, G) \o G[e], H) = FlatMap(FlatMap(t, G), H) \o FlatMap(G[e], H)
    <3>1. Spreads(H, T)
      BY Spreading
    <3> QED BY <2>2, <3>1, Zenon DEF Spreads
  <2>4. FlatMap(FlatMap(t, G), H) = FlatMap(t, L) /\ L[e] = FlatMap(G[e], H)
    BY <1>1, <1>3
  <2>5. FlatMap(Append(t, e), L) = FlatMap(t, L) \o L[e]
    <3>1. Spreads(L, S)
      BY <1>1, Spreading
    <3> QED BY <3>1, Zenon DEF Spreads
  <2>6. Append(t, e) \in Seq(S)
    BY AppendProperties
  <2>7. FlatMap(FlatMap(Append(t, e), G), H) = FlatMap(Append(t, e), L)
    BY <2>1, <2>3, <2>4, <2>5, Zenon
  <2> QED BY <2>6, <2>7
<1> HIDE DEF V
<1>4. s \in V
  BY <1>2, <1>3, ListInduction
<1>5. FlatMap(s, L) = FlatMap(s, K)
  <2>1. \A i \in 1 .. Len(s) : L[s[i]] = K[s[i]]
    BY <1>1, ElementOfSeq
  <2> QED BY <2>1, FlatMapAgree
<1> QED BY <1>4, <1>5 DEF V

(* If nothing is made of s, nothing is made of any of its elements.        *)
LEMMA FlatMapNone ==
    ASSUME NEW S, NEW T, NEW G \in [S -> Seq(T)], NEW s \in Seq(S), FlatMap(s, G) = << >>
    PROVE  \A i \in 1 .. Len(s) : G[s[i]] = << >>
<1> DEFINE V == {t \in Seq(S) : FlatMap(t, G) = << >> => \A i \in 1 .. Len(t) : G[t[i]] = << >>}
<1>1. << >> \in V
  BY EmptySeq
<1>2. ASSUME NEW t \in Seq(S), NEW e \in S, t \in V PROVE Append(t, e) \in V
  <2> DEFINE u == Append(t, e)
  <2>1. u \in Seq(S) /\ Len(t) \in Nat /\ Len(u) = Len(t) + 1 /\ u[Len(t) + 1] = e
        /\ \A i \in 1 .. Len(t) : u[i] = t[i]
    BY AppendProperties, LenProperties
  <2>2. FlatMap(u, G) = FlatMap(t, G) \o G[e] /\ FlatMap(t, G) \in Seq(T) /\ G[e] \in Seq(T)
    BY FlatMapAppend, FlatMapType
  <2> HIDE DEF u
  <2>3. ASSUME FlatMap(u, G) = << >>, NEW i \in 1 .. Len(u) PROVE G[u[i]] = << >>
    <3>1. FlatMap(t, G) = << >> /\ G[e] = << >>
      <4>1. Len(FlatMap(t, G) \o G[e]) = Len(FlatMap(t, G)) + Len(G[e])
        BY <2>2, ConcatProperties
      <4>2. Len(FlatMap(t, G)) \in Nat /\ Len(G[e]) \in Nat /\ FlatMap(t, G) \o G[e] = << >>
        BY <2>2, <2>3, LenProperties
      <4>3. Len(FlatMap(t, G)) = 0 /\ Len(G[e]) = 0
        BY <4>1, <4>2
      <4> QED BY <2>2, <4>3, EmptySeq
    <3>2. CASE i = Len(t) + 1
      BY <2>1, <3>1, <3>2
    <3>3. CASE i \in 1 .. Len(t)
      BY <1>2, <2>1, <3>1, <3>3
    <3> QED BY <2>1, <3>2, <3>3
  <2> QED BY <2>1, <2>3 DEF u
<1> HIDE DEF V
<1>3. s \in V
  BY <1>1, <1>2, ListInduction
<1> QED BY <1>3 DEF V

(* Where G makes one thing of each element, s is made over in place.       *)
LEMMA FlatMapEach ==
    ASSUME NEW S, NEW s \in Seq(S), NEW g, NEW F, \A e \in S : F[e] = <<g[e]>>
    PROVE  FlatMap(s, F) = [i \in 1 .. Len(s) |-> g[s[i]]]
<1> DEFINE T == {g[e] : e \in S}
           G == [e \in S |-> <<g[e]>>]
           V == {t \in Seq(S) : FlatMap(t, G) = [i \in 1 .. Len(t) |-> g[t[i]]]}
<1>1. G \in [S -> Seq(T)]
  <2>1. \A e \in S : g[e] \in T
    OBVIOUS
  <2> HIDE DEF T
  <2>2. \A e \in S : <<g[e]>> \in Seq(T)
    BY <2>1
  <2> QED BY <2>2
<1>5. \A e \in S : g[e] \in T
  OBVIOUS
<1> HIDE DEF T
<1>2. << >> \in V
  <2>1. [i \in 1 .. Len(<< >>) |-> g[<< >>[i]]] = << >>
    OBVIOUS
  <2> QED BY <2>1, FlatMapEmpty, EmptySeq
<1>3. ASSUME NEW t \in Seq(S), NEW e \in S, t \in V PROVE Append(t, e) \in V
  <2> DEFINE u == Append(t, e)
             f == [i \in 1 .. Len(t) |-> g[t[i]]]
             h == [i \in 1 .. Len(u) |-> g[u[i]]]
  <2>1. u \in Seq(S) /\ Len(t) \in Nat /\ Len(u) = Len(t) + 1 /\ u[Len(t) + 1] = e
        /\ \A i \in 1 .. Len(t) : u[i] = t[i]
    BY AppendProperties, LenProperties
  <2>2. FlatMap(u, G) = FlatMap(t, G) \o G[e] /\ G[e] = <<g[e]>> /\ FlatMap(t, G) = f
    <3>1. FlatMap(t, G) = f /\ G[e] = <<g[e]>>
      BY <1>3
    <3> HIDE DEF G, f
    <3>2. FlatMap(Append(t, e), G) = FlatMap(t, G) \o G[e]
      BY <1>1, FlatMapAppend
    <3> QED BY <3>1, <3>2
  <2> HIDE DEF u, G
  <2>3. f \in Seq(T) /\ Len(f) = Len(t)
    <3>1. \A i \in 1 .. Len(t) : t[i] \in S
      BY ElementOfSeq
    <3>2. f \in [1 .. Len(t) -> T]
      BY <1>5, <3>1
    <3>3. f \in Seq(T)
      BY <2>1, <3>2, SeqDef
    <3> QED BY <2>1, <3>2, <3>3, LenProperties
  <2>4. h \in Seq(T) /\ Len(h) = Len(u)
    <3>1. \A i \in 1 .. Len(u) : u[i] \in S
      BY <2>1, ElementOfSeq
    <3>2. h \in [1 .. Len(u) -> T]
      BY <1>5, <3>1
    <3>3. Len(u) \in Nat
      BY <2>1
    <3>4. h \in Seq(T)
      BY <3>2, <3>3, SeqDef
    <3> QED BY <3>2, <3>3, <3>4, LenProperties
  <2>5. g[e] \in T
    BY <1>5
  <2>6. f \o <<g[e]>> = Append(f, g[e])
    BY <2>3, <2>5, AppendIsConcat
  <2>7. /\ Append(f, g[e]) \in Seq(T) /\ Len(Append(f, g[e])) = Len(t) + 1
        /\ \A i \in 1 .. Len(t) : Append(f, g[e])[i] = f[i]
        /\ Append(f, g[e])[Len(t) + 1] = g[e]
    BY <2>3, <2>5, AppendProperties
  <2>8. \A i \in 1 .. Len(t) + 1 : h[i] = Append(f, g[e])[i]
    <3> SUFFICES ASSUME NEW i \in 1 .. Len(t) + 1 PROVE h[i] = Append(f, g[e])[i]
      OBVIOUS
    <3>1. h[i] = g[u[i]]
      BY <2>1
    <3>2. CASE i = Len(t) + 1
      BY <2>1, <2>7, <3>1, <3>2
    <3>3. CASE i \in 1 .. Len(t)
      <4>1. f[i] = g[t[i]] /\ u[i] = t[i]
        BY <2>1, <3>3
      <4> HIDE DEF f, h
      <4> QED BY <2>7, <3>1, <3>3, <4>1
    <3> QED BY <2>1, <3>2, <3>3
  <2> HIDE DEF f, h
  <2>9. h = Append(f, g[e])
    BY <2>1, <2>3, <2>4, <2>7, <2>8, SeqEqual
  <2>10. FlatMap(u, G) = h
    BY <2>2, <2>6, <2>9
  <2> QED BY <2>1, <2>10 DEF h, u
<1> HIDE DEF V
<1>4. s \in V
  BY <1>2, <1>3, ListInduction
<1>6. FlatMap(s, F) = FlatMap(s, G)
  <2>1. \A i \in 1 .. Len(s) : s[i] \in S
    BY ElementOfSeq
  <2>2. \A i \in 1 .. Len(s) : F[s[i]] = G[s[i]]
    BY <2>1
  <2> QED BY <2>2, FlatMapAgree
<1> QED BY <1>4, <1>6 DEF V

-----------------------------------------------------------------------------
(* An element put before a list is its head, the list its tail.            *)
LEMMA PutBefore ==
    ASSUME NEW S, NEW e \in S, NEW s \in Seq(S)
    PROVE  /\ <<e>> \o s \in Seq(S) /\ <<e>> \o s # << >>
           /\ Head(<<e>> \o s) = e /\ Tail(<<e>> \o s) = s
<1>1. <<e>> \in Seq(S) /\ Len(<<e>>) = 1 /\ <<e>>[1] = e
  OBVIOUS
<1> DEFINE t == <<e>> \o s
<1>2. /\ t \in Seq(S) /\ Len(t) = 1 + Len(s) /\ Len(s) \in Nat
      /\ t[1] = e /\ \A i \in 1 .. Len(s) : t[i + 1] = s[i]
  BY <1>1, ConcatProperties, LenProperties
<1> HIDE DEF t
<1>3. t # << >> /\ Head(t) = e
  BY <1>2, EmptySeq, HeadTailProperties
<1>4. /\ Tail(t) \in Seq(S) /\ Len(Tail(t)) = Len(s)
      /\ \A i \in 1 .. Len(s) : Tail(t)[i] = s[i]
  BY <1>2, <1>3, HeadTailProperties
<1>5. Tail(t) = s
  BY <1>4, SeqEqual
<1> QED BY <1>2, <1>3, <1>5 DEF t

(* A list is its head and its tail.                                        *)
LEMMA HeadAndTail ==
    ASSUME NEW S, NEW s \in Seq(S), s # << >>
    PROVE  s = <<Head(s)>> \o Tail(s)
<1>1. /\ Head(s) \in S /\ Head(s) = s[1] /\ Tail(s) \in Seq(S) /\ Len(s) \in Nat
      /\ Len(Tail(s)) = Len(s) - 1 /\ \A i \in 1 .. Len(Tail(s)) : Tail(s)[i] = s[i + 1]
  BY HeadTailProperties, LenProperties
<1> DEFINE t == <<Head(s)>> \o Tail(s)
<1>2. <<Head(s)>> \in Seq(S) /\ Len(<<Head(s)>>) = 1 /\ <<Head(s)>>[1] = Head(s)
  BY <1>1
<1>3. /\ t \in Seq(S) /\ Len(t) = 1 + Len(Tail(s))
      /\ t[1] = Head(s) /\ \A i \in 1 .. Len(Tail(s)) : t[i + 1] = Tail(s)[i]
  BY <1>1, <1>2, ConcatProperties
<1> HIDE DEF t
<1>4. ASSUME NEW i \in 1 .. Len(s) PROVE s[i] = t[i]
  <2>1. CASE i = 1
    BY <1>1, <1>3, <2>1
  <2>2. CASE i # 1
    <3>1. i - 1 \in 1 .. Len(Tail(s)) /\ i = (i - 1) + 1
      BY <1>1, <2>2
    <3> QED BY <1>1, <1>3, <3>1
  <2> QED BY <2>1, <2>2
<1>5. s = t
  BY <1>1, <1>3, <1>4, SeqEqual
<1> QED BY <1>5 DEF t

(* The head of what follows moves to the end of what came before.          *)
LEMMA MoveHead ==
    ASSUME NEW S, NEW s \in Seq(S), NEW t \in Seq(S), t # << >>
    PROVE  Append(s, Head(t)) \o Tail(t) = s \o t
<1>1. Head(t) \in S /\ Tail(t) \in Seq(S) /\ <<Head(t)>> \in Seq(S)
  BY HeadTailProperties
<1>2. Append(s, Head(t)) = s \o <<Head(t)>>
  BY <1>1, AppendIsConcat
<1>3. (s \o <<Head(t)>>) \o Tail(t) = s \o (<<Head(t)>> \o Tail(t))
  BY <1>1, ConcatAssociative
<1> QED BY <1>2, <1>3, HeadAndTail

(* What comes before is a prefix.                                          *)
LEMMA PrefixOfConcat ==
    ASSUME NEW S, NEW s \in Seq(S), NEW t \in Seq(S)
    PROVE  IsPrefix(s, s \o t)
<1>1. /\ Len(s) \in Nat /\ Len(t) \in Nat /\ Len(s \o t) = Len(s) + Len(t)
      /\ \A i \in 1 .. Len(s) : (s \o t)[i] = s[i]
  BY ConcatProperties, LenProperties
<1>2. SubSeq(s, 1, Len(s)) = SubSeq(s \o t, 1, Len(s))
  BY <1>1 DEF SubSeq
<1> QED BY <1>1, <1>2 DEF IsPrefix

-----------------------------------------------------------------------------
(* What g makes of each element of s, in its place.                        *)
Each(s, g) == [i \in 1 .. Len(s) |-> g[s[i]]]
Maps(S, T) == [S -> T]

(* It is as long as s.                                                     *)
LEMMA EachType ==
    ASSUME NEW S, NEW T, NEW g \in Maps(S, T), NEW s \in Seq(S)
    PROVE  Each(s, g) \in Seq(T) /\ Len(Each(s, g)) = Len(s)
<1>1. Len(s) \in Nat /\ \A i \in 1 .. Len(s) : s[i] \in S
  BY LenProperties, ElementOfSeq
<1>2. Each(s, g) \in [1 .. Len(s) -> T]
  BY <1>1 DEF Each, Maps
<1>3. Each(s, g) \in Seq(T)
  BY <1>1, <1>2, SeqDef
<1> QED BY <1>1, <1>2, <1>3, LenProperties

(* One more element adds one.                                              *)
LEMMA EachAppend ==
    ASSUME NEW S, NEW T, NEW g \in Maps(S, T), NEW s \in Seq(S), NEW e \in S
    PROVE  Each(Append(s, e), g) = Append(Each(s, g), g[e])
<1> DEFINE n == Len(s)
           t == Append(s, e)
           x == Each(t, g)
           y == Append(Each(s, g), g[e])
<1>0. ASSUME NEW v \in Seq(S) PROVE Each(v, g) \in Seq(T) /\ Len(Each(v, g)) = Len(v)
  BY EachType
<1>1. n \in Nat /\ t \in Seq(S) /\ Len(t) = n + 1 /\ t[n + 1] = e /\ \A i \in 1 .. n : t[i] = s[i]
  BY AppendProperties, LenProperties
<1>2. g[e] \in T
  BY DEF Maps
<1>3. Each(s, g) \in Seq(T) /\ Len(Each(s, g)) = n /\ x \in Seq(T) /\ Len(x) = n + 1
  BY <1>0, <1>1
<1>4. /\ y \in Seq(T) /\ Len(y) = n + 1 /\ y[n + 1] = g[e]
      /\ \A i \in 1 .. n : y[i] = Each(s, g)[i]
  BY <1>2, <1>3, AppendProperties
<1>5. \A i \in 1 .. n : Each(s, g)[i] = g[s[i]]
  BY DEF Each
<1>6. \A i \in 1 .. n + 1 : x[i] = g[t[i]]
  BY <1>1 DEF Each
<1> HIDE DEF t, x, y, n
<1>7. \A i \in 1 .. n + 1 : x[i] = y[i]
  BY <1>1, <1>4, <1>5, <1>6
<1>8. x = y
  BY <1>3, <1>4, <1>7, SeqEqual
<1> QED BY <1>8 DEF x, y, t

(* What comes of two lists is put together of what comes of each.          *)
LEMMA EachConcat ==
    ASSUME NEW S, NEW T, NEW g \in Maps(S, T), NEW s \in Seq(S), NEW t \in Seq(S)
    PROVE  Each(s \o t, g) = Each(s, g) \o Each(t, g)
<1> DEFINE n == Len(s)
           m == Len(t)
           u == s \o t
           x == Each(u, g)
           y == Each(s, g) \o Each(t, g)
<1>0. ASSUME NEW v \in Seq(S) PROVE Each(v, g) \in Seq(T) /\ Len(Each(v, g)) = Len(v)
  BY EachType
<1>1. /\ n \in Nat /\ m \in Nat /\ u \in Seq(S) /\ Len(u) = n + m
      /\ \A i \in 1 .. n : u[i] = s[i]
      /\ \A i \in n + 1 .. n + m : u[i] = t[i - n]
  BY ConcatProperties, LenProperties
<1>2. /\ Each(s, g) \in Seq(T) /\ Len(Each(s, g)) = n
      /\ Each(t, g) \in Seq(T) /\ Len(Each(t, g)) = m
      /\ x \in Seq(T) /\ Len(x) = n + m
  BY <1>0, <1>1
<1>3. /\ y \in Seq(T) /\ Len(y) = n + m
      /\ \A i \in 1 .. n : y[i] = Each(s, g)[i]
      /\ \A i \in n + 1 .. n + m : y[i] = Each(t, g)[i - n]
  BY <1>2, ConcatProperties
<1>4. /\ \A i \in 1 .. n : Each(s, g)[i] = g[s[i]]
      /\ \A i \in 1 .. m : Each(t, g)[i] = g[t[i]]
  BY DEF Each
<1>5. \A i \in 1 .. n + m : x[i] = g[u[i]]
  BY <1>1 DEF Each
<1> HIDE DEF u, x, y, n, m
<1>6. \A i \in 1 .. n + m : x[i] = y[i]
  <2> SUFFICES ASSUME NEW i \in 1 .. n + m PROVE x[i] = y[i]
    OBVIOUS
  <2>1. x[i] = g[u[i]]
    BY <1>5
  <2>2. CASE i \in 1 .. n
    <3>1. u[i] = s[i] /\ y[i] = Each(s, g)[i] /\ Each(s, g)[i] = g[s[i]]
      BY <1>1, <1>3, <1>4, <2>2, Zenon
    <3> QED BY <2>1, <3>1, Zenon
  <2>3. CASE i \in n + 1 .. n + m
    <3>1. i - n \in 1 .. m
      BY <1>1, <2>3
    <3>2. u[i] = t[i - n] /\ y[i] = Each(t, g)[i - n]
      BY <1>1, <1>3, <2>3, Zenon
    <3>3. Each(t, g)[i - n] = g[t[i - n]]
      BY <1>4, <3>1, Zenon
    <3> QED BY <2>1, <3>2, <3>3, Zenon
  <2> QED BY <1>1, <2>2, <2>3
<1>7. x = y
  BY <1>2, <1>3, <1>6, SeqEqual
<1> QED BY <1>7 DEF x, y, u
=============================================================================
