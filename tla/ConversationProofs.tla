------------------------- MODULE ConversationProofs -------------------------
(***************************************************************************)
(* A conversation translated again with every turn: for any turns, replies *)
(* and models, and any number of them, the provider gets what the client   *)
(* holds, and the client gets what the provider answered.                  *)
(***************************************************************************)
EXTENDS Conversation, SequenceLemmas

-----------------------------------------------------------------------------
(* The helpers of the translations as maps over lists.                     *)

WithType(B, type) == {b \in B : b.type = type}
OfType(B, type) == [b \in B |-> IF b.type = type THEN <<b>> ELSE << >>]
TextOf(B) == [b \in B |-> IF b.type = "text" THEN b.text ELSE << >>]

(* The blocks of a type are those that OfType keeps.                       *)
LEMMA TypedMap ==
    ASSUME NEW B, NEW s \in Seq(B), NEW type
    PROVE  Typed(s, type) = FlatMap(s, OfType(B, type))
<1>1. \A i \in 1 .. Len(s) : s[i] \in B
  BY ElementOfSeq
<1>2. [i \in 1 .. Len(s) |-> IF s[i].type = type THEN <<s[i]>> ELSE << >>]
      = [i \in 1 .. Len(s) |-> OfType(B, type)[s[i]]]
  BY <1>1 DEF OfType
<1> QED BY <1>2 DEF FlatMap, Typed

(* They are blocks of that type.                                           *)
LEMMA TypedType ==
    ASSUME NEW B, NEW s \in Seq(B), NEW type
    PROVE  /\ OfType(B, type) \in [B -> Seq(WithType(B, type))]
           /\ Typed(s, type) \in Seq(WithType(B, type))
<1> DEFINE C == WithType(B, type)
<1>1. ASSUME NEW b \in B PROVE OfType(B, type)[b] \in Seq(C)
  <2>1. CASE b.type = type
    <3>1. b \in C /\ OfType(B, type)[b] = <<b>>
      BY <2>1 DEF OfType, WithType
    <3> HIDE DEF C
    <3> QED BY <3>1
  <2>2. CASE b.type # type
    BY <2>2 DEF OfType
  <2> QED BY <2>1, <2>2
<1>2. OfType(B, type) \in [B -> Seq(C)]
  <2> DEFINE G == OfType(B, type)
  <2>1. G = [b \in B |-> G[b]]
    BY DEF OfType
  <2> QED BY <1>1, <2>1
<1>3. FlatMap(s, OfType(B, type)) \in Seq(C)
  <2> HIDE DEF C
  <2> QED BY <1>2, FlatMapType
<1> QED BY <1>2, <1>3, TypedMap

(* Where no block of a type is found there is none.                        *)
LEMMA NoneTyped ==
    ASSUME NEW B, NEW s \in Seq(B), NEW type, Typed(s, type) = << >>
    PROVE  \A i \in 1 .. Len(s) : s[i].type # type
<1> DEFINE C == WithType(B, type)
           G == OfType(B, type)
<1>1. FlatMap(s, G) = << >>
  BY TypedMap
<1>2. G \in [B -> Seq(C)]
  BY TypedType
<1>3. \A i \in 1 .. Len(s) : s[i] \in B
  BY ElementOfSeq
<1> HIDE DEF C, G
<1>4. \A i \in 1 .. Len(s) : G[s[i]] = << >>
  BY <1>1, <1>2, FlatMapNone
<1> QED BY <1>3, <1>4 DEF G, OfType

(* The texts of blocks put together are what TextOf makes of all of them.  *)
LEMMA TextsMap ==
    ASSUME NEW B, NEW s \in Seq(B), \A b \in B : b.type = "text" => b.text \in Prose
    PROVE  /\ TextOf(B) \in [B -> Prose]
           /\ FlattenSeq(Field(Typed(s, "text"), "text")) = FlatMap(s, TextOf(B))
           /\ FlatMap(s, TextOf(B)) \in Prose
<1> DEFINE C == WithType(B, "text")
           G == OfType(B, "text")
           H == [b \in C |-> b.text]
           t == Typed(s, "text")
<1>1. /\ G \in [B -> Seq(C)] /\ t \in Seq(C) /\ t = FlatMap(s, G)
      /\ H \in [C -> Seq(Pieces)] /\ \A b \in B : b.type = "text" => b \in C
  <2>1. G \in [B -> Seq(C)] /\ t \in Seq(C) /\ t = FlatMap(s, G)
    BY TypedType, TypedMap
  <2>2. H \in [C -> Seq(Pieces)] /\ \A b \in B : b.type = "text" => b \in C
    BY DEF Prose, WithType
  <2> QED BY <2>1, <2>2
<1>2. TextOf(B) \in [B -> Seq(Pieces)]
  BY DEF TextOf, Prose
<1> HIDE DEF t
<1>3. FlattenSeq(Field(t, "text")) = FlatMap(t, H)
  <2>1. \A i \in 1 .. Len(t) : t[i] \in C
    BY <1>1, ElementOfSeq
  <2>2. \A i \in 1 .. Len(t) : t[i]["text"] = H[t[i]]
    BY <2>1
  <2>3. [i \in 1 .. Len(t) |-> t[i]["text"]] = [i \in 1 .. Len(t) |-> H[t[i]]]
    BY <2>2
  <2> QED BY <2>3 DEF FlatMap, Field
<1>4. ASSUME NEW b \in B PROVE FlatMap(G[b], H) = TextOf(B)[b]
  <2>1. CASE b.type = "text"
    <3>1. G[b] = <<b>> /\ b \in C /\ H[b] = b.text /\ TextOf(B)[b] = b.text
      BY <1>1, <2>1 DEF OfType, TextOf
    <3> HIDE DEF C, H, G
    <3>2. FlatMap(<<b>>, H) = H[b]
      BY <1>1, <3>1, FlatMapOne, ZenonT(60)
    <3> QED BY <3>1, <3>2
  <2>2. CASE b.type # "text"
    <3>1. G[b] = << >> /\ TextOf(B)[b] = << >>
      BY <2>2 DEF OfType, TextOf
    <3> HIDE DEF G, H
    <3> QED BY <3>1, FlatMapEmpty
  <2> QED BY <2>1, <2>2
<1>5. FlatMap(t, H) = FlatMap(s, TextOf(B))
  <2> DEFINE K == TextOf(B)
  <2>1. \A b \in B : FlatMap(G[b], H) = K[b]
    BY <1>4
  <2> HIDE DEF C, G, H, K
  <2>3. G \in Makers(B, C) /\ H \in Makers(C, Pieces)
    BY <1>1 DEF Makers
  <2>2. FlatMap(FlatMap(s, G), H) = FlatMap(s, K)
    BY <2>1, <2>3, FlatMapTwice
  <2> QED BY <1>1, <2>2 DEF K
<1>6. FlatMap(s, TextOf(B)) \in Seq(Pieces)
  BY <1>2, FlatMapType
<1> QED BY <1>2, <1>3, <1>5, <1>6 DEF Prose, t

-----------------------------------------------------------------------------
(* Who says what.                                                          *)

Speakers == {"system", "user", "tool"}
Spoken == [who : Speakers, call : Ids \cup {Nil}, piece : Pieces]
Saying(who, call) == [x \in Pieces |-> [who |-> who, call |-> call, piece |-> x]]
Line(who, call) == [x \in Pieces |-> <<Saying(who, call)[x]>>]

(* Pieces are said one by one.                                             *)
LEMMA SaysMap ==
    ASSUME NEW pieces \in Prose, NEW who \in Speakers, NEW call \in Ids \cup {Nil}
    PROVE  /\ Says(who, call, pieces) = FlatMap(pieces, Line(who, call))
           /\ Line(who, call) \in Makers(Pieces, Spoken)
           /\ Says(who, call, pieces) \in Seq(Spoken)
<1> DEFINE g == Saying(who, call)
<1>1. g \in [Pieces -> Spoken] /\ pieces \in Seq(Pieces)
  BY DEF Saying, Spoken, Prose
<1>2. Says(who, call, pieces) = [i \in 1 .. Len(pieces) |-> g[pieces[i]]]
  <2>1. \A i \in 1 .. Len(pieces) : pieces[i] \in Pieces
    BY <1>1, ElementOfSeq
  <2> QED BY <2>1 DEF Says, Saying
<1>3. /\ Line(who, call) \in [Pieces -> Seq(Spoken)]
      /\ \A x \in Pieces : Line(who, call)[x] = <<g[x]>>
  <2>1. \A x \in Pieces : <<g[x]>> \in Seq(Spoken)
    <3> HIDE DEF g
    <3> QED BY <1>1
  <2> QED BY <2>1 DEF Line
<1>4. FlatMap(pieces, Line(who, call)) = [i \in 1 .. Len(pieces) |-> g[pieces[i]]]
  <2> DEFINE F == Line(who, call)
  <2>1. \A x \in Pieces : F[x] = <<g[x]>>
    BY <1>3
  <2> HIDE DEF F, g
  <2>2. FlatMap(pieces, F) = [i \in 1 .. Len(pieces) |-> g[pieces[i]]]
    BY <1>1, <2>1, FlatMapEach
  <2> QED BY <2>2 DEF F
<1>5. FlatMap(pieces, Line(who, call)) \in Seq(Spoken)
  <2> DEFINE G == Line(who, call)
  <2>1. G \in [Pieces -> Seq(Spoken)]
    BY <1>3
  <2> HIDE DEF G
  <2>2. FlatMap(pieces, G) \in Seq(Spoken)
    BY <1>1, <2>1, FlatMapType
  <2> QED BY <2>2 DEF G
<1> QED BY <1>2, <1>3, <1>4, <1>5 DEF Makers

(* Nothing is said in nothing.                                             *)
LEMMA SaysNothing == ASSUME NEW who, NEW call PROVE Says(who, call, << >>) = << >>
  BY DEF Says

(* What is said twice is said in one.                                      *)
LEMMA SaysBoth ==
    ASSUME NEW s \in Prose, NEW t \in Prose, NEW who \in Speakers, NEW call \in Ids \cup {Nil}
    PROVE  Says(who, call, s \o t) = Says(who, call, s) \o Says(who, call, t)
<1> DEFINE G == Line(who, call)
<1>1. s \in Seq(Pieces) /\ t \in Seq(Pieces) /\ s \o t \in Prose
  BY ConcatProperties DEF Prose
<1>2. /\ Says(who, call, s) = FlatMap(s, G) /\ Says(who, call, t) = FlatMap(t, G)
      /\ Says(who, call, s \o t) = FlatMap(s \o t, G)
  BY <1>1, SaysMap
<1>3. G \in [Pieces -> Seq(Spoken)]
  BY SaysMap DEF Makers
<1> HIDE DEF G
<1>4. FlatMap(s \o t, G) = FlatMap(s, G) \o FlatMap(t, G)
  <2>1. Spreads(G, Pieces)
    BY <1>3, Spreading
  <2> QED BY <1>1, <2>1, Zenon DEF Spreads
<1> QED BY <1>2, <1>4

(* What G makes of a list is said element by element.                      *)
LEMMA SaysEach ==
    ASSUME NEW S, NEW s \in Seq(S), NEW G \in Makers(S, Pieces), NEW K,
           NEW who \in Speakers, NEW call \in Ids \cup {Nil},
           \A e \in S : Says(who, call, G[e]) = K[e]
    PROVE  Says(who, call, FlatMap(s, G)) = FlatMap(s, K)
<1> DEFINE H == Line(who, call)
<1>1. G \in [S -> Seq(Pieces)]
  BY DEF Makers
<1>2. \A e \in S : G[e] \in Prose
  BY <1>1 DEF Prose
<1>3. H \in Makers(Pieces, Spoken) /\ \A p \in Prose : Says(who, call, p) = FlatMap(p, H)
  <2>1. << >> \in Prose
    BY EmptySeq DEF Prose
  <2> QED BY <2>1, SaysMap
<1>4. FlatMap(s, G) \in Prose
  <2>1. FlatMap(s, G) \in Seq(Pieces)
    BY <1>1, FlatMapType
  <2> QED BY <2>1 DEF Prose
<1> HIDE DEF H
<1>5. \A e \in S : FlatMap(G[e], H) = K[e]
  BY <1>2, <1>3
<1>6. FlatMap(FlatMap(s, G), H) = FlatMap(s, K)
  BY <1>3, <1>5, FlatMapTwice
<1> QED BY <1>3, <1>4, <1>6

-----------------------------------------------------------------------------
(* What parts and blocks say.                                              *)

PartSays == [p \in SentParts |-> IF p.type = "text" THEN p.text ELSE <<p.image>>]
ShownOf(B) ==
    [b \in B |-> CASE b.type = "text" -> b.text
                   [] b.type = "image" -> <<b.source.shows>>
                   [] OTHER -> << >>]

(* Parts say what they say one by one.                                     *)
LEMMA SaidMap ==
    ASSUME NEW ps \in Seq(SentParts)
    PROVE  /\ SaidIn(Parts(ps)) = FlatMap(ps, PartSays)
           /\ PartSays \in Makers(SentParts, Pieces)
           /\ SaidIn(Parts(ps)) \in Prose
<1>1. \A i \in 1 .. Len(ps) : ps[i] \in SentParts
  BY ElementOfSeq
<1>2. SaidIn(Parts(ps)) = FlattenSeq([i \in 1 .. Len(ps) |->
          IF ps[i].type = "text" THEN ps[i].text ELSE <<ps[i].image>>])
  BY DEF SaidIn, Parts
<1>3. [i \in 1 .. Len(ps) |-> IF ps[i].type = "text" THEN ps[i].text ELSE <<ps[i].image>>]
      = [i \in 1 .. Len(ps) |-> PartSays[ps[i]]]
  BY <1>1 DEF PartSays
<1>4. PartSays \in [SentParts -> Seq(Pieces)]
  <2>1. ASSUME NEW p \in SentParts PROVE PartSays[p] \in Seq(Pieces)
    <3>1. CASE p.type = "text"
      BY <3>1 DEF PartSays, SentParts, Prose
    <3>2. CASE p.type # "text"
      <4>1. p.image \in Pieces /\ PartSays[p] = <<p.image>>
        BY <3>2 DEF PartSays, SentParts
      <4> QED BY <4>1
    <3> QED BY <3>1, <3>2
  <2> QED BY <2>1 DEF PartSays
<1>5. FlatMap(ps, PartSays) \in Seq(Pieces)
  BY <1>4, FlatMapType
<1>6. SaidIn(Parts(ps)) = FlatMap(ps, PartSays)
  BY <1>2, <1>3 DEF FlatMap
<1> QED BY <1>4, <1>5, <1>6 DEF Makers, Prose

(* So do the blocks that a client holds.                                   *)
LEMMA ShownMap ==
    ASSUME NEW B \in SUBSET SeenBlocks, NEW s \in Seq(B)
    PROVE  /\ ShownIn(s) = FlatMap(s, ShownOf(B))
           /\ ShownOf(B) \in Makers(B, Pieces)
           /\ ShownIn(s) \in Prose
<1>1. \A i \in 1 .. Len(s) : s[i] \in B
  BY ElementOfSeq
<1>2. ShownIn(s) = FlatMap(s, ShownOf(B))
  <2>1. [i \in 1 .. Len(s) |-> CASE s[i].type = "text" -> s[i].text
                                 [] s[i].type = "image" -> <<s[i].source.shows>>
                                 [] OTHER -> << >>]
        = [i \in 1 .. Len(s) |-> ShownOf(B)[s[i]]]
    BY <1>1 DEF ShownOf
  <2> QED BY <2>1 DEF FlatMap, ShownIn
<1>3. ASSUME NEW b \in B PROVE ShownOf(B)[b] \in Seq(Pieces)
  <2>1. CASE b.type = "text"
    <3>1. b.text \in Prose
      BY <2>1, BlocksAssumption DEF SeenBlocks, TextBlocks, Images
    <3> QED BY <2>1, <3>1 DEF ShownOf, Prose
  <2>2. CASE b.type = "image"
    <3>1. b.source.shows \in Pieces
      BY <2>2, BlocksAssumption DEF SeenBlocks, TextBlocks, Images
    <3>2. ShownOf(B)[b] = <<b.source.shows>>
      BY <2>2 DEF ShownOf
    <3> QED BY <3>1, <3>2
  <2>3. CASE b.type \notin {"text", "image"}
    <3>1. ShownOf(B)[b] = << >>
      BY <2>3 DEF ShownOf
    <3> QED BY <3>1
  <2> QED BY <2>1, <2>2, <2>3
<1>4. ShownOf(B) \in [B -> Seq(Pieces)]
  BY <1>3 DEF ShownOf
<1>5. FlatMap(s, ShownOf(B)) \in Seq(Pieces)
  BY <1>4, FlatMapType
<1> QED BY <1>2, <1>4, <1>5 DEF Makers, Prose

-----------------------------------------------------------------------------
(* Tool results.                                                           *)

(* The blocks of a content of such blocks.                                 *)
LEMMA BlocksType ==
    ASSUME NEW B, TextBlocks \subseteq B, NEW c \in Contents(B)
    PROVE  BlocksOf(c) \in Seq(B)
<1>1. CASE c.form = "blocks"
  BY <1>1 DEF Contents, Absent, BlocksOf
<1>2. CASE c.form = "text"
  <2>1. c.text \in Prose
    BY <1>2 DEF Contents, Absent
  <2>2. [type |-> "text", text |-> c.text, mark |-> FALSE] \in B
    BY <2>1 DEF TextBlocks
  <2> QED BY <1>2, <2>2 DEF BlocksOf
<1>3. CASE c.form \notin {"blocks", "text"}
  BY <1>3, EmptySeq DEF BlocksOf
<1> QED BY <1>1, <1>2, <1>3

KnownBlocks == TextBlocks \cup Images
Tell == [b \in SeenBlocks |-> IF Telling(b) THEN <<b>> ELSE << >>]

(* The blocks of a result that are sent say what all of them say.          *)
LEMMA TellingSays ==
    ASSUME NEW blocks \in Seq(SeenBlocks)
    PROVE  LET kept == FlattenSeq([i \in 1 .. Len(blocks) |->
                                      IF Telling(blocks[i]) THEN <<blocks[i]>> ELSE << >>])
           IN  /\ kept \in Seq(KnownBlocks)
               /\ FlatMap(kept, ShownOf(KnownBlocks)) = ShownIn(blocks)
<1> DEFINE kept == FlattenSeq([i \in 1 .. Len(blocks) |->
                                  IF Telling(blocks[i]) THEN <<blocks[i]>> ELSE << >>])
           H == ShownOf(KnownBlocks)
           K == ShownOf(SeenBlocks)
<1>1. \A i \in 1 .. Len(blocks) : blocks[i] \in SeenBlocks
  BY ElementOfSeq
<1>2. kept = FlatMap(blocks, Tell)
  <2>1. [i \in 1 .. Len(blocks) |-> IF Telling(blocks[i]) THEN <<blocks[i]>> ELSE << >>]
        = [i \in 1 .. Len(blocks) |-> Tell[blocks[i]]]
    BY <1>1 DEF Tell
  <2> QED BY <2>1 DEF FlatMap
<1>3. Tell \in [SeenBlocks -> Seq(KnownBlocks)]
  <2>1. ASSUME NEW b \in SeenBlocks PROVE Tell[b] \in Seq(KnownBlocks)
    <3>1. CASE Telling(b)
      <4>1. b \in KnownBlocks
        BY <3>1, BlocksAssumption DEF Telling, SeenBlocks, KnownBlocks
      <4> QED BY <3>1, <4>1 DEF Tell
    <3>2. CASE ~ Telling(b)
      BY <3>2 DEF Tell
    <3> QED BY <3>1, <3>2
  <2> QED BY <2>1 DEF Tell
<1>4. FlatMap(blocks, Tell) \in Seq(KnownBlocks)
  BY <1>3, FlatMapType
<1>5. H \in Makers(KnownBlocks, Pieces) /\ KnownBlocks \subseteq SeenBlocks
  <2>1. KnownBlocks \in SUBSET SeenBlocks
    BY DEF KnownBlocks, SeenBlocks
  <2> QED BY <1>4, <2>1, ShownMap
<1>6. ASSUME NEW b \in SeenBlocks PROVE FlatMap(Tell[b], H) = K[b]
  <2>1. CASE Telling(b)
    <3>1. b \in KnownBlocks /\ Tell[b] = <<b>>
      BY <2>1, BlocksAssumption DEF Telling, SeenBlocks, KnownBlocks, Tell
    <3>2. H[b] = K[b]
      BY <1>5, <3>1 DEF ShownOf
    <3>3. FlatMap(<<b>>, H) = H[b]
      <4> HIDE DEF H
      <4>1. H \in [KnownBlocks -> Seq(Pieces)]
        BY <1>5 DEF Makers
      <4> QED BY <3>1, <4>1, FlatMapOne
    <3> QED BY <3>1, <3>2, <3>3
  <2>2. CASE ~ Telling(b)
    <3>1. Tell[b] = << >> /\ K[b] = << >>
      BY <2>2 DEF Telling, Tell, ShownOf
    <3> HIDE DEF H, K
    <3> QED BY <3>1, FlatMapEmpty
  <2> QED BY <2>1, <2>2
<1>7. FlatMap(FlatMap(blocks, Tell), H) = FlatMap(blocks, K)
  <2>1. Tell \in Makers(SeenBlocks, KnownBlocks)
    BY <1>3 DEF Makers
  <2> HIDE DEF H, K
  <2> QED BY <1>5, <1>6, <2>1, FlatMapTwice
<1>8. ShownIn(blocks) = FlatMap(blocks, K)
  BY ShownMap
<1> QED BY <1>2, <1>4, <1>7, <1>8

(* A mark that is kept is a mark.                                          *)
LEMMA KeptType == ASSUME NEW b, NEW m PROVE b.mark \in BOOLEAN => Kept(b, m) \in BOOLEAN
  BY DEF Kept

(* The parts of a result.                                                  *)
LEMMA ToolPartsSay ==
    ASSUME NEW blocks \in Seq(SeenBlocks), NEW m
    PROVE  /\ ToolResultParts(blocks, m) \in SentContents
           /\ SaidIn(ToolResultParts(blocks, m)) = ShownIn(blocks)
<1> DEFINE kept == FlattenSeq([i \in 1 .. Len(blocks) |->
                                  IF Telling(blocks[i]) THEN <<blocks[i]>> ELSE << >>])
           H == ShownOf(KnownBlocks)
           part(b) == IF b.type = "image" THEN ImagePart(b, m)
                      ELSE [type |-> "text", text |-> b.text, mark |-> FALSE]
           parts == [i \in 1 .. Len(kept) |-> part(kept[i])]
<1>1. kept \in Seq(KnownBlocks) /\ FlatMap(kept, H) = ShownIn(blocks)
  BY TellingSays
<1>2. ToolResultParts(blocks, m) =
          IF Typed(kept, "image") = << >> THEN Text(FlattenSeq(Field(kept, "text")))
          ELSE Parts(parts)
  BY DEF ToolResultParts
<1>3. ShownIn(blocks) \in Prose
  BY ShownMap
<1> HIDE DEF kept
<1>4. \A i \in 1 .. Len(kept) : kept[i] \in KnownBlocks
  BY <1>1, ElementOfSeq
<1>5. CASE Typed(kept, "image") = << >>
  <2>2. \A i \in 1 .. Len(kept) : kept[i].type # "image"
    BY <1>1, <1>5, NoneTyped
  <2>3. \A i \in 1 .. Len(kept) : kept[i]["text"] = H[kept[i]]
    BY <1>4, <2>2 DEF ShownOf, KnownBlocks, TextBlocks, Images
  <2>4. [i \in 1 .. Len(kept) |-> kept[i]["text"]] = [i \in 1 .. Len(kept) |-> H[kept[i]]]
    BY <2>3
  <2>5. FlattenSeq(Field(kept, "text")) = FlatMap(kept, H)
    BY <2>4 DEF Field, FlatMap
  <2>6. ToolResultParts(blocks, m) = Text(ShownIn(blocks))
    BY <1>1, <1>2, <1>5, <2>5
  <2> QED BY <1>3, <2>6 DEF SentContents, Text, SaidIn
<1>6. CASE Typed(kept, "image") # << >>
  <2>1. ASSUME NEW b \in KnownBlocks
        PROVE  part(b) \in SentParts /\ PartSays[part(b)] = H[b]
    <3>1. CASE b.type = "image"
      <4>1. part(b) = ImagePart(b, m) /\ b \in Images /\ H[b] = <<b.source.shows>>
        BY <3>1 DEF KnownBlocks, TextBlocks, ShownOf
      <4>2. ImagePart(b, m) \in SentParts
        BY <4>1, KeptType DEF ImagePart, SentParts, Images
      <4>3. PartSays[ImagePart(b, m)] = <<b.source.shows>>
        BY <4>2 DEF PartSays, ImagePart
      <4> QED BY <4>1, <4>2, <4>3
    <3>2. CASE b.type # "image"
      <4> DEFINE p == [type |-> "text", text |-> b.text, mark |-> FALSE]
      <4>1. part(b) = p /\ b \in TextBlocks /\ H[b] = b.text
        BY <3>2 DEF KnownBlocks, TextBlocks, Images, ShownOf
      <4>2. p \in SentParts
        BY <4>1 DEF SentParts, TextBlocks
      <4>3. PartSays[p] = b.text
        BY <4>2 DEF PartSays
      <4> QED BY <4>1, <4>2, <4>3
    <3> QED BY <3>1, <3>2
  <2>2. Len(kept) \in Nat /\ Len(parts) = Len(kept)
    BY <1>1, LenProperties
  <2>3. parts \in Seq(SentParts)
    <3> HIDE DEF part
    <3>1. \A i \in 1 .. Len(kept) : part(kept[i]) \in SentParts
      BY <1>4, <2>1
    <3>2. parts \in [1 .. Len(kept) -> SentParts]
      BY <3>1
    <3> QED BY <2>2, <3>2, SeqDef
  <2>4. FlatMap(parts, PartSays) = FlatMap(kept, H)
    <3> HIDE DEF part, H
    <3>1. \A i \in 1 .. Len(kept) : PartSays[parts[i]] = H[kept[i]]
      BY <1>4, <2>1
    <3>2. [i \in 1 .. Len(parts) |-> PartSays[parts[i]]] = [i \in 1 .. Len(kept) |-> H[kept[i]]]
      <4> HIDE DEF parts
      <4> QED BY <2>2, <3>1
    <3> HIDE DEF parts
    <3> QED BY <3>2 DEF FlatMap
  <2>5. SaidIn(Parts(parts)) = FlatMap(parts, PartSays) /\ Parts(parts) \in SentContents
    <3> HIDE DEF parts
    <3> QED BY <2>3, SaidMap DEF SentContents, Parts
  <2> QED BY <1>1, <1>2, <1>6, <2>4, <2>5
<1> QED BY <1>5, <1>6

(* A tool message says what its result says.                               *)
LEMMA ResultSays ==
    ASSUME NEW c \in Contents(SeenBlocks), c.form # "other", NEW m
    PROVE  /\ ToolResultContent(c, m) \in SentContents
           /\ SaidIn(ToolResultContent(c, m)) = ShownIn(BlocksOf(c))
           /\ ShownIn(BlocksOf(c)) \in Prose
<1>1. BlocksOf(c) \in Seq(SeenBlocks) /\ ShownIn(BlocksOf(c)) \in Prose
  <2>1. BlocksOf(c) \in Seq(SeenBlocks)
    BY BlocksType DEF SeenBlocks
  <2> QED BY <2>1, ShownMap
<1>2. CASE c.form = "blocks"
  <2>1. ToolResultContent(c, m) = ToolResultParts(BlocksOf(c), m)
    BY <1>2 DEF ToolResultContent, BlocksOf
  <2> QED BY <1>1, <2>1, ToolPartsSay
<1>3. CASE c.form = "text"
  <2> DEFINE b == [type |-> "text", text |-> c.text, mark |-> FALSE]
             H == ShownOf(SeenBlocks)
  <2>1. c.text \in Prose
    BY <1>3 DEF Contents, Absent
  <2>2. BlocksOf(c) = <<b>> /\ b \in SeenBlocks /\ H[b] = c.text
    BY <1>3, <2>1 DEF BlocksOf, SeenBlocks, TextBlocks, ShownOf
  <2>3. ShownIn(BlocksOf(c)) = FlatMap(BlocksOf(c), H) /\ H \in [SeenBlocks -> Seq(Pieces)]
    BY <1>1, ShownMap DEF Makers
  <2> HIDE DEF b, H
  <2>4. FlatMap(<<b>>, H) = H[b]
    BY <2>2, <2>3, FlatMapOne
  <2> QED BY <1>1, <1>3, <2>1, <2>2, <2>3, <2>4 DEF ToolResultContent, Text, SaidIn, SentContents
<1>4. CASE c.form = "absent"
  <2>1. BlocksOf(c) = << >> /\ ToolResultContent(c, m) = Text(<< >>) /\ << >> \in Prose
    BY <1>4, EmptySeq DEF BlocksOf, ToolResultContent, Prose
  <2>2. ShownIn(<< >>) = << >>
    <3>1. ShownIn(BlocksOf(c)) = FlatMap(BlocksOf(c), ShownOf(SeenBlocks))
      BY <1>1, ShownMap
    <3> QED BY <2>1, <3>1, FlatMapEmpty
  <2> QED BY <1>1, <2>1, <2>2 DEF Text, SaidIn, SentContents
<1>5. c.form \in {"absent", "text", "blocks"}
  BY DEF Contents, Absent
<1> QED BY <1>2, <1>3, <1>4, <1>5

-----------------------------------------------------------------------------
(* Taken goes through the blocks one by one.                               *)

Takes(f, s, m, n) ==
    f = [k \in 0 .. n |-> IF k = 0 THEN NothingTaken ELSE TakeBlock(f[k - 1], s[k], m)]

(* There is such a function, however many blocks.                          *)
LEMMA TakesExists == ASSUME NEW s, NEW m PROVE \A n \in Nat : \E f : Takes(f, s, m, n)
<1> DEFINE S == {n \in Nat : \E f : Takes(f, s, m, n)}
<1>1. 0 \in S
  <2> DEFINE f == [k \in 0 .. 0 |-> NothingTaken]
  <2>1. Takes(f, s, m, 0)
    BY DEF Takes
  <2> QED BY <2>1
<1>2. ASSUME NEW n \in Nat, n \in S PROVE n + 1 \in S
  <2>1. PICK f : Takes(f, s, m, n)
    BY <1>2
  <2> DEFINE g == [k \in 0 .. n + 1 |->
                      IF k <= n THEN f[k] ELSE TakeBlock(f[k - 1], s[k], m)]
  <2>2. \A k \in 0 .. n : f[k] = IF k = 0 THEN NothingTaken ELSE TakeBlock(f[k - 1], s[k], m)
    BY <2>1 DEF Takes
  <2>3. \A k \in 0 .. n + 1 :
            g[k] = IF k = 0 THEN NothingTaken ELSE TakeBlock(g[k - 1], s[k], m)
    <3> SUFFICES ASSUME NEW k \in 0 .. n + 1
                 PROVE  g[k] = IF k = 0 THEN NothingTaken ELSE TakeBlock(g[k - 1], s[k], m)
      OBVIOUS
    <3>1. k # 0 => k - 1 \in 0 .. n /\ g[k - 1] = f[k - 1]
      OBVIOUS
    <3>2. CASE k <= n
      BY <2>2, <3>1, <3>2
    <3>3. CASE ~ (k <= n)
      BY <3>1, <3>3
    <3> QED BY <3>2, <3>3
  <2>4. Takes(g, s, m, n + 1)
    BY <2>3 DEF Takes
  <2> QED BY <2>4
<1> HIDE DEF S
<1>3. \A n \in Nat : n \in S
  BY <1>1, <1>2, SetInduction
<1> QED BY <1>3 DEF S

(* It is the same for two lists as far as they agree.                      *)
LEMMA TakesAgree ==
    ASSUME NEW f, NEW g, NEW s, NEW t, NEW m, NEW n \in Nat, NEW l \in Nat, n <= l,
           Takes(f, s, m, n), Takes(g, t, m, l), \A i \in 1 .. n : s[i] = t[i]
    PROVE  \A k \in 0 .. n : f[k] = g[k]
<1> DEFINE S == {k \in Nat : k \in 0 .. n => f[k] = g[k]}
<1>1. /\ \A k \in 0 .. n : f[k] = IF k = 0 THEN NothingTaken ELSE TakeBlock(f[k - 1], s[k], m)
      /\ \A k \in 0 .. l : g[k] = IF k = 0 THEN NothingTaken ELSE TakeBlock(g[k - 1], t[k], m)
  BY DEF Takes
<1>2. 0 \in S
  BY <1>1
<1>3. ASSUME NEW k \in Nat, k \in S PROVE k + 1 \in S
  <2> SUFFICES ASSUME k + 1 \in 0 .. n PROVE f[k + 1] = g[k + 1]
    OBVIOUS
  <2>1. /\ k + 1 \in 0 .. l /\ k \in 0 .. n /\ k + 1 \in 1 .. n /\ f[k] = g[k]
        /\ (k + 1) - 1 = k /\ k + 1 # 0
    BY <1>3
  <2>2. f[k + 1] = TakeBlock(f[k], s[k + 1], m) /\ g[k + 1] = TakeBlock(g[k], t[k + 1], m)
    BY <1>1, <2>1
  <2> QED BY <2>1, <2>2
<1> HIDE DEF S
<1>4. \A k \in Nat : k \in S
  BY <1>2, <1>3, SetInduction
<1> QED BY <1>4 DEF S

(* Taken is the last value of the function.                                *)
LEMMA TakenTakes ==
    ASSUME NEW s, NEW m, NEW n \in Nat, Len(s) = n
    PROVE  \E f : Takes(f, s, m, n) /\ Taken(s, m) = f[n]
<1> DEFINE f == CHOOSE f : f = [k \in 0 .. Len(s) |->
                                  IF k = 0 THEN NothingTaken ELSE TakeBlock(f[k - 1], s[k], m)]
<1>1. Taken(s, m) = f[Len(s)]
  BY DEF Taken
<1>2. \E h : h = [k \in 0 .. Len(s) |->
                     IF k = 0 THEN NothingTaken ELSE TakeBlock(h[k - 1], s[k], m)]
  <2>1. PICK h : Takes(h, s, m, n)
    BY TakesExists
  <2> QED BY <2>1 DEF Takes
<1>3. f = [k \in 0 .. Len(s) |-> IF k = 0 THEN NothingTaken ELSE TakeBlock(f[k - 1], s[k], m)]
  BY <1>2
<1> HIDE DEF f
<1> QED BY <1>1, <1>3 DEF Takes

(* Of no blocks nothing is taken.                                          *)
LEMMA TakenEmpty == ASSUME NEW m PROVE Taken(<< >>, m) = NothingTaken
<1>1. Len(<< >>) = 0
  BY EmptySeq
<1>2. PICK f : Takes(f, << >>, m, 0) /\ Taken(<< >>, m) = f[0]
  BY <1>1, TakenTakes
<1> QED BY <1>2 DEF Takes

(* One more block is taken last.                                           *)
LEMMA TakenAppend ==
    ASSUME NEW S, NEW s \in Seq(S), NEW b \in S, NEW m
    PROVE  Taken(Append(s, b), m) = TakeBlock(Taken(s, m), b, m)
<1> DEFINE t == Append(s, b)
           n == Len(s)
<1>1. n \in Nat /\ Len(t) = n + 1 /\ t[n + 1] = b /\ \A i \in 1 .. n : s[i] = t[i]
  BY AppendProperties, LenProperties
<1>2. PICK f : Takes(f, s, m, n) /\ Taken(s, m) = f[n]
  BY <1>1, TakenTakes
<1> HIDE DEF t, n
<1>3. PICK l \in Nat : l = n + 1
  BY <1>1
<1>4. PICK g : Takes(g, t, m, l) /\ Taken(t, m) = g[l]
  BY <1>1, <1>3, TakenTakes, SMTT(30)
<1>5. f[n] = g[n]
  <2>1. n \in 0 .. n /\ n <= l /\ n \in Nat
    BY <1>1, <1>3
  <2>2. \A k \in 0 .. n : f[k] = g[k]
    BY <1>1, <1>2, <1>4, <2>1, TakesAgree
  <2> QED BY <2>1, <2>2
<1>6. g[l] = TakeBlock(g[n], t[l], m)
  <2>1. \A k \in 0 .. l : g[k] = IF k = 0 THEN NothingTaken ELSE TakeBlock(g[k - 1], t[k], m)
    BY <1>4, Zenon DEF Takes
  <2>2. l \in 0 .. l /\ l # 0 /\ l - 1 = n
    BY <1>1, <1>3
  <2> QED BY <2>1, <2>2
<1> QED BY <1>1, <1>2, <1>3, <1>4, <1>5, <1>6 DEF t

-----------------------------------------------------------------------------
(* A user turn, read message by message and part by part.                  *)

GoodBlocks == {b \in UserBlocks : ~ BadResult(b)}

(* The blocks of a user turn are told apart by their type.                 *)
LEMMA BlockKinds ==
    ASSUME NEW b \in GoodBlocks
    PROVE  /\ b.type = "text" => b \in TextBlocks
           /\ b.type = "image" => b \in Images
           /\ b.type = "tool_result" =>
                  b.toolUseId \in Ids /\ b.content \in Contents(SeenBlocks) /\ b.content.form # "other"
           /\ b.type \notin {"text", "image", "tool_result"} => b \in OtherBlocks
<1>1. b \in TextBlocks \/ b \in Images \/ b \in OtherBlocks \/ b \in Results
  BY DEF GoodBlocks, UserBlocks, SeenBlocks
<1>2. b \in OtherBlocks => b.type \notin {"text", "image", "tool_result"}
  BY BlocksAssumption
<1>3. b.type = "tool_result" => b \in Results /\ b.content.form # "other"
  BY <1>1, <1>2 DEF TextBlocks, Images, GoodBlocks, BadResult
<1> QED BY <1>1, <1>2, <1>3 DEF TextBlocks, Images, Results

(* A text or an image becomes a part, a result a message.                  *)
LEMMA PartsType ==
    ASSUME NEW b \in GoodBlocks, NEW m
    PROVE  /\ b.type = "text" => TextPart(b, m) \in SentParts
           /\ b.type = "image" => ImagePart(b, m) \in SentParts
           /\ b.type = "tool_result" => ToolMessage(b, m) \in SentTurns
<1>1. CASE b.type = "text"
  BY <1>1, BlockKinds, KeptType DEF TextPart, SentParts, TextBlocks
<1>2. CASE b.type = "image"
  BY <1>2, BlockKinds, KeptType DEF ImagePart, SentParts, Images
<1>3. CASE b.type = "tool_result"
  <2>1. ToolResultContent(b.content, m) \in SentContents /\ b.toolUseId \in Ids
    BY <1>3, BlockKinds, ResultSays
  <2> QED BY <1>3, <2>1 DEF ToolMessage, SentTurns
<1> QED BY <1>1, <1>2, <1>3

(* What is pending is flushed into one message, or none.                   *)
LEMMA FlushedType ==
    ASSUME NEW parts \in Seq(SentParts)
    PROVE  Flushed(parts) \in Seq(SentTurns)
<1>1. CASE parts = << >>
  BY <1>1, EmptySeq DEF Flushed
<1>2. CASE parts # << >>
  <2>1. UserMessage(parts) \in SentTurns
    <3>1. CASE Len(parts) = 1 /\ parts[1].type = "text" /\ ~ parts[1].mark
      <4>1. parts[1] \in SentParts
        BY <3>1, ElementOfSeq
      <4>2. parts[1].text \in Prose
        BY <3>1, <4>1 DEF SentParts
      <4> QED BY <3>1, <4>2 DEF UserMessage, SentTurns, SentContents, Text
    <3>2. CASE ~ (Len(parts) = 1 /\ parts[1].type = "text" /\ ~ parts[1].mark)
      BY <3>2 DEF UserMessage, SentTurns, SentContents, Parts
    <3> QED BY <3>1, <3>2
  <2> HIDE DEF UserMessage
  <2> QED BY <1>2, <2>1 DEF Flushed
<1> QED BY <1>1, <1>2

(* R reads a message and P a part: a flush reads as its parts do, and so   *)
(* does each block as K says.                                              *)
Reads(R, P, T) ==
    /\ R \in Makers(SentTurns, T)
    /\ P \in Makers(SentParts, T)
    /\ \A parts \in Seq(SentParts) : FlatMap(Flushed(parts), R) = FlatMap(parts, P)
ReadsAs(R, P, K, m) ==
    \A b \in GoodBlocks :
        /\ b.type = "text" => K[b] = P[TextPart(b, m)]
        /\ b.type = "image" => K[b] = P[ImagePart(b, m)]
        /\ b.type = "tool_result" => K[b] = R[ToolMessage(b, m)]
        /\ b.type \notin {"text", "image", "tool_result"} => K[b] = << >>

AccType == [messages : Seq(SentTurns), parts : Seq(SentParts)]
AccReads(acc, R, P) == FlatMap(acc.messages, R) \o FlatMap(acc.parts, P)

(* A block that is taken adds what it reads as.                            *)
LEMMA TakeBlockReads ==
    ASSUME NEW T, NEW R, NEW P, NEW K, NEW m, Reads(R, P, T), ReadsAs(R, P, K, m),
           NEW acc \in AccType, NEW b \in GoodBlocks
    PROVE  /\ TakeBlock(acc, b, m) \in AccType
           /\ AccReads(TakeBlock(acc, b, m), R, P) = AccReads(acc, R, P) \o K[b]
<1> DEFINE next == TakeBlock(acc, b, m)
<1>1. R \in [SentTurns -> Seq(T)] /\ P \in [SentParts -> Seq(T)]
  BY DEF Reads, Makers
<1>2. acc.messages \in Seq(SentTurns) /\ acc.parts \in Seq(SentParts)
  BY DEF AccType
<1>3. FlatMap(acc.messages, R) \in Seq(T) /\ FlatMap(acc.parts, P) \in Seq(T)
  BY <1>1, <1>2, FlatMapType
<1>4. ASSUME NEW p \in SentParts, K[b] = P[p],
             next = [acc EXCEPT !.parts = Append(@, p)]
      PROVE  next \in AccType /\ AccReads(next, R, P) = AccReads(acc, R, P) \o K[b]
  <2> HIDE DEF next
  <2>1. next.messages = acc.messages /\ next.parts = Append(acc.parts, p)
        /\ next = [messages |-> acc.messages, parts |-> Append(acc.parts, p)]
    BY <1>4 DEF AccType
  <2>2. Append(acc.parts, p) \in Seq(SentParts)
    BY <1>2, AppendProperties
  <2>3. FlatMap(Append(acc.parts, p), P) = FlatMap(acc.parts, P) \o P[p] /\ P[p] \in Seq(T)
    <3>1. Spreads(P, SentParts)
      BY <1>1, Spreading
    <3> QED BY <1>1, <1>2, <3>1, Zenon DEF Spreads
  <2>4. FlatMap(acc.messages, R) \o (FlatMap(acc.parts, P) \o P[p])
        = (FlatMap(acc.messages, R) \o FlatMap(acc.parts, P)) \o P[p]
    <3>1. AssociativeOn(T)
      BY Associative
    <3> QED BY <1>3, <2>3, <3>1, Zenon DEF AssociativeOn
  <2>5. next \in AccType
    BY <1>2, <2>1, <2>2 DEF AccType
  <2> QED BY <1>4, <2>1, <2>3, <2>4, <2>5 DEF AccReads
<1>5. CASE b.type = "text"
  <2>1. next = [acc EXCEPT !.parts = Append(@, TextPart(b, m))]
    BY <1>5 DEF TakeBlock
  <2>2. TextPart(b, m) \in SentParts /\ K[b] = P[TextPart(b, m)]
    BY <1>5, PartsType DEF ReadsAs
  <2> HIDE DEF next
  <2>3. next \in AccType /\ AccReads(next, R, P) = AccReads(acc, R, P) \o K[b]
    BY <1>4, <2>1, <2>2
  <2> QED BY <2>3 DEF next
<1>6. CASE b.type = "image"
  <2>1. next = [acc EXCEPT !.parts = Append(@, ImagePart(b, m))]
    BY <1>6 DEF TakeBlock
  <2>2. ImagePart(b, m) \in SentParts /\ K[b] = P[ImagePart(b, m)]
    BY <1>6, PartsType DEF ReadsAs
  <2> HIDE DEF next
  <2>3. next \in AccType /\ AccReads(next, R, P) = AccReads(acc, R, P) \o K[b]
    BY <1>4, <2>1, <2>2
  <2> QED BY <2>3 DEF next
<1>7. CASE b.type = "tool_result"
  <2> DEFINE msg == ToolMessage(b, m)
             flushed == Flushed(acc.parts)
  <2>1. next = [messages |-> acc.messages \o flushed \o <<msg>>, parts |-> << >>]
    BY <1>7 DEF TakeBlock
  <2>2. msg \in SentTurns /\ K[b] = R[msg] /\ R[msg] \in Seq(T)
    BY <1>1, <1>7, PartsType DEF ReadsAs
  <2>3. flushed \in Seq(SentTurns) /\ FlatMap(flushed, R) = FlatMap(acc.parts, P)
    BY <1>2, FlushedType DEF Reads
  <2> HIDE DEF msg, flushed, next
  <2>4. acc.messages \o flushed \in Seq(SentTurns) /\ << >> \in Seq(SentParts)
    BY <1>2, <2>3, ConcatProperties, EmptySeq
  <2>5. (acc.messages \o flushed) \o <<msg>> = Append(acc.messages \o flushed, msg)
    BY <2>2, <2>4, AppendIsConcat
  <2>6. Append(acc.messages \o flushed, msg) \in Seq(SentTurns)
    BY <2>2, <2>4, AppendProperties
  <2>7. FlatMap(Append(acc.messages \o flushed, msg), R) = FlatMap(acc.messages \o flushed, R) \o R[msg]
    BY <1>1, <2>2, <2>4, FlatMapAppend, ZenonT(60)
  <2>8. FlatMap(acc.messages \o flushed, R) = FlatMap(acc.messages, R) \o FlatMap(acc.parts, P)
    <3>1. FlatMap(acc.messages \o flushed, R) = FlatMap(acc.messages, R) \o FlatMap(flushed, R)
      <4>1. Spreads(R, SentTurns)
        BY <1>1, Spreading
      <4> QED BY <1>2, <2>3, <4>1, Zenon DEF Spreads
    <3> QED BY <2>3, <3>1
  <2>9. next.messages = Append(acc.messages \o flushed, msg) /\ next.parts = << >>
    BY <2>1, <2>5
  <2>10. next \in AccType
    BY <2>1, <2>4, <2>5, <2>6 DEF AccType
  <2>11. AccReads(acc, R, P) \o K[b] \in Seq(T)
    BY <1>3, <2>2, ConcatProperties DEF AccReads
  <2>12. AccReads(next, R, P) = (AccReads(acc, R, P) \o K[b]) \o << >>
    BY <2>2, <2>7, <2>8, <2>9, FlatMapEmpty DEF AccReads
  <2>13. AccReads(next, R, P) = AccReads(acc, R, P) \o K[b]
    BY <2>11, <2>12, ConcatEmptySeq
  <2> QED BY <2>10, <2>13 DEF next
<1>8. CASE b.type \notin {"text", "image", "tool_result"}
  <2>1. next = acc /\ K[b] = << >>
    BY <1>8 DEF TakeBlock, ReadsAs
  <2>2. AccReads(acc, R, P) \in Seq(T)
    BY <1>3, ConcatProperties DEF AccReads
  <2> HIDE DEF next
  <2>3. AccReads(next, R, P) = AccReads(acc, R, P) \o K[b]
    BY <2>1, <2>2, ConcatEmptySeq
  <2> QED BY <2>1, <2>3 DEF next
<1> QED BY <1>5, <1>6, <1>7, <1>8

(* A user turn reads as its blocks do, one by one and in their order.      *)
LEMMA UserReads ==
    ASSUME NEW T, NEW R, NEW P, NEW K, NEW m, Reads(R, P, T), ReadsAs(R, P, K, m),
           NEW c, BlocksOf(c) \in Seq(GoodBlocks)
    PROVE  /\ UserMessages(c, m) \in Seq(SentTurns)
           /\ FlatMap(UserMessages(c, m), R) = FlatMap(BlocksOf(c), K)
<1> DEFINE G == [b \in GoodBlocks |-> K[b]]
           V == {s \in Seq(GoodBlocks) :
                     /\ Taken(s, m) \in AccType
                     /\ AccReads(Taken(s, m), R, P) = FlatMap(s, G)}
<1>1. R \in [SentTurns -> Seq(T)] /\ P \in [SentParts -> Seq(T)]
  BY DEF Reads, Makers
<1>2. ASSUME NEW b \in GoodBlocks PROVE K[b] \in Seq(T)
  <2>1. CASE b.type = "text"
    BY <1>1, <2>1, PartsType DEF ReadsAs
  <2>2. CASE b.type = "image"
    BY <1>1, <2>2, PartsType DEF ReadsAs
  <2>3. CASE b.type = "tool_result"
    BY <1>1, <2>3, PartsType DEF ReadsAs
  <2>4. CASE b.type \notin {"text", "image", "tool_result"}
    BY <2>4, EmptySeq DEF ReadsAs
  <2> QED BY <2>1, <2>2, <2>3, <2>4
<1>3. G \in [GoodBlocks -> Seq(T)] /\ \A b \in GoodBlocks : G[b] = K[b]
  BY <1>2
<1> HIDE DEF G
<1>4. << >> \in V
  <2>1. NothingTaken \in AccType /\ << >> \o << >> = << >>
    BY EmptySeq, ConcatEmptySeq DEF NothingTaken, AccType
  <2>2. AccReads(NothingTaken, R, P) = << >>
    BY <2>1, FlatMapEmpty DEF NothingTaken, AccReads
  <2> QED BY <2>1, <2>2, TakenEmpty, FlatMapEmpty, EmptySeq
<1>5. ASSUME NEW s \in Seq(GoodBlocks), NEW b \in GoodBlocks, s \in V PROVE Append(s, b) \in V
  <2>1. Taken(Append(s, b), m) = TakeBlock(Taken(s, m), b, m)
    BY TakenAppend
  <2>2. Taken(s, m) \in AccType /\ AccReads(Taken(s, m), R, P) = FlatMap(s, G)
    BY <1>5
  <2>3. /\ TakeBlock(Taken(s, m), b, m) \in AccType
        /\ AccReads(TakeBlock(Taken(s, m), b, m), R, P) = AccReads(Taken(s, m), R, P) \o K[b]
    <3>1. \A acc \in AccType :
              /\ TakeBlock(acc, b, m) \in AccType
              /\ AccReads(TakeBlock(acc, b, m), R, P) = AccReads(acc, R, P) \o K[b]
      BY TakeBlockReads
    <3> QED BY <2>2, <3>1, Zenon
  <2>4. FlatMap(Append(s, b), G) = FlatMap(s, G) \o G[b]
    BY <1>3, FlatMapAppend
  <2> QED BY <1>3, <2>1, <2>2, <2>3, <2>4, AppendProperties
<1> HIDE DEF V
<1>6. BlocksOf(c) \in V
  BY <1>4, <1>5, ListInduction
<1> DEFINE acc == Taken(BlocksOf(c), m)
<1>7. /\ acc.messages \in Seq(SentTurns) /\ acc.parts \in Seq(SentParts)
      /\ FlatMap(acc.messages, R) \o FlatMap(acc.parts, P) = FlatMap(BlocksOf(c), G)
  BY <1>6 DEF V, AccType, AccReads
<1>8. UserMessages(c, m) = acc.messages \o Flushed(acc.parts)
  BY DEF UserMessages
<1> HIDE DEF acc
<1>9. Flushed(acc.parts) \in Seq(SentTurns) /\ FlatMap(Flushed(acc.parts), R) = FlatMap(acc.parts, P)
  BY <1>7, FlushedType DEF Reads
<1>10. FlatMap(UserMessages(c, m), R) = FlatMap(BlocksOf(c), G)
  <2>1. FlatMap(acc.messages \o Flushed(acc.parts), R)
        = FlatMap(acc.messages, R) \o FlatMap(Flushed(acc.parts), R)
    <3>1. \A x \in Seq(SentTurns), y \in Seq(SentTurns) :
              FlatMap(x \o y, R) = FlatMap(x, R) \o FlatMap(y, R)
      <4>1. Spreads(R, SentTurns)
        BY <1>1, Spreading
      <4> QED BY <1>1, <4>1, Zenon DEF Spreads
    <3> QED BY <1>7, <1>9, <3>1, Zenon
  <2> QED BY <1>7, <1>8, <1>9, <2>1
<1>11. FlatMap(BlocksOf(c), G) = FlatMap(BlocksOf(c), K)
  <2>1. \A i \in 1 .. Len(BlocksOf(c)) : G[BlocksOf(c)[i]] = K[BlocksOf(c)[i]]
    BY <1>3, ElementOfSeq
  <2> QED BY <2>1, FlatMapAgree
<1>12. UserMessages(c, m) \in Seq(SentTurns)
  BY <1>7, <1>8, <1>9, ConcatProperties
<1> QED BY <1>10, <1>11, <1>12

-----------------------------------------------------------------------------
(* What the messages of a turn say.                                        *)

SentSays == [msg \in SentTurns |-> SentMessage(msg)]
PartSpoken == [p \in SentParts |-> Says("user", Nil, PartSays[p])]
UserSays == [b \in GoodBlocks |-> HeldBlock("user", b)]

(* A content says pieces.                                                  *)
LEMMA SaidType == ASSUME NEW c \in SentContents PROVE SaidIn(c) \in Prose
<1>1. CASE c.form = "parts"
  <2>1. c.parts \in Seq(SentParts)
    BY <1>1 DEF SentContents, Absent
  <2>2. SaidIn(c) = SaidIn(Parts(c.parts))
    BY <1>1 DEF SaidIn, Parts
  <2> QED BY <2>1, <2>2, SaidMap
<1>2. CASE c.form = "text"
  BY <1>2 DEF SentContents, Absent, SaidIn
<1>3. CASE c.form \notin {"parts", "text"}
  BY <1>3, EmptySeq DEF SaidIn, Prose
<1> QED BY <1>1, <1>2, <1>3

(* So does a message.                                                      *)
LEMMA SentSaysType == SentSays \in Makers(SentTurns, Spoken)
<1>1. ASSUME NEW msg \in SentTurns PROVE SentMessage(msg) \in Seq(Spoken)
  <2>1. msg.content \in SentContents /\ msg.role \in Speakers \cup {"assistant"}
    BY DEF SentTurns, Speakers
  <2>2. SaidIn(msg.content) \in Prose
    BY <2>1, SaidType
  <2>3. CASE msg.role = "assistant"
    BY <2>3, EmptySeq DEF SentMessage
  <2>4. CASE msg.role = "tool"
    <3>1. msg.callId \in Ids
      BY <2>4 DEF SentTurns
    <3>2. SentMessage(msg) = Says("tool", msg.callId, SaidIn(msg.content))
      BY <2>4 DEF SentMessage
    <3>3. "tool" \in Speakers
      BY DEF Speakers
    <3> QED BY <2>2, <3>1, <3>2, <3>3, SaysMap
  <2>5. CASE msg.role \notin {"assistant", "tool"}
    <3>1. SentMessage(msg) = Says(msg.role, Nil, SaidIn(msg.content))
      BY <2>5 DEF SentMessage
    <3>2. msg.role \in Speakers
      BY <2>1, <2>5
    <3> QED BY <2>2, <3>1, <3>2, SaysMap
  <2> QED BY <2>3, <2>4, <2>5
<1> QED BY <1>1 DEF SentSays, Makers

(* A user message says what its parts say, collapsed or not.               *)
LEMMA UserMessageSays ==
    ASSUME NEW parts \in Seq(SentParts), parts # << >>
    PROVE  /\ UserMessage(parts) \in SentTurns
           /\ UserMessage(parts).role = "user"
           /\ SaidIn(UserMessage(parts).content) = FlatMap(parts, PartSays)
<1> DEFINE msg == UserMessage(parts)
<1>1. msg \in SentTurns
  <2>1. Flushed(parts) \in Seq(SentTurns) /\ Flushed(parts) = <<msg>>
    BY FlushedType DEF Flushed
  <2> HIDE DEF msg
  <2>2. <<msg>>[1] = msg /\ 1 \in 1 .. Len(<<msg>>)
    OBVIOUS
  <2> QED BY <2>1, <2>2, ElementOfSeq
<1>2. SaidIn(Parts(parts)) = FlatMap(parts, PartSays)
  BY SaidMap
<1>3. CASE Len(parts) = 1 /\ parts[1].type = "text" /\ ~ parts[1].mark
  <2>1. parts[1] \in SentParts /\ parts = <<parts[1]>>
    BY <1>3, ElementOfSeq
  <2>2. PartSays[parts[1]] = parts[1].text
    BY <1>3, <2>1 DEF PartSays
  <2>3. PartSays \in [SentParts -> Seq(Pieces)]
    BY SaidMap DEF Makers
  <2>4. FlatMap(<<parts[1]>>, PartSays) = PartSays[parts[1]]
    BY <2>1, <2>3, FlatMapOne
  <2>5. msg.content = Text(parts[1].text) /\ msg.role = "user"
    BY <1>3 DEF UserMessage
  <2>6. SaidIn(Text(parts[1].text)) = parts[1].text
    BY DEF SaidIn, Text
  <2> QED BY <1>1, <2>1, <2>2, <2>4, <2>5, <2>6
<1>4. CASE ~ (Len(parts) = 1 /\ parts[1].type = "text" /\ ~ parts[1].mark)
  <2>1. msg.content = Parts(parts) /\ msg.role = "user"
    BY <1>4 DEF UserMessage
  <2> QED BY <1>1, <1>2, <2>1
<1> QED BY <1>3, <1>4

(* What is flushed says what the parts say, in the user's name.            *)
LEMMA SayingReads == Reads(SentSays, PartSpoken, Spoken)
<1>1. PartSpoken \in Makers(SentParts, Spoken)
  <2>1. \A p \in SentParts : PartSays[p] \in Prose
    <3>1. << >> \in Seq(SentParts)
      BY EmptySeq
    <3>2. PartSays \in [SentParts -> Seq(Pieces)]
      BY <3>1, SaidMap DEF Makers
    <3> QED BY <3>2 DEF Prose
  <2>2. "user" \in Speakers
    BY DEF Speakers
  <2>3. \A t \in Prose : Says("user", Nil, t) \in Seq(Spoken)
    BY <2>2, SaysMap
  <2>4. \A p \in SentParts : Says("user", Nil, PartSays[p]) \in Seq(Spoken)
    BY <2>1, <2>3
  <2> QED BY <2>4 DEF PartSpoken, Makers
<1>2. ASSUME NEW parts \in Seq(SentParts)
      PROVE  FlatMap(Flushed(parts), SentSays) = FlatMap(parts, PartSpoken)
  <2>1. CASE parts = << >>
    BY <2>1, FlatMapEmpty DEF Flushed
  <2>2. CASE parts # << >>
    <3> DEFINE msg == UserMessage(parts)
    <3>1. msg \in SentTurns /\ msg.role = "user" /\ SaidIn(msg.content) = FlatMap(parts, PartSays)
      BY <2>2, UserMessageSays
    <3>2. Flushed(parts) = <<msg>>
      BY <2>2 DEF Flushed
    <3> HIDE DEF msg
    <3>3. SentSays[msg] = Says("user", Nil, FlatMap(parts, PartSays))
      BY <3>1 DEF SentSays, SentMessage
    <3>4. FlatMap(<<msg>>, SentSays) = SentSays[msg]
      <4>1. SentSays \in [SentTurns -> Seq(Spoken)]
        BY SentSaysType DEF Makers
      <4> QED BY <3>1, <4>1, FlatMapOne
    <3>5. Says("user", Nil, FlatMap(parts, PartSays)) = FlatMap(parts, PartSpoken)
      <4>1. PartSays \in Makers(SentParts, Pieces)
        BY SaidMap
      <4>2. \A p \in SentParts : Says("user", Nil, PartSays[p]) = PartSpoken[p]
        BY DEF PartSpoken
      <4>3. "user" \in Speakers
        BY DEF Speakers
      <4> QED BY <4>1, <4>2, <4>3, SaysEach
    <3> QED BY <3>2, <3>3, <3>4, <3>5
  <2> QED BY <2>1, <2>2
<1> QED BY <1>1, <1>2, SentSaysType DEF Reads

(* One block shows what ShownOf makes of it.                               *)
LEMMA ShownOne ==
    ASSUME NEW b \in SeenBlocks
    PROVE  ShownIn(<<b>>) = ShownOf(SeenBlocks)[b] /\ ShownIn(<<b>>) \in Prose
<1>1. <<b>> \in Seq(SeenBlocks)
  OBVIOUS
<1>2. /\ ShownIn(<<b>>) = FlatMap(<<b>>, ShownOf(SeenBlocks)) /\ ShownIn(<<b>>) \in Prose
      /\ ShownOf(SeenBlocks) \in [SeenBlocks -> Seq(Pieces)]
  BY <1>1, ShownMap DEF Makers
<1> DEFINE H == ShownOf(SeenBlocks)
<1> HIDE DEF H
<1>3. FlatMap(<<b>>, H) = H[b]
  <2>1. H \in [SeenBlocks -> Seq(Pieces)]
    BY <1>2 DEF H
  <2> QED BY <2>1, FlatMapOne
<1> QED BY <1>2, <1>3 DEF H

(* A block says as a part or a message what it says in the client's hands. *)
LEMMA SayingReadsAs == ASSUME NEW m PROVE ReadsAs(SentSays, PartSpoken, UserSays, m)
<1> SUFFICES ASSUME NEW b \in GoodBlocks
             PROVE  /\ b.type = "text" => UserSays[b] = PartSpoken[TextPart(b, m)]
                    /\ b.type = "image" => UserSays[b] = PartSpoken[ImagePart(b, m)]
                    /\ b.type = "tool_result" => UserSays[b] = SentSays[ToolMessage(b, m)]
                    /\ b.type \notin {"text", "image", "tool_result"} => UserSays[b] = << >>
  BY DEF ReadsAs
<1>1. UserSays[b] = HeldBlock("user", b)
  BY DEF UserSays
<1>2. ASSUME b.type # "tool_result"
      PROVE  UserSays[b] = Says("user", Nil, ShownOf(SeenBlocks)[b])
  <2>1. b \in SeenBlocks
    BY <1>2, BlockKinds DEF SeenBlocks
  <2>2. HeldBlock("user", b) = Says("user", Nil, ShownIn(<<b>>))
    BY <1>2 DEF HeldBlock
  <2> QED BY <1>1, <2>1, <2>2, ShownOne
<1>3. CASE b.type = "text"
  <2>1. TextPart(b, m) \in SentParts
    BY <1>3, PartsType
  <2>2. PartSays[TextPart(b, m)] = b.text
    BY <2>1 DEF PartSays, TextPart
  <2>3. ShownOf(SeenBlocks)[b] = b.text
    BY <1>3, BlockKinds DEF ShownOf, SeenBlocks
  <2> QED BY <1>2, <1>3, <2>1, <2>2, <2>3 DEF PartSpoken
<1>4. CASE b.type = "image"
  <2>1. ImagePart(b, m) \in SentParts
    BY <1>4, PartsType
  <2>2. PartSays[ImagePart(b, m)] = <<b.source.shows>>
    BY <2>1 DEF PartSays, ImagePart
  <2>3. ShownOf(SeenBlocks)[b] = <<b.source.shows>>
    BY <1>4, BlockKinds DEF ShownOf, SeenBlocks
  <2> QED BY <1>2, <1>4, <2>1, <2>2, <2>3 DEF PartSpoken
<1>5. CASE b.type = "tool_result"
  <2>1. ToolMessage(b, m) \in SentTurns
    BY <1>5, PartsType
  <2>2. SentSays[ToolMessage(b, m)]
        = Says("tool", b.toolUseId, SaidIn(ToolResultContent(b.content, m)))
    BY <2>1 DEF SentSays, SentMessage, ToolMessage
  <2>3. SaidIn(ToolResultContent(b.content, m)) = ShownIn(BlocksOf(b.content))
    BY <1>5, BlockKinds, ResultSays
  <2>4. HeldBlock("user", b) = Says("tool", b.toolUseId, ShownIn(BlocksOf(b.content)))
    BY <1>5 DEF HeldBlock
  <2> QED BY <1>1, <1>5, <2>2, <2>3, <2>4
<1>6. CASE b.type \notin {"text", "image", "tool_result"}
  <2>1. ShownOf(SeenBlocks)[b] = << >>
    BY <1>6, BlockKinds DEF ShownOf, SeenBlocks
  <2> QED BY <1>2, <1>6, <2>1, SaysNothing
<1> QED BY <1>3, <1>4, <1>5, <1>6

-----------------------------------------------------------------------------
(* System and assistant messages.                                          *)

Thoughts == [type : {"thinking"}, thinking : Prose]
PlainTexts == [type : {"text"}, text : Prose, mark : {FALSE}]
Uses == [type : {"tool_use"}, id : Ids, mark : {FALSE}, input : Inputs]
AnswerBlocks == Thoughts \cup PlainTexts \cup Uses
AssistantTurns ==
    [role : {"assistant"}, content : [form : {"blocks"}, blocks : Seq(AnswerBlocks)]]
HistoryTurns == ClientTurns \cup AssistantTurns
GoodTurns == {t \in HistoryTurns : ~ BadTurn(t)}

SystemSays == [b \in SystemBlocks |-> HeldBlock("system", b)]

(* What a system prompt or message says, of its texts and no more.         *)
LEMMA SystemTextSays ==
    ASSUME NEW c \in Contents(SystemBlocks)
    PROVE  /\ SystemText(c) \in Prose
           /\ Says("system", Nil, SystemText(c))
              = HeldTurn([role |-> "system", content |-> c])
<1> DEFINE s == BlocksOf(c)
           G == TextOf(SystemBlocks)
<1>1. s \in Seq(SystemBlocks)
  BY BlocksType DEF SystemBlocks
<1>2. \A b \in SystemBlocks : b.type = "text" => b.text \in Prose
  BY BlocksAssumption DEF SystemBlocks, TextBlocks
<1>3. G \in [SystemBlocks -> Prose] /\ SystemText(c) = FlatMap(s, G) /\ SystemText(c) \in Prose
  BY <1>1, <1>2, TextsMap DEF SystemText
<1>4. G \in Makers(SystemBlocks, Pieces)
  BY <1>3 DEF Makers, Prose
<1>5. ASSUME NEW b \in SystemBlocks PROVE Says("system", Nil, G[b]) = SystemSays[b]
  <2>1. b \in SeenBlocks /\ b.type \notin {"tool_result", "image"}
    BY BlocksAssumption DEF SystemBlocks, SeenBlocks, TextBlocks
  <2>2. SystemSays[b] = Says("system", Nil, ShownIn(<<b>>))
    BY <2>1 DEF SystemSays, HeldBlock
  <2>3. ShownOf(SeenBlocks)[b] = G[b]
    BY <2>1 DEF ShownOf, TextOf
  <2> QED BY <2>1, <2>2, <2>3, ShownOne
<1>6. HeldTurn([role |-> "system", content |-> c]) = FlatMap(s, SystemSays)
  <2>1. \A i \in 1 .. Len(s) : s[i] \in SystemBlocks
    BY <1>1, ElementOfSeq
  <2>2. [i \in 1 .. Len(s) |-> HeldBlock("system", s[i])] = [i \in 1 .. Len(s) |-> SystemSays[s[i]]]
    BY <2>1 DEF SystemSays
  <2>3. HeldTurn([role |-> "system", content |-> c])
        = FlattenSeq([i \in 1 .. Len(s) |-> HeldBlock("system", s[i])])
    BY DEF HeldTurn
  <2> QED BY <2>2, <2>3 DEF FlatMap
<1>7. "system" \in Speakers
  BY DEF Speakers
<1> HIDE DEF G, s
<1>8. Says("system", Nil, FlatMap(s, G)) = FlatMap(s, SystemSays)
  BY <1>1, <1>4, <1>5, <1>7, SaysEach
<1> QED BY <1>3, <1>6, <1>8

(* It leaves as one message, or none when there is nothing to say.         *)
LEMMA SystemMessagesSay ==
    ASSUME NEW c \in Contents(SystemBlocks)
    PROVE  /\ SystemMessages(c) \in Seq(SentTurns)
           /\ FlatMap(SystemMessages(c), SentSays) = HeldTurn([role |-> "system", content |-> c])
<1> DEFINE t == SystemText(c)
           msg == [role |-> "system", content |-> Text(t)]
<1>1. t \in Prose /\ Says("system", Nil, t) = HeldTurn([role |-> "system", content |-> c])
  BY SystemTextSays
<1>2. CASE t = << >>
  <2>1. SystemMessages(c) = << >>
    BY <1>2 DEF SystemMessages
  <2> QED BY <1>1, <1>2, <2>1, SaysNothing, FlatMapEmpty, EmptySeq
<1>3. CASE t # << >>
  <2>1. SystemMessages(c) = <<msg>>
    BY <1>3 DEF SystemMessages
  <2>2. msg \in SentTurns
    BY <1>1 DEF SentTurns, SentContents, Text
  <2>3. SentSays[msg] = Says("system", Nil, t)
    BY <2>2 DEF SentSays, SentMessage, SaidIn, Text
  <2> HIDE DEF msg
  <2>4. FlatMap(<<msg>>, SentSays) = SentSays[msg]
    <3>1. SentSays \in [SentTurns -> Seq(Spoken)]
      BY SentSaysType DEF Makers
    <3> QED BY <2>2, <3>1, FlatMapOne
  <2> QED BY <1>1, <2>1, <2>2, <2>3, <2>4
<1> QED BY <1>2, <1>3

(* A list made over element by element is a list of what is made.          *)
LEMMA MapType ==
    ASSUME NEW S, NEW T, NEW s \in Seq(S), NEW g, \A e \in S : g[e] \in T
    PROVE  /\ [i \in 1 .. Len(s) |-> g[s[i]]] \in Seq(T)
           /\ Len([i \in 1 .. Len(s) |-> g[s[i]]]) = Len(s)
<1> DEFINE f == [i \in 1 .. Len(s) |-> g[s[i]]]
<1>1. \A i \in 1 .. Len(s) : s[i] \in S
  BY ElementOfSeq
<1>2. f \in [1 .. Len(s) -> T] /\ Len(s) \in Nat
  BY <1>1, LenProperties
<1>3. f \in Seq(T)
  BY <1>2, SeqDef
<1> QED BY <1>2, <1>3, LenProperties

(* The texts of an answer carry no marks and leave as they came.           *)
LEMMA PlainTextPart ==
    ASSUME NEW b \in PlainTexts, NEW m
    PROVE  TextPart(b, m) = b /\ b \in SentParts
<1>1. b = [type |-> "text", text |-> b.text, mark |-> FALSE]
  BY DEF PlainTexts
<1>2. b.mark = FALSE /\ b.text \in Prose
  BY DEF PlainTexts
<1>3. Kept(b, m) = FALSE
  BY <1>2 DEF Kept
<1>4. TextPart(b, m) = [type |-> "text", text |-> b.text, mark |-> FALSE]
  BY <1>3 DEF TextPart
<1>5. [type |-> "text", text |-> b.text, mark |-> FALSE] \in SentParts
  BY <1>2 DEF SentParts
<1> QED BY <1>1, <1>4, <1>5

(* The message of a turn whose texts leave as they are.                    *)
CallsIn(blocks) ==
    LET uses == Typed(blocks, "tool_use") IN [i \in 1 .. Len(uses) |-> Call(uses[i])]
ThoughtIn(blocks) == FlattenSeq(Field(Typed(blocks, "thinking"), "thinking"))
Spelled(blocks, m) ==
    LET own == ReasoningFieldName(m) = "reasoning"
    IN  [role |-> "assistant",
         content |-> AssistantContent(Typed(blocks, "text"), CallsIn(blocks)),
         calls |-> CallsIn(blocks),
         reasoning |-> IF own THEN ThoughtIn(blocks) ELSE << >>,
         reasoningContent |-> IF own THEN << >> ELSE ThoughtIn(blocks)]

(* An assistant message, whatever the model.                               *)
LEMMA AssistantType ==
    ASSUME NEW turn \in AssistantTurns, NEW m
    PROVE  /\ AssistantMessage(turn.content, m) \in SentTurns
           /\ AssistantMessage(turn.content, m) = Spelled(turn.content.blocks, m)
           /\ Typed(turn.content.blocks, "text") \in Seq(PlainTexts)
<1> DEFINE blocks == turn.content.blocks
           texts == Typed(blocks, "text")
           uses == Typed(blocks, "tool_use")
           thoughts == Typed(blocks, "thinking")
           gc == [b \in Uses |-> Call(b)]
           gt == [b \in Thoughts |-> b.thinking]
           parts == [i \in 1 .. Len(texts) |-> TextPart(texts[i], m)]
           calls == [i \in 1 .. Len(uses) |-> Call(uses[i])]
           thought == FlattenSeq(Field(thoughts, "thinking"))
           own == ReasoningFieldName(m) = "reasoning"
<1>1. blocks \in Seq(AnswerBlocks) /\ BlocksOf(turn.content) = blocks
  BY DEF AssistantTurns, BlocksOf
<1>2. /\ WithType(AnswerBlocks, "text") = PlainTexts
      /\ WithType(AnswerBlocks, "tool_use") = Uses
      /\ WithType(AnswerBlocks, "thinking") = Thoughts
  <2>1. \A b \in PlainTexts : b.type = "text"
    BY DEF PlainTexts
  <2>2. \A b \in Uses : b.type = "tool_use"
    BY DEF Uses
  <2>3. \A b \in Thoughts : b.type = "thinking"
    BY DEF Thoughts
  <2> QED BY <2>1, <2>2, <2>3 DEF WithType, AnswerBlocks
<1>3. texts \in Seq(PlainTexts) /\ uses \in Seq(Uses) /\ thoughts \in Seq(Thoughts)
  <2> HIDE DEF blocks
  <2>1. \A type : Typed(blocks, type) \in Seq(WithType(AnswerBlocks, type))
    BY <1>1, TypedType
  <2> QED BY <1>2, <2>1
<1> HIDE DEF blocks, texts, uses, thoughts
<1>4. parts = texts /\ texts \in Seq(SentParts)
  <2>1. \A i \in 1 .. Len(texts) : texts[i] \in PlainTexts
    BY <1>3, ElementOfSeq
  <2>2. \A i \in 1 .. Len(texts) : TextPart(texts[i], m) = texts[i]
    BY <2>1, PlainTextPart
  <2>3. Len(texts) \in Nat /\ texts = [i \in 1 .. Len(texts) |-> texts[i]]
    BY <1>3, LenProperties
  <2>4. parts = texts
    BY <2>2, <2>3
  <2>5. PlainTexts \subseteq SentParts
    BY PlainTextPart
  <2> QED BY <1>3, <2>4, <2>5
<1>5. calls \in Seq([id : Ids, arguments : Inputs])
  <2> DEFINE SentCalls == [id : Ids, arguments : Inputs]
  <2>1. \A b \in Uses : gc[b] \in SentCalls
    BY DEF Uses, Call, Inputs
  <2>2. \A i \in 1 .. Len(uses) : uses[i] \in Uses
    BY <1>3, ElementOfSeq
  <2>3. calls = [i \in 1 .. Len(uses) |-> gc[uses[i]]]
    BY <2>2
  <2> HIDE DEF gc, SentCalls
  <2>4. [i \in 1 .. Len(uses) |-> gc[uses[i]]] \in Seq(SentCalls)
    BY <1>3, <2>1, MapType
  <2> QED BY <2>3, <2>4 DEF SentCalls
<1>6. thought \in Prose
  <2>1. \A b \in Thoughts : gt[b] \in Seq(Pieces)
    BY DEF Thoughts, Prose
  <2>2. \A i \in 1 .. Len(thoughts) : thoughts[i] \in Thoughts
    BY <1>3, ElementOfSeq
  <2>3. Field(thoughts, "thinking") = [i \in 1 .. Len(thoughts) |-> gt[thoughts[i]]]
    BY <2>2 DEF Field
  <2> HIDE DEF gt
  <2>4. [i \in 1 .. Len(thoughts) |-> gt[thoughts[i]]] \in Seq(Seq(Pieces))
    BY <1>3, <2>1, MapType
  <2>5. Field(thoughts, "thinking") \in Seq(Seq(Pieces))
    BY <2>3, <2>4
  <2> QED BY <2>5, FlattenType DEF Prose
<1> HIDE DEF parts, calls, thought
<1>7. AssistantContent(parts, calls) \in SentContents
  <2>1. CASE parts = << >>
    BY <2>1 DEF AssistantContent, SentContents
  <2>2. CASE parts # << >> /\ Len(parts) = 1 /\ calls = << >> /\ ~ parts[1].mark
    <3>1. parts[1] \in PlainTexts
      BY <1>3, <1>4, <2>2, ElementOfSeq
    <3>2. AssistantContent(parts, calls) = Text(parts[1].text)
      BY <2>2 DEF AssistantContent
    <3>3. parts[1].text \in Prose
      BY <3>1 DEF PlainTexts
    <3> QED BY <3>2, <3>3 DEF Text, SentContents
  <2>3. CASE parts # << >> /\ ~ (Len(parts) = 1 /\ calls = << >> /\ ~ parts[1].mark)
    <3>1. AssistantContent(parts, calls) = Parts(parts)
      BY <2>3 DEF AssistantContent
    <3> QED BY <1>4, <3>1 DEF Parts, SentContents
  <2> QED BY <2>1, <2>2, <2>3
<1>8. AssistantMessage(turn.content, m)
      = [role |-> "assistant", content |-> AssistantContent(parts, calls), calls |-> calls,
         reasoning |-> IF own THEN thought ELSE << >>,
         reasoningContent |-> IF own THEN << >> ELSE thought]
  BY <1>1 DEF AssistantMessage, texts, uses, thoughts, parts, calls, thought
<1>9. << >> \in Prose
  BY EmptySeq DEF Prose
<1>10. AssistantMessage(turn.content, m) \in SentTurns
  BY <1>5, <1>6, <1>7, <1>8, <1>9 DEF SentTurns
<1>11. AssistantMessage(turn.content, m) = Spelled(turn.content.blocks, m)
  <2>1. calls = CallsIn(turn.content.blocks) /\ thought = ThoughtIn(turn.content.blocks)
    BY DEF calls, thought, uses, thoughts, blocks, CallsIn, ThoughtIn
  <2>2. parts = Typed(turn.content.blocks, "text")
    BY <1>4 DEF parts, texts, blocks
  <2> QED BY <1>8, <2>1, <2>2 DEF Spelled
<1> QED BY <1>3, <1>10, <1>11 DEF texts, blocks

-----------------------------------------------------------------------------
(* What a request says.                                                    *)

(* The blocks of a user turn that is not refused.                          *)
LEMMA GoodUserBlocks ==
    ASSUME NEW turn \in GoodTurns, turn.role = "user"
    PROVE  BlocksOf(turn.content) \in Seq(GoodBlocks)
<1> DEFINE s == BlocksOf(turn.content)
<1>1. turn.content \in Contents(UserBlocks)
  BY DEF GoodTurns, HistoryTurns, ClientTurns, UserTurns, SystemTurns, AssistantTurns
<1>2. s \in Seq(UserBlocks)
  BY <1>1, BlocksType DEF UserBlocks, SeenBlocks
<1>3. \A i \in 1 .. Len(s) : ~ BadResult(s[i])
  BY DEF GoodTurns, BadTurn
<1> HIDE DEF s
<1>4. \A i \in 1 .. Len(s) : s[i] \in GoodBlocks
  BY <1>2, <1>3, ElementOfSeq DEF GoodBlocks
<1>5. Len(s) \in Nat /\ s = [i \in 1 .. Len(s) |-> s[i]]
  BY <1>2, LenProperties
<1>6. s \in [1 .. Len(s) -> GoodBlocks]
  BY <1>4, <1>5
<1>7. s \in Seq(GoodBlocks)
  BY <1>5, <1>6, SeqDef
<1> QED BY <1>7 DEF s

(* What the messages of a turn say is what the turn says.                  *)
LEMMA TurnSays ==
    ASSUME NEW turn \in GoodTurns, NEW m
    PROVE  /\ TurnMessages(turn, m) \in Seq(SentTurns)
           /\ FlatMap(TurnMessages(turn, m), SentSays) = HeldTurn(turn)
<1>1. turn \in HistoryTurns /\ turn.role \in {"assistant", "user", "system"}
  BY DEF GoodTurns, HistoryTurns, ClientTurns, UserTurns, SystemTurns, AssistantTurns
<1>2. CASE turn.role = "assistant"
  <2> DEFINE msg == AssistantMessage(turn.content, m)
  <2>1. turn \in AssistantTurns
    BY <1>1, <1>2 DEF HistoryTurns, ClientTurns, UserTurns, SystemTurns
  <2>2. msg \in SentTurns /\ TurnMessages(turn, m) = <<msg>> /\ HeldTurn(turn) = << >>
    BY <1>2, <2>1, AssistantType DEF TurnMessages, HeldTurn
  <2>3. msg.role = "assistant"
    BY DEF AssistantMessage
  <2> HIDE DEF msg
  <2>4. SentSays[msg] = << >>
    BY <2>2, <2>3 DEF SentSays, SentMessage
  <2>5. FlatMap(<<msg>>, SentSays) = SentSays[msg]
    <3>1. SentSays \in [SentTurns -> Seq(Spoken)]
      BY SentSaysType DEF Makers
    <3> QED BY <2>2, <3>1, FlatMapOne
  <2> QED BY <2>2, <2>4, <2>5
<1>3. CASE turn.role = "user"
  <2> DEFINE s == BlocksOf(turn.content)
  <2>1. s \in Seq(GoodBlocks) /\ TurnMessages(turn, m) = UserMessages(turn.content, m)
    BY <1>3, GoodUserBlocks DEF TurnMessages
  <2>2. /\ UserMessages(turn.content, m) \in Seq(SentTurns)
        /\ FlatMap(UserMessages(turn.content, m), SentSays) = FlatMap(s, UserSays)
    <3>1. Reads(SentSays, PartSpoken, Spoken) /\ ReadsAs(SentSays, PartSpoken, UserSays, m)
      BY SayingReads, SayingReadsAs
    <3>2. BlocksOf(turn.content) \in Seq(GoodBlocks)
      BY <2>1
    <3> QED BY <3>1, <3>2, UserReads
  <2>3. HeldTurn(turn) = FlatMap(s, UserSays)
    <3>1. \A i \in 1 .. Len(s) : s[i] \in GoodBlocks
      BY <2>1, ElementOfSeq
    <3>2. [i \in 1 .. Len(s) |-> HeldBlock("user", s[i])] = [i \in 1 .. Len(s) |-> UserSays[s[i]]]
      BY <3>1 DEF UserSays
    <3>3. HeldTurn(turn) = FlattenSeq([i \in 1 .. Len(s) |-> HeldBlock("user", s[i])])
      BY <1>3 DEF HeldTurn
    <3> QED BY <3>2, <3>3 DEF FlatMap
  <2> QED BY <2>1, <2>2, <2>3
<1>4. CASE turn.role = "system"
  <2> DEFINE c == turn.content
             own == [role |-> "system", content |-> c]
  <2>1. c \in Contents(SystemBlocks) /\ TurnMessages(turn, m) = SystemMessages(c)
    BY <1>1, <1>4 DEF HistoryTurns, ClientTurns, UserTurns, SystemTurns, AssistantTurns, TurnMessages
  <2>2. HeldTurn(turn) = HeldTurn(own)
    BY <1>4 DEF HeldTurn
  <2> HIDE DEF c, own
  <2>3. /\ SystemMessages(c) \in Seq(SentTurns)
        /\ FlatMap(SystemMessages(c), SentSays) = HeldTurn(own)
    BY <2>1, SystemMessagesSay DEF own
  <2> QED BY <2>1, <2>2, <2>3
<1> QED BY <1>1, <1>2, <1>3, <1>4

Translated(m) == [turn \in GoodTurns |-> TurnMessages(turn, m)]
TurnsHeld == [turn \in GoodTurns |-> HeldTurn(turn)]

(* A request reads as its system prompt and then as its turns do.          *)
LEMMA RequestReads ==
    ASSUME NEW T, NEW R \in Makers(SentTurns, T), NEW K, NEW m,
           \A turn \in GoodTurns : FlatMap(TurnMessages(turn, m), R) = K[turn],
           NEW req, req.messages \in Seq(GoodTurns), req.system \in Contents(SystemBlocks)
    PROVE  /\ AnthropicToOpenAI(req, m).messages \in Seq(SentTurns)
           /\ FlatMap(AnthropicToOpenAI(req, m).messages, R)
              = FlatMap(SystemMessages(req.system), R) \o FlatMap(req.messages, K)
<1> DEFINE turns == req.messages
           first == SystemMessages(req.system)
           rest == FlattenSeq([i \in 1 .. Len(turns) |-> TurnMessages(turns[i], m)])
           G == Translated(m)
<1>1. AnthropicToOpenAI(req, m).messages = first \o rest
  BY DEF AnthropicToOpenAI
<1>2. first \in Seq(SentTurns)
  BY SystemMessagesSay
<1>3. rest = FlatMap(turns, G)
  <2>1. \A i \in 1 .. Len(turns) : turns[i] \in GoodTurns
    BY ElementOfSeq
  <2>2. [i \in 1 .. Len(turns) |-> TurnMessages(turns[i], m)] = [i \in 1 .. Len(turns) |-> G[turns[i]]]
    BY <2>1 DEF Translated
  <2> QED BY <2>2 DEF FlatMap
<1>4. G \in [GoodTurns -> Seq(SentTurns)]
  BY TurnSays DEF Translated
<1>5. \A turn \in GoodTurns : FlatMap(G[turn], R) = K[turn]
  BY DEF Translated
<1>6. turns \in Seq(GoodTurns) /\ R \in [SentTurns -> Seq(T)]
  BY DEF Makers
<1> HIDE DEF G, turns, first, rest
<1>7. rest \in Seq(SentTurns)
  <2>1. FlatMap(turns, G) \in Seq(SentTurns)
    BY <1>4, <1>6, FlatMapType
  <2> QED BY <1>3, <2>1
<1>8. FlatMap(FlatMap(turns, G), R) = FlatMap(turns, K)
  <2>1. G \in Makers(GoodTurns, SentTurns)
    BY <1>4 DEF Makers
  <2> QED BY <1>5, <1>6, <2>1, FlatMapTwice
<1>9. FlatMap(first \o rest, R) = FlatMap(first, R) \o FlatMap(rest, R)
  <2>1. Spreads(R, SentTurns)
    BY <1>6, Spreading
  <2> QED BY <1>2, <1>7, <2>1, Zenon DEF Spreads
<1>10. first \o rest \in Seq(SentTurns)
  BY <1>2, <1>7, ConcatProperties
<1> QED BY <1>1, <1>3, <1>8, <1>9, <1>10 DEF first, turns

(* A request says what the client holds: nothing is lost, twice or moved.  *)
LEMMA RequestSays ==
    ASSUME NEW req, NEW m, req.messages \in Seq(GoodTurns), req.system \in Contents(SystemBlocks)
    PROVE  /\ AnthropicToOpenAI(req, m).messages \in Seq(SentTurns)
           /\ FlatMap(AnthropicToOpenAI(req, m).messages, SentSays)
              = HeldTurn([role |-> "system", content |-> req.system])
                \o FlattenSeq([i \in 1 .. Len(req.messages) |-> HeldTurn(req.messages[i])])
<1> DEFINE turns == req.messages
<1>1. \A turn \in GoodTurns : FlatMap(TurnMessages(turn, m), SentSays) = TurnsHeld[turn]
  BY TurnSays DEF TurnsHeld
<1>2. /\ AnthropicToOpenAI(req, m).messages \in Seq(SentTurns)
      /\ FlatMap(AnthropicToOpenAI(req, m).messages, SentSays)
         = FlatMap(SystemMessages(req.system), SentSays) \o FlatMap(turns, TurnsHeld)
  BY <1>1, SentSaysType, RequestReads, SMTT(30)
<1>3. FlatMap(SystemMessages(req.system), SentSays)
      = HeldTurn([role |-> "system", content |-> req.system])
  BY SystemMessagesSay
<1>4. FlatMap(turns, TurnsHeld) = FlattenSeq([i \in 1 .. Len(turns) |-> HeldTurn(turns[i])])
  <2>1. \A i \in 1 .. Len(turns) : turns[i] \in GoodTurns
    BY ElementOfSeq
  <2>2. [i \in 1 .. Len(turns) |-> HeldTurn(turns[i])] = [i \in 1 .. Len(turns) |-> TurnsHeld[turns[i]]]
    BY <2>1 DEF TurnsHeld
  <2> QED BY <2>2 DEF FlatMap
<1> QED BY <1>2, <1>3, <1>4

-----------------------------------------------------------------------------
(* What a reply becomes.                                                   *)

AnswerTurn(msg) ==
    [role |-> "assistant", content |-> [form |-> "blocks", blocks |-> Reply!ContentBlocks(msg)]]

(* The instance puts lists together as this module does.                   *)
LEMMA ReplyFlatten == ASSUME NEW ss PROVE Reply!FlattenSeq(ss) = FlattenSeq(ss)
  BY DEF Reply!FlattenSeq, FlattenSeq

(* The blocks of a reply, by their origin.                                 *)
LEMMA ReplyBlocks ==
    ASSUME NEW msg \in ChatAnswers
    PROVE  /\ Reply!Thinking(msg) \in Seq(Thoughts)
           /\ Reply!Texts(msg.content) \in Seq(PlainTexts)
           /\ Reply!ToolUses(msg) \in Seq(Uses)
<1>1. msg.content \in AnswerContents /\ msg.calls \in Seq(Calls)
      /\ msg.reasoning \in Prose /\ msg.reasoningContent \in Prose
  BY DEF ChatAnswers
<1>2. Reply!Thinking(msg) \in Seq(Thoughts)
  <2> DEFINE t == Reply!ReasoningText(msg)
  <2>1. t \in Prose
    BY <1>1 DEF Reply!ReasoningText
  <2> HIDE DEF t
  <2>2. Reply!ThinkingBlock(t) \in Thoughts
    BY <2>1 DEF Reply!ThinkingBlock, Thoughts
  <2>3. Reply!Thinking(msg) = IF t = << >> THEN << >> ELSE <<Reply!ThinkingBlock(t)>>
    BY DEF Reply!Thinking, t
  <2> QED BY <2>2, <2>3
<1>3. ASSUME NEW t \in Prose PROVE Reply!TextBlock(t) \in PlainTexts
  BY DEF Reply!TextBlock, PlainTexts
<1>4. Reply!Texts(msg.content) \in Seq(PlainTexts)
  <2> DEFINE c == msg.content
             Part == [type : STRING, text : Prose]
             G == [p \in Part |-> IF p.type = "text" THEN <<Reply!TextBlock(p.text)>> ELSE << >>]
  <2>1. CASE c.form = "parts"
    <3>1. c.parts \in Seq(Part)
      BY <1>1, <2>1 DEF AnswerContents, Absent
    <3>2. Reply!Texts(c) = FlatMap(c.parts, G)
      <4>1. \A i \in 1 .. Len(c.parts) : c.parts[i] \in Part
        BY <3>1, ElementOfSeq
      <4>2. [i \in 1 .. Len(c.parts) |->
                IF c.parts[i].type = "text" THEN <<Reply!TextBlock(c.parts[i].text)>> ELSE << >>]
            = [i \in 1 .. Len(c.parts) |-> G[c.parts[i]]]
        <5> HIDE DEF Part
        <5> QED BY <4>1
      <4> HIDE DEF G
      <4> QED BY <2>1, <4>2, ReplyFlatten DEF Reply!Texts, FlatMap
    <3>3. G \in [Part -> Seq(PlainTexts)]
      <4>1. ASSUME NEW p \in Part PROVE G[p] \in Seq(PlainTexts)
        <5>1. Reply!TextBlock(p.text) \in PlainTexts
          BY <1>3
        <5> HIDE DEF Part
        <5> QED BY <5>1
      <4> HIDE DEF Part
      <4> QED BY <4>1
    <3> HIDE DEF G, Part
    <3>4. FlatMap(c.parts, G) \in Seq(PlainTexts)
      BY <3>1, <3>3, FlatMapType
    <3> QED BY <3>2, <3>4
  <2>2. CASE c.form = "text"
    <3>1. c.text \in Prose
      BY <1>1, <2>2 DEF AnswerContents, Absent
    <3>2. Reply!TextBlock(c.text) \in PlainTexts
      BY <1>3, <3>1
    <3> QED BY <2>2, <3>2 DEF Reply!Texts
  <2>3. CASE c.form \notin {"parts", "text"}
    BY <2>3 DEF Reply!Texts
  <2> QED BY <2>1, <2>2, <2>3
<1>5. Reply!ToolUses(msg) \in Seq(Uses)
  <2> DEFINE g == [call \in Calls |-> Reply!ToolUse(call)]
  <2>1. \A call \in Calls : g[call] \in Uses
    BY DEF Calls, Reply!ToolUse, Uses, Inputs
  <2>2. \A i \in 1 .. Len(msg.calls) : msg.calls[i] \in Calls
    BY <1>1, ElementOfSeq
  <2>3. Reply!ToolUses(msg) = [i \in 1 .. Len(msg.calls) |-> g[msg.calls[i]]]
    BY <2>2 DEF Reply!ToolUses
  <2> HIDE DEF g
  <2>4. [i \in 1 .. Len(msg.calls) |-> g[msg.calls[i]]] \in Seq(Uses)
    BY <1>1, <2>1, MapType
  <2> QED BY <2>3, <2>4
<1> QED BY <1>2, <1>4, <1>5

(* An answer becomes an assistant turn.                                    *)
LEMMA AnswerTurnType ==
    ASSUME NEW msg \in ChatAnswers
    PROVE  /\ Reply!ContentBlocks(msg) \in Seq(AnswerBlocks)
           /\ AnswerTurn(msg) \in AssistantTurns
<1> DEFINE a == Reply!Thinking(msg)
           b == Reply!Texts(msg.content)
           c == Reply!ToolUses(msg)
<1>1. a \in Seq(AnswerBlocks) /\ b \in Seq(AnswerBlocks) /\ c \in Seq(AnswerBlocks)
  <2>1. Thoughts \subseteq AnswerBlocks /\ PlainTexts \subseteq AnswerBlocks /\ Uses \subseteq AnswerBlocks
    BY DEF AnswerBlocks
  <2> QED BY <2>1, ReplyBlocks
<1>2. Reply!ContentBlocks(msg) = (a \o b) \o c
  BY DEF Reply!ContentBlocks
<1> HIDE DEF a, b, c
<1>3. a \o b \in Seq(AnswerBlocks)
  BY <1>1, ConcatProperties
<1>4. Reply!ContentBlocks(msg) \in Seq(AnswerBlocks)
  BY <1>1, <1>2, <1>3, ConcatProperties
<1> QED BY <1>4 DEF AnswerTurn, AssistantTurns

(* A reply the client can read is its first choice, block by block.        *)
LEMMA ReadableReply ==
    ASSUME NEW resp \in Responses, Readable(Reply!Completed(resp))
    PROVE  /\ ~ Reply!Refused(resp)
           /\ Head(resp.choices).message \in ChatAnswers
           /\ Reply!Completed(resp).body.content = Reply!ContentBlocks(Head(resp.choices).message)
<1> DEFINE got == Reply!Completed(resp)
<1>1. got.body # Nil
  BY DEF Readable
<1>2. ~ Reply!Refused(resp)
  BY <1>1 DEF Reply!Completed
<1>3. resp.choices # << >> /\ Head(resp.choices).message # Nil
  BY <1>2 DEF Reply!Refused
<1>4. Head(resp.choices) \in ChatChoices
  BY <1>3, HeadTailProperties DEF Responses
<1>5. Head(resp.choices).message \in ChatAnswers
  BY <1>3, <1>4 DEF ChatChoices
<1>6. got.body = Reply!OpenAIToAnthropic(resp)
  BY <1>1, <1>2 DEF Reply!Completed
<1> QED BY <1>2, <1>5, <1>6 DEF Reply!OpenAIToAnthropic

-----------------------------------------------------------------------------
(* The inductive invariant.                                                *)

(* Some answer, with its calls put to the client.                          *)
Given == {msg \in ChatAnswers : msg.calls \in Asked}
OfRole == [t \in HistoryTurns |-> IF t.role = "assistant" THEN <<t>> ELSE << >>]
CameAs == [msg \in Given |-> <<AnswerTurn(msg)>>]

Typed0 ==
    /\ phase \in {"idle", "composed", "waiting"}
    /\ system \in Systems
    /\ composed \in 0 .. MaxTurns
    /\ model \in Models
    /\ answers \in Seq(Given)

(* The history is what a reply has confirmed, in which the assistant turns *)
(* are the answers, and after it the client's own turn, if it has one.     *)
Split(kept, turn) ==
    /\ kept \in Seq(HistoryTurns) /\ turn \in Seq(ClientTurns)
    /\ history = kept \o turn /\ settled = Len(kept)
    /\ phase = "idle" => turn = << >>
    /\ FlatMap(kept, OfRole) = FlatMap(answers, CameAs)
KeptApart == \E kept, turn : Split(kept, turn)

(* What is on its way is the history as it is.                             *)
SentIsHistory ==
    phase = "waiting" =>
        ~ Untranslatable(Request(model)) /\ sent = AnthropicToOpenAI(Request(model), model)

(* What the client got last is made of what the provider answered last.    *)
LastIsCompleted ==
    last = Nil \/ \E resp \in Responses : last = [resp |-> resp, got |-> Reply!Completed(resp)]

IInv == Typed0 /\ KeptApart /\ SentIsHistory /\ LastIsCompleted

(* The roles of a list of turns.                                           *)
LEMMA RolesMap ==
    ASSUME NEW s \in Seq(HistoryTurns)
    PROVE  Roles(s, "assistant") = FlatMap(s, OfRole)
<1>1. \A i \in 1 .. Len(s) : s[i] \in HistoryTurns
  BY ElementOfSeq
<1>2. [i \in 1 .. Len(s) |-> IF s[i].role = "assistant" THEN <<s[i]>> ELSE << >>]
      = [i \in 1 .. Len(s) |-> OfRole[s[i]]]
  BY <1>1 DEF OfRole
<1> QED BY <1>2 DEF Roles, FlatMap

(* OfRole and CameAs make lists of turns.                                  *)
LEMMA RoleTypes ==
    /\ OfRole \in [HistoryTurns -> Seq(HistoryTurns)]
    /\ CameAs \in [Given -> Seq(HistoryTurns)]
<1>1. \A t \in HistoryTurns : OfRole[t] \in Seq(HistoryTurns)
  BY DEF OfRole
<1>2. \A msg \in Given : AnswerTurn(msg) \in HistoryTurns
  BY AnswerTurnType DEF Given, HistoryTurns
<1>3. \A msg \in Given : CameAs[msg] \in Seq(HistoryTurns)
  <2> HIDE DEF AnswerTurn
  <2> QED BY <1>2 DEF CameAs
<1> QED BY <1>1, <1>3 DEF OfRole, CameAs

(* The client's own turns hold no assistant turn.                          *)
LEMMA OwnTurns ==
    ASSUME NEW turn \in Seq(ClientTurns)
    PROVE  turn \in Seq(HistoryTurns) /\ FlatMap(turn, OfRole) = << >>
<1>1. ClientTurns \subseteq HistoryTurns
  BY DEF HistoryTurns
<1>2. turn \in Seq(HistoryTurns)
  BY <1>1
<1>3. \A t \in ClientTurns : t.role # "assistant"
  BY DEF ClientTurns, UserTurns, SystemTurns
<1>4. \A i \in 1 .. Len(turn) : turn[i] \in ClientTurns
  BY ElementOfSeq
<1>5. \A i \in 1 .. Len(turn) : OfRole[turn[i]] = << >>
  BY <1>1, <1>3, <1>4 DEF OfRole
<1> QED BY <1>2, <1>5, FlatMapNothing

(* The settled part of the history is what was kept.                       *)
LEMMA SettledPart ==
    ASSUME NEW S, NEW kept \in Seq(S), NEW turn \in Seq(S)
    PROVE  SubSeq(kept \o turn, 1, Len(kept)) = kept
<1>1. Len(kept) \in Nat
  BY LenProperties
<1>2. CASE Len(kept) = 0
  <2>1. kept = << >>
    BY <1>2, EmptySeq
  <2>2. kept \o turn = turn
    BY <2>1, ConcatEmptySeq
  <2> QED BY <1>2, <2>1, <2>2, SubSeqEmpty
<1>3. CASE Len(kept) # 0
  <2>1. SubSeq(kept \o turn, 1, Len(kept)) = SubSeq(kept, 1, Len(kept))
    BY <1>1, <1>3, SubSeqOfConcat1
  <2> QED BY <2>1, SubSeqFull
<1> QED BY <1>2, <1>3

(* The next turn answers calls that the client was asked.                  *)
LEMMA OutstandingAsked == ASSUME answers \in Seq(Given) PROVE Outstanding \in Asked
<1>1. << >> \in Asked
  BY DEF Asked
<1>2. CASE answers = << >>
  BY <1>1, <1>2 DEF Outstanding
<1>3. CASE answers # << >>
  <2>1. Len(answers) \in Nat \ {0}
    BY <1>3, EmptySeq
  <2>2. Len(answers) \in 1 .. Len(answers)
    BY <2>1
  <2>3. answers[Len(answers)] \in Given
    BY <2>2, ElementOfSeq
  <2> QED BY <1>3, <2>3 DEF Outstanding, Given
<1> QED BY <1>2, <1>3

(* The client starts with nothing.                                         *)
LEMMA InitInv == Init => IInv
<1> SUFFICES ASSUME Init PROVE IInv
  OBVIOUS
<1>1. Typed0
  BY BoundsAssumption, EmptySeq DEF Init, Typed0
<1>2. Split(<< >>, << >>)
  <2>1. << >> \o << >> = << >> /\ Len(<< >>) = 0
    BY EmptySeq, ConcatEmptySeq
  <2> QED BY <2>1, FlatMapEmpty, EmptySeq DEF Init, Split
<1>3. SentIsHistory /\ LastIsCompleted
  BY DEF Init, SentIsHistory, LastIsCompleted
<1> QED BY <1>1, <1>2, <1>3 DEF IInv, KeptApart

(* Every step keeps the invariant.                                         *)
LEMMA NextInv == IInv /\ [Next]_vars => IInv'
<1> SUFFICES ASSUME IInv, [Next]_vars PROVE IInv'
  OBVIOUS
<1>1. Typed0 /\ SentIsHistory /\ LastIsCompleted
  BY DEF IInv
<1>2. PICK kept, turn : Split(kept, turn)
  BY DEF IInv, KeptApart
<1>3. /\ kept \in Seq(HistoryTurns) /\ turn \in Seq(ClientTurns) /\ turn \in Seq(HistoryTurns)
      /\ history = kept \o turn /\ settled = Len(kept)
      /\ phase = "idle" => turn = << >>
      /\ FlatMap(kept, OfRole) = FlatMap(answers, CameAs)
      /\ answers \in Seq(Given)
      /\ FlatMap(turn, OfRole) = << >>
  BY <1>1, <1>2, OwnTurns DEF Split, Typed0
<1>4. CASE Compose
  <2>1. composed \in Nat /\ composed + 1 \in 1 .. MaxTurns
    BY <1>1, <1>4, BoundsAssumption DEF Compose, Typed0
  <2>2. PICK new \in Turns(composed', Outstanding) : history' = history \o new
    BY <1>4 DEF Compose
  <2>3. new \in Seq(ClientTurns)
    <3>1. composed' \in 1 .. MaxTurns
      BY <1>4, <2>1 DEF Compose
    <3>2. Outstanding \in Asked
      BY <1>3, OutstandingAsked
    <3> QED BY <2>2, <3>1, <3>2, TurnsAssumption
  <2>4. history' = kept \o new
    <3>1. kept \o << >> = kept
      BY <1>3, ConcatEmptySeq
    <3> QED BY <1>3, <1>4, <2>2, <3>1 DEF Compose
  <2>5. Typed0'
    BY <1>1, <1>4, <2>1, BoundsAssumption DEF Compose, Typed0
  <2>6. Split(kept, new)'
    BY <1>3, <1>4, <2>3, <2>4 DEF Compose, Split
  <2>7. SentIsHistory' /\ LastIsCompleted'
    BY <1>1, <1>4 DEF Compose, SentIsHistory, LastIsCompleted
  <2> QED BY <2>5, <2>6, <2>7 DEF IInv, KeptApart
<1>5. CASE \E m \in Models : Send(m)
  <2>1. PICK m \in Models : Send(m)
    BY <1>5
  <2>2. Typed0'
    BY <1>1, <2>1 DEF Send, Typed0
  <2>3. Split(kept, turn)'
    BY <1>3, <2>1 DEF Send, Split
  <2>4. SentIsHistory'
    <3>1. /\ system' = system /\ history' = history /\ model' = m
          /\ ~ Untranslatable(Request(m)) /\ sent' = AnthropicToOpenAI(Request(m), m)
      BY <2>1 DEF Send
    <3>2. Request(model)' = Request(m)
      BY <3>1 DEF Request
    <3> QED BY <3>1, <3>2 DEF SentIsHistory
  <2>5. LastIsCompleted'
    BY <1>1, <2>1 DEF Send, LastIsCompleted
  <2> QED BY <2>2, <2>3, <2>4, <2>5 DEF IInv, KeptApart
<1>6. ASSUME history' = SubSeq(history, 1, settled), phase' = "idle",
             UNCHANGED <<system, settled, composed, model, sent, answers, last>>
      PROVE  IInv'
  <2>1. history' = kept
    BY <1>3, <1>6, SettledPart
  <2>2. Typed0'
    BY <1>1, <1>6 DEF Typed0
  <2>3. Split(kept, << >>)'
    <3>1. kept \o << >> = kept /\ << >> \in Seq(ClientTurns)
      BY <1>3, ConcatEmptySeq, EmptySeq
    <3> QED BY <1>3, <1>6, <2>1, <3>1 DEF Split
  <2>4. SentIsHistory' /\ LastIsCompleted'
    BY <1>1, <1>6 DEF SentIsHistory, LastIsCompleted
  <2> QED BY <2>2, <2>3, <2>4 DEF IInv, KeptApart
<1>7. CASE SendRefused
  BY <1>6, <1>7 DEF SendRefused
<1>8. CASE GiveUp
  BY <1>6, <1>8 DEF GiveUp
<1>9. CASE \E resp \in Replies(composed) : Answer(resp)
  <2>1. PICK resp \in Replies(composed) : Answer(resp)
    BY <1>9
  <2>2. composed \in 0 .. MaxTurns
    BY <1>1 DEF Typed0
  <2>3. resp \in Responses
    BY <2>1, <2>2, RepliesAssumption
  <2> DEFINE got == Reply!Completed(resp)
             msg == Head(resp.choices).message
             came == AnswerTurn(msg)
  <2>4. LastIsCompleted' /\ phase' # "waiting"
    <3>1. last' = [resp |-> resp, got |-> got]
      BY <2>1 DEF Answer
    <3>2. phase' # "waiting"
      BY <2>1 DEF Answer
    <3> QED BY <2>3, <3>1, <3>2 DEF LastIsCompleted
  <2>5. SentIsHistory'
    BY <2>4 DEF SentIsHistory
  <2>6. CASE ~ Readable(got)
    <3>1. phase' = "composed" /\ UNCHANGED <<system, history, settled, composed, model, sent, answers>>
      BY <2>1, <2>6 DEF Answer
    <3>2. Typed0' /\ Split(kept, turn)'
      BY <1>1, <1>3, <3>1 DEF Typed0, Split
    <3> QED BY <2>4, <2>5, <3>2 DEF IInv, KeptApart
  <2>7. CASE Readable(got)
    <3>1. /\ ~ Reply!Refused(resp) /\ msg \in ChatAnswers
          /\ got.body.content = Reply!ContentBlocks(msg)
      BY <2>3, <2>7, ReadableReply
    <3>2. /\ history' = Append(history, came) /\ settled' = Len(history')
          /\ answers' = Append(answers, msg) /\ phase' = "idle"
          /\ UNCHANGED <<system, composed, model, sent>>
      BY <2>1, <2>7, <3>1 DEF Answer, AnswerTurn
    <3>3. msg \in Given
      BY <2>1, <2>2, <3>1 DEF Given, Asked
    <3>4. came \in HistoryTurns /\ CameAs[msg] = <<came>> /\ OfRole[came] = <<came>>
      <4>1. came \in HistoryTurns
        BY <3>1, AnswerTurnType DEF HistoryTurns
      <4>2. came.role = "assistant"
        BY DEF AnswerTurn
      <4> QED BY <3>3, <4>1, <4>2 DEF CameAs, OfRole
    <3> HIDE DEF got, msg, came
    <3>5. history \in Seq(HistoryTurns)
      BY <1>3, ConcatProperties
    <3>6. Typed0'
      <4>1. answers' \in Seq(Given)
        BY <1>3, <3>2, <3>3, AppendProperties
      <4> QED BY <1>1, <3>2, <4>1 DEF Typed0
    <3>7. PICK all : all = history'
      OBVIOUS
    <3>8. Split(all, << >>)'
      <4>1. history' \in Seq(HistoryTurns) /\ << >> \in Seq(ClientTurns)
        BY <3>2, <3>4, <3>5, AppendProperties, EmptySeq
      <4>2. history' = history' \o << >>
        BY <4>1, ConcatEmptySeq
      <4>3. FlatMap(history', OfRole) = FlatMap(history, OfRole) \o <<came>>
        <5>1. Spreads(OfRole, HistoryTurns)
          BY RoleTypes, Spreading
        <5> QED BY <3>2, <3>4, <3>5, <5>1, Zenon DEF Spreads
      <4>4. FlatMap(history, OfRole) = FlatMap(kept, OfRole)
        <5>1. FlatMap(kept \o turn, OfRole) = FlatMap(kept, OfRole) \o FlatMap(turn, OfRole)
          <6>1. kept \in Seq(HistoryTurns) /\ turn \in Seq(HistoryTurns)
            BY <1>3
          <6>2. Spreads(OfRole, HistoryTurns)
            BY RoleTypes, Spreading
          <6> QED BY <6>1, <6>2, Zenon DEF Spreads
        <5>2. FlatMap(kept, OfRole) \in Seq(HistoryTurns)
          BY <1>3, RoleTypes, FlatMapType
        <5>3. FlatMap(kept, OfRole) \o << >> = FlatMap(kept, OfRole)
          BY <5>2, ConcatEmptySeq
        <5> QED BY <1>3, <5>1, <5>3
      <4>5. FlatMap(answers', CameAs) = FlatMap(answers, CameAs) \o <<came>>
        <5>1. Spreads(CameAs, Given)
          BY RoleTypes, Spreading
        <5> QED BY <1>3, <3>2, <3>3, <3>4, <5>1, Zenon DEF Spreads
      <4> QED BY <1>3, <3>2, <3>7, <4>1, <4>2, <4>3, <4>4, <4>5 DEF Split
    <3> QED BY <2>4, <2>5, <3>6, <3>8 DEF IInv, KeptApart
  <2> QED BY <2>6, <2>7
<1>10. CASE UNCHANGED vars
  <2>1. Typed0' /\ Split(kept, turn)' /\ LastIsCompleted'
    BY <1>1, <1>3, <1>10 DEF vars, Typed0, Split, LastIsCompleted
  <2>2. SentIsHistory'
    BY <1>1, <1>10 DEF vars, SentIsHistory, Request
  <2> QED BY <2>1, <2>2 DEF IInv, KeptApart
<1> QED BY <1>4, <1>5, <1>7, <1>8, <1>9, <1>10 DEF Next

(* The invariant always holds.                                             *)
LEMMA Inductive == Spec => []IInv
  BY InitInv, NextInv, PTL DEF Spec

(* The assistant turns are the answers, made over one by one.              *)
LEMMA AnswersCome ==
    ASSUME NEW s \in Seq(Given)
    PROVE  /\ FlatMap(s, CameAs) = [i \in 1 .. Len(s) |-> AnswerTurn(s[i])]
           /\ Len(FlatMap(s, CameAs)) = Len(s)
<1> DEFINE g == [msg \in Given |-> AnswerTurn(msg)]
<1>1. \A msg \in Given : CameAs[msg] = <<g[msg]>>
  BY DEF CameAs
<1>2. \A i \in 1 .. Len(s) : s[i] \in Given
  BY ElementOfSeq
<1>3. [i \in 1 .. Len(s) |-> g[s[i]]] = [i \in 1 .. Len(s) |-> AnswerTurn(s[i])]
  BY <1>2
<1>4. \A msg \in Given : g[msg] \in HistoryTurns
  BY AnswerTurnType DEF Given, HistoryTurns
<1> HIDE DEF g
<1>5. FlatMap(s, CameAs) = [i \in 1 .. Len(s) |-> g[s[i]]]
  BY <1>1, FlatMapEach
<1>6. Len([i \in 1 .. Len(s) |-> g[s[i]]]) = Len(s)
  BY <1>4, MapType
<1> QED BY <1>3, <1>5, <1>6

-----------------------------------------------------------------------------
(* Theorems.                                                               *)

(* A history that is not refused has good turns only.                      *)
LEMMA GoodHistory ==
    ASSUME IInv, phase = "waiting"
    PROVE  /\ history \in Seq(GoodTurns) /\ system \in Contents(SystemBlocks)
           /\ sent = AnthropicToOpenAI(Request(model), model)
<1>1. PICK kept, turn : Split(kept, turn)
  BY DEF IInv, KeptApart
<1>2. history \in Seq(HistoryTurns)
  <2>1. kept \in Seq(HistoryTurns) /\ turn \in Seq(HistoryTurns) /\ history = kept \o turn
    BY <1>1, OwnTurns DEF Split
  <2> QED BY <2>1, ConcatProperties
<1>3. \A i \in 1 .. Len(history) : history[i] \in GoodTurns
  <2>1. \A i \in 1 .. Len(history) : history[i] \in HistoryTurns
    BY <1>2, ElementOfSeq
  <2>2. \A i \in 1 .. Len(history) : ~ BadTurn(history[i])
    BY DEF IInv, SentIsHistory, Untranslatable, Request
  <2> QED BY <2>1, <2>2 DEF GoodTurns
<1>4. Len(history) \in Nat /\ history = [i \in 1 .. Len(history) |-> history[i]]
  BY <1>2, LenProperties
<1>5. history \in [1 .. Len(history) -> GoodTurns]
  BY <1>3, <1>4
<1>6. history \in Seq(GoodTurns)
  BY <1>4, <1>5, SeqDef
<1>7. system \in Contents(SystemBlocks)
  BY SystemsAssumption DEF IInv, Typed0
<1> QED BY <1>6, <1>7 DEF IInv, SentIsHistory

(* A request that is sent has its type.                                    *)
LEMMA SentType == ASSUME IInv, phase = "waiting" PROVE sent \in Completions
<1> DEFINE req == Request(model)
<1>1. /\ req.messages = history /\ req.system = system /\ req.stream = FALSE
      /\ req.maxTokens = WantedTokens /\ req.toolChoice = Nil /\ req.tools = << >>
  BY DEF Request
<1>2. history \in Seq(GoodTurns) /\ system \in Contents(SystemBlocks)
      /\ sent = AnthropicToOpenAI(req, model)
  BY GoodHistory
<1>3. model \in ModelRecords
  BY ModelsAssumption DEF IInv, Typed0
<1> HIDE DEF req
<1>4. AnthropicToOpenAI(req, model).messages \in Seq(SentTurns)
  BY <1>1, <1>2, RequestSays
<1>5. MaxTokens(req, model) \in Nat
  BY <1>1, <1>3, BoundsAssumption DEF MaxTokens, ModelRecords
<1>6. Field(<< >>, "name") = << >>
  BY DEF Field
<1>7. model.id \in STRING
  BY <1>3 DEF ModelRecords
<1> QED BY <1>1, <1>2, <1>4, <1>5, <1>6, <1>7 DEF AnthropicToOpenAI, Completions

(* A whole reply that is billed tells the count of the bill.               *)
Cached(u) == Reply!Counter(u.cacheRead, u.detailsCached)
Written(u) == Reply!Counter(u.cacheCreation, u.detailsWritten)
LEMMA BillCounted ==
    ASSUME IInv, last # Nil, last.got.body # Nil
    PROVE  IF last.resp.usage = Nil THEN last.got.body.usage = Reply!NoTotals
           ELSE LET u == last.resp.usage
                    told == last.got.body.usage
                IN  /\ u \in Bills /\ Cached(u) \in Nat /\ Written(u) \in Nat
                    /\ told = [input |-> IF u.prompt < Cached(u) THEN 0 ELSE u.prompt - Cached(u),
                               output |-> u.completion,
                               cacheRead |-> Cached(u), cacheWrite |-> Written(u)]
<1>1. PICK resp \in Responses : last = [resp |-> resp, got |-> Reply!Completed(resp)]
  BY DEF IInv, LastIsCompleted
<1>2. last.got.body = Reply!OpenAIToAnthropic(resp) /\ last.resp = resp
  BY <1>1 DEF Reply!Completed
<1>3. last.got.body.usage = Reply!UsageOf(resp.usage)
  BY <1>2 DEF Reply!OpenAIToAnthropic
<1>4. CASE resp.usage = Nil
  BY <1>2, <1>3, <1>4 DEF Reply!UsageOf
<1>5. CASE resp.usage # Nil
  <2> DEFINE u == resp.usage
             bill == [prompt |-> u.prompt, completion |-> u.completion,
                      cached |-> Cached(u), written |-> Written(u)]
  <2>1. u \in Bills
    BY <1>1, <1>5 DEF Responses
  <2>2. Cached(u) \in Nat /\ Written(u) \in Nat
    BY <2>1 DEF Bills, AnyBill, Counters, Cached, Written, Reply!Counter
  <2>3. last.got.body.usage = Reply!Count(bill)
    BY <1>3, <1>5 DEF Reply!UsageOf, Cached, Written
  <2> HIDE DEF u
  <2>4. Reply!Count(bill)
        = [input |-> IF u.prompt < Cached(u) THEN 0 ELSE u.prompt - Cached(u),
           output |-> u.completion, cacheRead |-> Cached(u), cacheWrite |-> Written(u)]
    BY DEF Reply!Count
  <2>5. last.resp.usage = u /\ u # Nil
    BY <1>2, <1>5 DEF u
  <2> QED BY <2>1, <2>2, <2>3, <2>4, <2>5
<1> QED BY <1>4, <1>5

(* No count of it goes below zero.                                         *)
LEMMA CountsType ==
    ASSUME IInv, last # Nil, last.got.body # Nil
    PROVE  last.got.body.usage \in Reply!Totals
<1>1. CASE last.resp.usage = Nil
  BY <1>1, BillCounted DEF Reply!NoTotals, Reply!Totals
<1>2. CASE last.resp.usage # Nil
  <2> DEFINE u == last.resp.usage
             told == last.got.body.usage
  <2>1. /\ u \in Bills /\ Cached(u) \in Nat /\ Written(u) \in Nat
        /\ told = [input |-> IF u.prompt < Cached(u) THEN 0 ELSE u.prompt - Cached(u),
                   output |-> u.completion, cacheRead |-> Cached(u), cacheWrite |-> Written(u)]
    BY <1>2, BillCounted
  <2>2. u.prompt \in Nat /\ u.completion \in Nat
    BY <2>1 DEF Bills, AnyBill
  <2> HIDE DEF u, told
  <2>3. told \in Reply!Totals
    BY <2>1, <2>2 DEF Reply!Totals
  <2> QED BY <2>3 DEF told
<1> QED BY <1>1, <1>2

(* Every variable has its type, and every assistant turn has its answer.   *)
LEMMA TypeFromInv == IInv => TypeOK
<1> SUFFICES ASSUME IInv PROVE TypeOK
  OBVIOUS
<1>1. Typed0
  BY DEF IInv
<1>2. PICK kept, turn : Split(kept, turn)
  BY DEF IInv, KeptApart
<1>3. kept \in Seq(HistoryTurns) /\ turn \in Seq(HistoryTurns) /\ history = kept \o turn
      /\ settled = Len(kept) /\ FlatMap(turn, OfRole) = << >>
      /\ FlatMap(kept, OfRole) = FlatMap(answers, CameAs) /\ answers \in Seq(Given)
  BY <1>1, <1>2, OwnTurns DEF Split, Typed0
<1>4. history \in Seq(HistoryTurns) /\ Len(history) = Len(kept) + Len(turn)
      /\ Len(kept) \in Nat /\ Len(turn) \in Nat
  BY <1>3, ConcatProperties, LenProperties
<1>5. settled \in 0 .. Len(history)
  BY <1>3, <1>4
<1>6. \A i \in 1 .. Len(history) : history[i].role \in {"system", "user", "assistant"}
  <2>1. \A i \in 1 .. Len(history) : history[i] \in HistoryTurns
    BY <1>4, ElementOfSeq
  <2>2. \A t \in HistoryTurns : t.role \in {"system", "user", "assistant"}
    BY DEF HistoryTurns, ClientTurns, UserTurns, SystemTurns, AssistantTurns
  <2> QED BY <2>1, <2>2
<1>7. phase = "idle" => settled = Len(history)
  BY <1>2, <1>3, <1>4, EmptySeq DEF Split
<1>8. Len(answers) = Len(Roles(history, "assistant"))
  <2>1. Roles(history, "assistant") = FlatMap(history, OfRole)
    BY <1>4, RolesMap
  <2>2. FlatMap(kept \o turn, OfRole) = FlatMap(kept, OfRole) \o FlatMap(turn, OfRole)
    <3>1. Spreads(OfRole, HistoryTurns)
      BY RoleTypes, Spreading
    <3> QED BY <1>3, <3>1, Zenon DEF Spreads
  <2>3. FlatMap(kept, OfRole) \in Seq(HistoryTurns)
    BY <1>3, RoleTypes, FlatMapType
  <2>4. FlatMap(kept, OfRole) \o << >> = FlatMap(kept, OfRole)
    BY <2>3, ConcatEmptySeq
  <2>5. FlatMap(answers, CameAs) = [i \in 1 .. Len(answers) |-> AnswerTurn(answers[i])]
    BY <1>3, AnswersCome
  <2>6. Len(FlatMap(answers, CameAs)) = Len(answers)
    BY <1>3, AnswersCome
  <2> QED BY <1>3, <2>1, <2>2, <2>4, <2>6
<1> QED BY <1>1, <1>5, <1>6, <1>7, <1>8, SentType, CountsType DEF TypeOK, Typed0

(* The types of the conversation, and an answer for every assistant turn   *)
(* that the client holds.                                                  *)
THEOREM ConversationTyped == Spec => []TypeOK
  BY Inductive, TypeFromInv, PTL

(* The provider gets every text, image and tool result of the system       *)
(* prompt and the user's turns, once, in order, from the right speaker and *)
(* for the right call, however long the conversation is.                   *)
THEOREM UserIsHeard == Spec => []NothingOfTheUserIsLost
<1>1. IInv => NothingOfTheUserIsLost
  <2> SUFFICES ASSUME IInv, phase = "waiting" PROVE SentPieces = Held
    BY DEF NothingOfTheUserIsLost
  <2> DEFINE req == Request(model)
  <2>1. history \in Seq(GoodTurns) /\ system \in Contents(SystemBlocks)
        /\ sent = AnthropicToOpenAI(req, model)
    BY GoodHistory
  <2>2. req.messages = history /\ req.system = system
    BY DEF Request
  <2> HIDE DEF req
  <2>3. /\ sent.messages \in Seq(SentTurns)
        /\ FlatMap(sent.messages, SentSays)
           = HeldTurn([role |-> "system", content |-> system])
             \o FlattenSeq([i \in 1 .. Len(history) |-> HeldTurn(history[i])])
    BY <2>1, <2>2, RequestSays
  <2>4. SentPieces = FlatMap(sent.messages, SentSays)
    <3> DEFINE s == sent.messages
    <3>1. \A i \in 1 .. Len(s) : s[i] \in SentTurns
      BY <2>3, ElementOfSeq
    <3>2. [i \in 1 .. Len(s) |-> SentMessage(s[i])] = [i \in 1 .. Len(s) |-> SentSays[s[i]]]
      BY <3>1 DEF SentSays
    <3> QED BY <3>2 DEF SentPieces, FlatMap
  <2> QED BY <2>3, <2>4 DEF Held
<1> QED BY <1>1, Inductive, PTL

(* What a reply is said to cost is what its provider counted, for any      *)
(* counts and wherever the provider reports its cache hits and writes.     *)
THEOREM CostsAreTheProviders == Spec => []CostsAddUp
<1>1. IInv => CostsAddUp
  <2> SUFFICES ASSUME IInv, last # Nil, last.got.body # Nil, last.resp.usage # Nil
               PROVE  CostsAddUp
    BY DEF CostsAddUp
  <2> DEFINE u == last.resp.usage
             told == last.got.body.usage
  <2>1. /\ u \in Bills /\ Cached(u) \in Nat /\ Written(u) \in Nat
        /\ told = [input |-> IF u.prompt < Cached(u) THEN 0 ELSE u.prompt - Cached(u),
                   output |-> u.completion, cacheRead |-> Cached(u), cacheWrite |-> Written(u)]
    BY BillCounted
  <2>2. u.prompt \in Nat
    BY <2>1 DEF Bills, AnyBill
  <2>3. /\ Tells(Cached(u), u.cacheRead, u.detailsCached)
        /\ Tells(Written(u), u.cacheCreation, u.detailsWritten)
    BY DEF Tells, Cached, Written, Reply!Counter
  <2> HIDE DEF u, told
  <2>4. /\ told.cacheRead = Cached(u) /\ told.cacheWrite = Written(u)
        /\ told.output = u.completion
        /\ IF told.cacheRead <= u.prompt THEN told.input + told.cacheRead = u.prompt
           ELSE told.input = 0
    BY <2>1, <2>2
  <2> QED BY <2>3, <2>4 DEF CostsAddUp, u, told
<1> QED BY <1>1, Inductive, PTL

-----------------------------------------------------------------------------
(* Marks.                                                                  *)

Explicit(m) == EffectiveCache(m) = "explicit"
MarksOf == [msg \in SentTurns |-> MarkedIn(msg.content)]
PartMarks == [p \in SentParts |-> IF p.mark THEN PartSays[p] ELSE << >>]
IfMarked(B) == [b \in B |-> IF b.mark THEN <<b>> ELSE << >>]
UserMarks(m) == [b \in GoodBlocks |-> IF Explicit(m) THEN HeldMark(b) ELSE << >>]
ResultMarks(m) ==
    [b \in SeenBlocks |-> IF b.type = "image" /\ Kept(b, m) THEN <<b.source.shows>> ELSE << >>]

(* The marked elements of a list are those that IfMarked keeps.            *)
LEMMA MarkedMap ==
    ASSUME NEW B, NEW s \in Seq(B)
    PROVE  /\ Marked(s) = FlatMap(s, IfMarked(B))
           /\ IfMarked(B) \in [B -> Seq(B)]
           /\ Marked(s) \in Seq(B)
<1>1. \A i \in 1 .. Len(s) : s[i] \in B
  BY ElementOfSeq
<1>2. [i \in 1 .. Len(s) |-> IF s[i].mark THEN <<s[i]>> ELSE << >>]
      = [i \in 1 .. Len(s) |-> IfMarked(B)[s[i]]]
  BY <1>1 DEF IfMarked
<1>3. Marked(s) = FlatMap(s, IfMarked(B))
  BY <1>2 DEF Marked, FlatMap
<1>4. IfMarked(B) \in [B -> Seq(B)]
  <2>1. \A b \in B : IfMarked(B)[b] \in Seq(B)
    BY DEF IfMarked
  <2> QED BY <2>1 DEF IfMarked
<1>5. FlatMap(s, IfMarked(B)) \in Seq(B)
  BY <1>4, FlatMapType
<1> QED BY <1>3, <1>4, <1>5

(* PartSays and PartMarks read parts.                                      *)
LEMMA PartMaps ==
    /\ PartSays \in Makers(SentParts, Pieces)
    /\ PartMarks \in Makers(SentParts, Pieces)
<1>1. PartSays \in Makers(SentParts, Pieces)
  <2>1. << >> \in Seq(SentParts)
    BY EmptySeq
  <2> QED BY <2>1, SaidMap
<1>2. \A p \in SentParts : PartSays[p] \in Seq(Pieces)
  BY <1>1 DEF Makers
<1>3. \A p \in SentParts : PartMarks[p] \in Seq(Pieces)
  BY <1>2 DEF PartMarks
<1> QED BY <1>1, <1>3 DEF PartMarks, Makers

(* What is marked in parts, part by part.                                  *)
LEMMA PartsMarked ==
    ASSUME NEW ps \in Seq(SentParts)
    PROVE  MarkedIn(Parts(ps)) = FlatMap(ps, PartMarks)
<1> DEFINE G == IfMarked(SentParts)
<1>1. Marked(ps) = FlatMap(ps, G) /\ Marked(ps) \in Seq(SentParts) /\ G \in [SentParts -> Seq(SentParts)]
  BY MarkedMap
<1>2. MarkedIn(Parts(ps)) = SaidIn(Parts(Marked(ps)))
  BY DEF MarkedIn, Parts
<1>3. SaidIn(Parts(Marked(ps))) = FlatMap(Marked(ps), PartSays)
  BY <1>1, SaidMap
<1>4. ASSUME NEW p \in SentParts PROVE FlatMap(G[p], PartSays) = PartMarks[p]
  <2>1. CASE p.mark
    <3>1. G[p] = <<p>> /\ PartMarks[p] = PartSays[p]
      BY <2>1 DEF IfMarked, PartMarks
    <3>2. FlatMap(<<p>>, PartSays) = PartSays[p]
      <4>1. PartSays \in [SentParts -> Seq(Pieces)]
        BY PartMaps DEF Makers
      <4> QED BY <4>1, FlatMapOne
    <3> QED BY <3>1, <3>2
  <2>2. CASE ~ p.mark
    <3>1. G[p] = << >> /\ PartMarks[p] = << >>
      BY <2>2 DEF IfMarked, PartMarks
    <3> HIDE DEF G
    <3> QED BY <3>1, FlatMapEmpty
  <2> QED BY <2>1, <2>2
<1> HIDE DEF G
<1>5. FlatMap(FlatMap(ps, G), PartSays) = FlatMap(ps, PartMarks)
  <2>1. G \in Makers(SentParts, SentParts)
    BY <1>1 DEF Makers
  <2> QED BY <1>4, <2>1, PartMaps, FlatMapTwice
<1> QED BY <1>1, <1>2, <1>3, <1>5

(* What is marked in a message is pieces.                                  *)
LEMMA MarksOfType == MarksOf \in Makers(SentTurns, Pieces)
<1>1. ASSUME NEW msg \in SentTurns PROVE MarkedIn(msg.content) \in Seq(Pieces)
  <2> DEFINE c == msg.content
  <2>1. c \in SentContents
    BY DEF SentTurns
  <2>2. CASE c.form = "parts"
    <3>1. c.parts \in Seq(SentParts)
      BY <2>1, <2>2 DEF SentContents, Absent
    <3>2. MarkedIn(c) = MarkedIn(Parts(c.parts))
      BY <2>2 DEF MarkedIn, Parts
    <3>3. FlatMap(c.parts, PartMarks) \in Seq(Pieces)
      <4>1. PartMarks \in [SentParts -> Seq(Pieces)]
        BY PartMaps DEF Makers
      <4> QED BY <3>1, <4>1, FlatMapType
    <3> QED BY <3>1, <3>2, <3>3, PartsMarked
  <2>3. CASE c.form # "parts"
    BY <2>3 DEF MarkedIn
  <2> QED BY <2>2, <2>3
<1> QED BY <1>1 DEF MarksOf, Makers

(* A flush carries the marks of its parts.                                 *)
LEMMA MarkingReads == Reads(MarksOf, PartMarks, Pieces)
<1>1. ASSUME NEW parts \in Seq(SentParts)
      PROVE  FlatMap(Flushed(parts), MarksOf) = FlatMap(parts, PartMarks)
  <2>1. CASE parts = << >>
    BY <2>1, FlatMapEmpty DEF Flushed
  <2>2. CASE parts # << >>
    <3> DEFINE msg == UserMessage(parts)
    <3>1. msg \in SentTurns /\ Flushed(parts) = <<msg>>
      BY <2>2, UserMessageSays DEF Flushed
    <3>2. FlatMap(<<msg>>, MarksOf) = MarksOf[msg]
      <4>1. MarksOf \in [SentTurns -> Seq(Pieces)]
        BY MarksOfType DEF Makers
      <4> HIDE DEF msg
      <4> QED BY <3>1, <4>1, FlatMapOne
    <3>3. MarksOf[msg] = MarkedIn(msg.content)
      BY <3>1 DEF MarksOf
    <3>4. CASE Len(parts) = 1 /\ parts[1].type = "text" /\ ~ parts[1].mark
      <4>1. MarkedIn(msg.content) = << >>
        BY <3>4 DEF UserMessage, MarkedIn, Text
      <4>2. \A i \in 1 .. Len(parts) : parts[i] \in SentParts /\ ~ parts[i].mark
        <5>1. \A i \in 1 .. Len(parts) : i = 1
          BY <3>4
        <5>2. \A i \in 1 .. Len(parts) : parts[i] \in SentParts
          BY ElementOfSeq
        <5> HIDE DEF msg
        <5> QED BY <3>4, <5>1, <5>2
      <4>3. \A i \in 1 .. Len(parts) : PartMarks[parts[i]] = << >>
        BY <4>2 DEF PartMarks
      <4>4. FlatMap(parts, PartMarks) = << >>
        BY <4>3, FlatMapNothing
      <4> QED BY <3>1, <3>2, <3>3, <4>1, <4>4
    <3>5. CASE ~ (Len(parts) = 1 /\ parts[1].type = "text" /\ ~ parts[1].mark)
      <4>1. msg.content = Parts(parts)
        BY <3>5 DEF UserMessage
      <4> QED BY <3>1, <3>2, <3>3, <4>1, PartsMarked
    <3> QED BY <3>4, <3>5
  <2> QED BY <2>1, <2>2
<1> QED BY <1>1, PartMaps, MarksOfType DEF Reads

(* A result carries the marks of its images, where marks are kept.         *)
LEMMA ToolPartsMarked ==
    ASSUME NEW blocks \in Seq(SeenBlocks), NEW m
    PROVE  MarkedIn(ToolResultParts(blocks, m)) = FlatMap(blocks, ResultMarks(m))
<1> DEFINE kept == FlattenSeq([i \in 1 .. Len(blocks) |->
                                  IF Telling(blocks[i]) THEN <<blocks[i]>> ELSE << >>])
           K == ResultMarks(m)
           part(b) == IF b.type = "image" THEN ImagePart(b, m)
                      ELSE [type |-> "text", text |-> b.text, mark |-> FALSE]
           parts == [i \in 1 .. Len(kept) |-> part(kept[i])]
<1>1. kept \in Seq(KnownBlocks) /\ kept = FlatMap(blocks, Tell)
  <2>1. \A i \in 1 .. Len(blocks) : blocks[i] \in SeenBlocks
    BY ElementOfSeq
  <2>2. [i \in 1 .. Len(blocks) |-> IF Telling(blocks[i]) THEN <<blocks[i]>> ELSE << >>]
        = [i \in 1 .. Len(blocks) |-> Tell[blocks[i]]]
    BY <2>1 DEF Tell
  <2>3. kept = FlatMap(blocks, Tell)
    BY <2>2 DEF FlatMap
  <2> QED BY <2>3, TellingSays
<1>2. ToolResultParts(blocks, m) =
          IF Typed(kept, "image") = << >> THEN Text(FlattenSeq(Field(kept, "text")))
          ELSE Parts(parts)
  BY DEF ToolResultParts
<1> HIDE DEF kept
<1>3. \A i \in 1 .. Len(kept) : kept[i] \in KnownBlocks
  BY <1>1, ElementOfSeq
<1>4. KnownBlocks \subseteq SeenBlocks
  BY DEF KnownBlocks, SeenBlocks
<1>5. K \in [SeenBlocks -> Seq(Pieces)] /\ Tell \in [SeenBlocks -> Seq(SeenBlocks)]
  <2>1. ASSUME NEW b \in SeenBlocks PROVE K[b] \in Seq(Pieces)
    <3>1. CASE b.type = "image" /\ Kept(b, m)
      <4>1. b.source.shows \in Pieces
        BY <3>1, BlocksAssumption DEF SeenBlocks, TextBlocks, Images
      <4> QED BY <3>1, <4>1 DEF ResultMarks
    <3>2. CASE ~ (b.type = "image" /\ Kept(b, m))
      BY <3>2 DEF ResultMarks
    <3> QED BY <3>1, <3>2
  <2>2. ASSUME NEW b \in SeenBlocks PROVE Tell[b] \in Seq(SeenBlocks)
    BY DEF Tell
  <2> QED BY <2>1, <2>2 DEF ResultMarks, Tell
<1>6. FlatMap(kept, K) = FlatMap(blocks, K)
  <2>1. ASSUME NEW b \in SeenBlocks PROVE FlatMap(Tell[b], K) = K[b]
    <3>1. CASE Telling(b)
      <4>1. Tell[b] = <<b>>
        BY <3>1 DEF Tell
      <4> HIDE DEF K
      <4>2. FlatMap(<<b>>, K) = K[b]
        BY <1>5, FlatMapOne
      <4> QED BY <4>1, <4>2
    <3>2. CASE ~ Telling(b)
      <4>1. Tell[b] = << >> /\ K[b] = << >>
        BY <3>2 DEF Tell, Telling, ResultMarks
      <4> HIDE DEF K
      <4> QED BY <4>1, FlatMapEmpty
    <3> QED BY <3>1, <3>2
  <2>2. K \in Makers(SeenBlocks, Pieces) /\ Tell \in Makers(SeenBlocks, SeenBlocks)
    BY <1>5 DEF Makers
  <2> HIDE DEF K
  <2>3. FlatMap(FlatMap(blocks, Tell), K) = FlatMap(blocks, K)
    BY <2>1, <2>2, FlatMapTwice
  <2> QED BY <1>1, <2>3
<1>7. CASE Typed(kept, "image") = << >>
  <2>1. \A i \in 1 .. Len(kept) : kept[i].type # "image"
    BY <1>1, <1>7, NoneTyped
  <2>2. \A i \in 1 .. Len(kept) : K[kept[i]] = << >>
    BY <1>3, <1>4, <2>1 DEF ResultMarks
  <2>3. FlatMap(kept, K) = << >>
    <3> HIDE DEF K
    <3> QED BY <1>1, <2>2, FlatMapNothing
  <2>4. MarkedIn(ToolResultParts(blocks, m)) = << >>
    BY <1>2, <1>7 DEF MarkedIn, Text
  <2> QED BY <1>6, <2>3, <2>4
<1>8. CASE Typed(kept, "image") # << >>
  <2>1. ASSUME NEW b \in KnownBlocks
        PROVE  part(b) \in SentParts /\ PartMarks[part(b)] = K[b]
    <3>1. CASE b.type = "image"
      <4>1. part(b) = ImagePart(b, m) /\ b \in Images /\ b \in SeenBlocks
        BY <1>4, <3>1 DEF KnownBlocks, TextBlocks
      <4>2. ImagePart(b, m) \in SentParts
        BY <4>1, KeptType DEF ImagePart, SentParts, Images
      <4>3. PartMarks[ImagePart(b, m)] = IF Kept(b, m) THEN <<b.source.shows>> ELSE << >>
        BY <4>2 DEF PartMarks, PartSays, ImagePart
      <4>4. K[b] = IF Kept(b, m) THEN <<b.source.shows>> ELSE << >>
        BY <3>1, <4>1 DEF ResultMarks
      <4> QED BY <4>1, <4>2, <4>3, <4>4
    <3>2. CASE b.type # "image"
      <4> DEFINE p == [type |-> "text", text |-> b.text, mark |-> FALSE]
      <4>1. part(b) = p /\ b \in TextBlocks /\ K[b] = << >>
        BY <1>4, <3>2 DEF KnownBlocks, TextBlocks, Images, ResultMarks
      <4>2. p \in SentParts
        BY <4>1 DEF SentParts, TextBlocks
      <4>3. PartMarks[p] = << >>
        BY <4>2 DEF PartMarks
      <4> QED BY <4>1, <4>2, <4>3
    <3> QED BY <3>1, <3>2
  <2>2. Len(kept) \in Nat /\ Len(parts) = Len(kept)
    BY <1>1, LenProperties
  <2>3. parts \in Seq(SentParts)
    <3> HIDE DEF part
    <3>1. \A i \in 1 .. Len(kept) : part(kept[i]) \in SentParts
      BY <1>3, <2>1
    <3>2. parts \in [1 .. Len(kept) -> SentParts]
      BY <3>1
    <3> QED BY <2>2, <3>2, SeqDef
  <2>4. FlatMap(parts, PartMarks) = FlatMap(kept, K)
    <3> HIDE DEF part, K
    <3>1. \A i \in 1 .. Len(kept) : PartMarks[parts[i]] = K[kept[i]]
      BY <1>3, <2>1
    <3>2. [i \in 1 .. Len(parts) |-> PartMarks[parts[i]]] = [i \in 1 .. Len(kept) |-> K[kept[i]]]
      <4> HIDE DEF parts
      <4> QED BY <2>2, <3>1
    <3> HIDE DEF parts
    <3> QED BY <3>2 DEF FlatMap
  <2>5. MarkedIn(Parts(parts)) = FlatMap(parts, PartMarks)
    <3> HIDE DEF parts
    <3> QED BY <2>3, PartsMarked
  <2> QED BY <1>2, <1>6, <1>8, <2>4, <2>5
<1> QED BY <1>7, <1>8

(* The marked images of a result, where marks are kept.                    *)
LEMMA ImagesMarked ==
    ASSUME NEW blocks \in Seq(SeenBlocks), NEW m, Explicit(m)
    PROVE  ShownIn(Marked(Typed(blocks, "image"))) = FlatMap(blocks, ResultMarks(m))
<1> DEFINE C == WithType(SeenBlocks, "image")
           G == OfType(SeenBlocks, "image")
           F == IfMarked(C)
           H == ShownOf(C)
           K == ResultMarks(m)
           M == [b \in C |-> IF b.mark THEN <<b.source.shows>> ELSE << >>]
           t == Typed(blocks, "image")
<1>1. t = FlatMap(blocks, G) /\ t \in Seq(C) /\ G \in [SeenBlocks -> Seq(C)]
  BY TypedMap, TypedType
<1>2. C \in SUBSET SeenBlocks /\ \A b \in C : b \in Images
  BY BlocksAssumption DEF WithType, SeenBlocks, TextBlocks
<1>3. \A b \in C : H[b] = <<b.source.shows>> /\ b.source.shows \in Pieces
  BY <1>2 DEF ShownOf, Images
<1>4. \A b \in C : M[b] \in Seq(Pieces)
  BY <1>3
<1>5. M \in Makers(C, Pieces) /\ G \in Makers(SeenBlocks, C)
  BY <1>1, <1>4 DEF Makers
<1>6. ASSUME NEW b \in SeenBlocks PROVE FlatMap(G[b], M) = K[b]
  <2>1. CASE b.type = "image"
    <3>1. b \in C /\ G[b] = <<b>>
      BY <2>1 DEF OfType, WithType
    <3>2. M[b] = K[b]
      BY <2>1, <3>1 DEF ResultMarks, Kept, Explicit
    <3>3. M \in [C -> Seq(Pieces)]
      BY <1>5 DEF Makers
    <3> HIDE DEF M, C, G
    <3>4. FlatMap(<<b>>, M) = M[b]
      BY <3>1, <3>3, FlatMapOne
    <3> QED BY <3>1, <3>2, <3>4
  <2>2. CASE b.type # "image"
    <3>1. G[b] = << >> /\ K[b] = << >>
      BY <2>2 DEF OfType, ResultMarks
    <3> HIDE DEF M, G
    <3> QED BY <3>1, FlatMapEmpty
  <2> QED BY <2>1, <2>2
<1>7. ASSUME NEW b \in C PROVE FlatMap(F[b], H) = M[b]
  <2>1. CASE b.mark
    <3>1. F[b] = <<b>> /\ M[b] = H[b]
      BY <1>3, <2>1 DEF IfMarked
    <3>2. \A e \in C : H[e] \in Seq(Pieces)
      BY <1>3
    <3>3. H \in [C -> Seq(Pieces)]
      BY <3>2 DEF ShownOf
    <3> HIDE DEF M, H, F, C
    <3>4. FlatMap(<<b>>, H) = H[b]
      BY <3>3, FlatMapOne
    <3> QED BY <3>1, <3>4
  <2>2. CASE ~ b.mark
    <3>1. F[b] = << >> /\ M[b] = << >>
      BY <2>2 DEF IfMarked
    <3> HIDE DEF M, F, H
    <3> QED BY <3>1, FlatMapEmpty
  <2> QED BY <2>1, <2>2
<1> HIDE DEF C, G, H, K, M, t
<1>8. Marked(t) = FlatMap(t, F) /\ Marked(t) \in Seq(C) /\ F \in Makers(C, C)
  BY <1>1, MarkedMap DEF Makers
<1> HIDE DEF F
<1>9. ShownIn(Marked(t)) = FlatMap(Marked(t), H) /\ H \in Makers(C, Pieces)
  BY <1>2, <1>8, ShownMap DEF H
<1>10. FlatMap(FlatMap(t, F), H) = FlatMap(t, M)
  <2>1. t \in Seq(C) /\ F \in Makers(C, C) /\ H \in Makers(C, Pieces)
    BY <1>1, <1>8, <1>9
  <2>2. \A b \in C : FlatMap(F[b], H) = M[b]
    BY <1>7
  <2> QED BY <2>1, <2>2, FlatMapTwice
<1>11. FlatMap(FlatMap(blocks, G), M) = FlatMap(blocks, K)
  BY <1>5, <1>6, FlatMapTwice
<1>12. ShownIn(Marked(t)) = FlatMap(blocks, K)
  BY <1>1, <1>8, <1>9, <1>10, <1>11
<1> QED BY <1>12 DEF t, K

(* What is marked of one block.                                            *)
LEMMA MarkedOne ==
    ASSUME NEW b \in SeenBlocks
    PROVE  ShownIn(Marked(<<b>>)) = IF b.mark THEN ShownOf(SeenBlocks)[b] ELSE << >>
<1> DEFINE F == IfMarked(SeenBlocks)
<1>1. <<b>> \in Seq(SeenBlocks) /\ << >> \in Seq(SeenBlocks)
  BY EmptySeq
<1>2. Marked(<<b>>) = FlatMap(<<b>>, F) /\ F \in [SeenBlocks -> Seq(SeenBlocks)]
  BY <1>1, MarkedMap
<1>3. F[b] = IF b.mark THEN <<b>> ELSE << >>
  BY DEF IfMarked
<1> HIDE DEF F
<1>4. FlatMap(<<b>>, F) = F[b]
  BY <1>2, FlatMapOne
<1>5. ShownIn(<< >>) = << >>
  <2>1. ShownIn(<< >>) = FlatMap(<< >>, ShownOf(SeenBlocks))
    BY <1>1, ShownMap
  <2> QED BY <2>1, FlatMapEmpty
<1> QED BY <1>2, <1>3, <1>4, <1>5, ShownOne

(* The message of a result carries the marks of its images, where marks    *)
(* are kept, and none elsewhere.                                           *)
LEMMA ToolMessageMarked ==
    ASSUME NEW b \in GoodBlocks, b.type = "tool_result", NEW m
    PROVE  MarkedIn(ToolResultContent(b.content, m)) = IF Explicit(m) THEN HeldMark(b) ELSE << >>
<1> DEFINE c == b.content
           s == BlocksOf(c)
           K == ResultMarks(m)
<1>1. c \in Contents(SeenBlocks) /\ c.form # "other"
  BY BlockKinds
<1>2. s \in Seq(SeenBlocks)
  BY <1>1, BlocksType DEF SeenBlocks
<1>3. \A i \in 1 .. Len(s) : s[i] \in SeenBlocks
  BY <1>2, ElementOfSeq
<1>4. MarkedIn(ToolResultContent(c, m)) = FlatMap(s, K)
  <2>1. CASE c.form = "blocks"
    <3>1. ToolResultContent(c, m) = ToolResultParts(s, m)
      BY <2>1 DEF ToolResultContent, BlocksOf
    <3> HIDE DEF s, K, c
    <3> QED BY <1>2, <3>1, ToolPartsMarked DEF K
  <2>2. CASE c.form # "blocks"
    <3>1. c.form \in {"absent", "text"}
      BY <1>1, <2>2 DEF Contents, Absent
    <3>2. MarkedIn(ToolResultContent(c, m)) = << >>
      BY <3>1 DEF ToolResultContent, MarkedIn, Text
    <3>3. \A i \in 1 .. Len(s) : s[i].type = "text"
      BY <3>1 DEF BlocksOf
    <3>4. \A i \in 1 .. Len(s) : K[s[i]] = << >>
      BY <1>3, <3>3 DEF ResultMarks
    <3> HIDE DEF s, K, c
    <3>5. FlatMap(s, K) = << >>
      BY <1>2, <3>4, FlatMapNothing
    <3> QED BY <3>2, <3>5
  <2> QED BY <2>1, <2>2
<1>5. CASE Explicit(m)
  <2>1. HeldMark(b) = ShownIn(Marked(Typed(s, "image")))
    BY DEF HeldMark
  <2> HIDE DEF s, K
  <2>2. ShownIn(Marked(Typed(s, "image"))) = FlatMap(s, K)
    BY <1>2, <1>5, ImagesMarked DEF K
  <2> QED BY <1>4, <1>5, <2>1, <2>2
<1>6. CASE ~ Explicit(m)
  <2>1. \A i \in 1 .. Len(s) : K[s[i]] = << >>
    BY <1>3, <1>6 DEF ResultMarks, Kept, Explicit
  <2> HIDE DEF s, K
  <2>2. FlatMap(s, K) = << >>
    BY <1>2, <2>1, FlatMapNothing
  <2> QED BY <1>4, <1>6, <2>2
<1> QED BY <1>5, <1>6

(* A block carries as a part or a message the mark the client gave it,     *)
(* where marks are kept.                                                   *)
LEMMA MarkingReadsAs == ASSUME NEW m PROVE ReadsAs(MarksOf, PartMarks, UserMarks(m), m)
<1> SUFFICES ASSUME NEW b \in GoodBlocks
             PROVE  /\ b.type = "text" => UserMarks(m)[b] = PartMarks[TextPart(b, m)]
                    /\ b.type = "image" => UserMarks(m)[b] = PartMarks[ImagePart(b, m)]
                    /\ b.type = "tool_result" => UserMarks(m)[b] = MarksOf[ToolMessage(b, m)]
                    /\ b.type \notin {"text", "image", "tool_result"} => UserMarks(m)[b] = << >>
  BY DEF ReadsAs
<1>1. UserMarks(m)[b] = IF Explicit(m) THEN HeldMark(b) ELSE << >>
  BY DEF UserMarks
<1>2. ASSUME b.type # "tool_result"
      PROVE  UserMarks(m)[b] = IF Kept(b, m) THEN ShownOf(SeenBlocks)[b] ELSE << >>
  <2>1. b \in SeenBlocks
    BY <1>2, BlockKinds DEF SeenBlocks
  <2>2. HeldMark(b) = ShownIn(Marked(<<b>>))
    BY <1>2 DEF HeldMark
  <2>3. HeldMark(b) = IF b.mark THEN ShownOf(SeenBlocks)[b] ELSE << >>
    BY <2>1, <2>2, MarkedOne
  <2> QED BY <1>1, <2>3 DEF Kept, Explicit
<1>3. CASE b.type = "text"
  <2>1. TextPart(b, m) \in SentParts
    BY <1>3, PartsType
  <2>2. PartMarks[TextPart(b, m)] = IF Kept(b, m) THEN b.text ELSE << >>
    BY <2>1 DEF PartMarks, PartSays, TextPart
  <2>3. ShownOf(SeenBlocks)[b] = b.text
    BY <1>3, BlockKinds DEF ShownOf, SeenBlocks
  <2> QED BY <1>2, <1>3, <2>2, <2>3
<1>4. CASE b.type = "image"
  <2>1. ImagePart(b, m) \in SentParts
    BY <1>4, PartsType
  <2>2. PartMarks[ImagePart(b, m)] = IF Kept(b, m) THEN <<b.source.shows>> ELSE << >>
    BY <2>1 DEF PartMarks, PartSays, ImagePart
  <2>3. ShownOf(SeenBlocks)[b] = <<b.source.shows>>
    BY <1>4, BlockKinds DEF ShownOf, SeenBlocks
  <2> QED BY <1>2, <1>4, <2>2, <2>3
<1>5. CASE b.type = "tool_result"
  <2>1. ToolMessage(b, m) \in SentTurns
    BY <1>5, PartsType
  <2>2. MarksOf[ToolMessage(b, m)] = MarkedIn(ToolResultContent(b.content, m))
    BY <2>1 DEF MarksOf, ToolMessage
  <2> QED BY <1>1, <1>5, <2>2, ToolMessageMarked
<1>6. CASE b.type \notin {"text", "image", "tool_result"}
  <2>1. ShownOf(SeenBlocks)[b] = << >>
    BY <1>6, BlockKinds DEF ShownOf, SeenBlocks
  <2> QED BY <1>2, <1>6, <2>1
<1> QED BY <1>3, <1>4, <1>5, <1>6

TurnMarks(m) ==
    [turn \in GoodTurns |->
        IF turn.role # "user" \/ ~ Explicit(m) THEN << >>
        ELSE FlattenSeq([k \in 1 .. Len(BlocksOf(turn.content)) |->
                            HeldMark(BlocksOf(turn.content)[k])])]

(* An assistant message has no marks: none were in the reply.              *)
LEMMA AssistantUnmarked ==
    ASSUME NEW turn \in AssistantTurns, NEW m
    PROVE  MarkedIn(AssistantMessage(turn.content, m).content) = << >>
<1> DEFINE texts == Typed(turn.content.blocks, "text")
           calls == CallsIn(turn.content.blocks)
<1>1. texts \in Seq(PlainTexts)
  BY AssistantType
<1>2. AssistantMessage(turn.content, m).content = AssistantContent(texts, calls)
  <2>1. AssistantMessage(turn.content, m) = Spelled(turn.content.blocks, m)
    BY AssistantType
  <2>2. Spelled(turn.content.blocks, m).content = AssistantContent(texts, calls)
    BY DEF Spelled
  <2> QED BY <2>1, <2>2
<1> HIDE DEF texts, calls
<1>3. CASE AssistantContent(texts, calls) = Parts(texts)
  <2>1. PlainTexts \subseteq SentParts
    BY PlainTextPart
  <2>2. texts \in Seq(SentParts)
    BY <1>1, <2>1
  <2>3. \A i \in 1 .. Len(texts) : texts[i] \in PlainTexts
    BY <1>1, ElementOfSeq
  <2>4. \A i \in 1 .. Len(texts) : PartMarks[texts[i]] = << >>
    BY <2>1, <2>3 DEF PartMarks, PlainTexts
  <2>5. FlatMap(texts, PartMarks) = << >>
    BY <1>1, <2>4, FlatMapNothing
  <2> QED BY <1>2, <1>3, <2>2, <2>5, PartsMarked
<1>4. CASE AssistantContent(texts, calls) # Parts(texts)
  BY <1>2, <1>4 DEF AssistantContent, MarkedIn, Absent, Text
<1> QED BY <1>3, <1>4

(* A system message has no marks.                                          *)
LEMMA SystemUnmarked ==
    ASSUME NEW c \in Contents(SystemBlocks)
    PROVE  FlatMap(SystemMessages(c), MarksOf) = << >>
<1>1. SystemMessages(c) \in Seq(SentTurns)
  BY SystemMessagesSay
<1>2. \A i \in 1 .. Len(SystemMessages(c)) : SystemMessages(c)[i] \in SentTurns
  BY <1>1, ElementOfSeq
<1>3. \A i \in 1 .. Len(SystemMessages(c)) : SystemMessages(c)[i].content.form = "text"
  BY DEF SystemMessages, Text
<1>4. \A i \in 1 .. Len(SystemMessages(c)) : MarksOf[SystemMessages(c)[i]] = << >>
  BY <1>2, <1>3 DEF MarksOf, MarkedIn
<1> QED BY <1>1, <1>4, FlatMapNothing

(* What the messages of a turn are marked with.                            *)
LEMMA TurnMarked ==
    ASSUME NEW turn \in GoodTurns, NEW m
    PROVE  FlatMap(TurnMessages(turn, m), MarksOf) = TurnMarks(m)[turn]
<1>1. turn \in HistoryTurns /\ turn.role \in {"assistant", "user", "system"}
  BY DEF GoodTurns, HistoryTurns, ClientTurns, UserTurns, SystemTurns, AssistantTurns
<1>2. CASE turn.role = "assistant"
  <2> DEFINE msg == AssistantMessage(turn.content, m)
  <2>1. turn \in AssistantTurns
    BY <1>1, <1>2 DEF HistoryTurns, ClientTurns, UserTurns, SystemTurns
  <2>2. msg \in SentTurns /\ TurnMessages(turn, m) = <<msg>> /\ MarkedIn(msg.content) = << >>
    BY <1>2, <2>1, AssistantType, AssistantUnmarked DEF TurnMessages
  <2> HIDE DEF msg
  <2>3. MarksOf[msg] = << >>
    BY <2>2 DEF MarksOf
  <2>4. FlatMap(<<msg>>, MarksOf) = MarksOf[msg]
    <3>1. MarksOf \in [SentTurns -> Seq(Pieces)]
      BY MarksOfType DEF Makers
    <3> QED BY <2>2, <3>1, FlatMapOne
  <2> QED BY <1>2, <2>2, <2>3, <2>4 DEF TurnMarks
<1>3. CASE turn.role = "user"
  <2> DEFINE s == BlocksOf(turn.content)
             K == UserMarks(m)
  <2>1. s \in Seq(GoodBlocks) /\ TurnMessages(turn, m) = UserMessages(turn.content, m)
    BY <1>3, GoodUserBlocks DEF TurnMessages
  <2>2. FlatMap(UserMessages(turn.content, m), MarksOf) = FlatMap(s, K)
    <3>1. Reads(MarksOf, PartMarks, Pieces) /\ ReadsAs(MarksOf, PartMarks, UserMarks(m), m)
      BY MarkingReads, MarkingReadsAs
    <3>2. BlocksOf(turn.content) \in Seq(GoodBlocks)
      BY <2>1
    <3> QED BY <3>1, <3>2, UserReads
  <2>3. \A i \in 1 .. Len(s) : s[i] \in GoodBlocks
    BY <2>1, ElementOfSeq
  <2>4. CASE Explicit(m)
    <3>1. [i \in 1 .. Len(s) |-> HeldMark(s[i])] = [i \in 1 .. Len(s) |-> K[s[i]]]
      BY <2>3, <2>4 DEF UserMarks
    <3>2. TurnMarks(m)[turn] = FlattenSeq([i \in 1 .. Len(s) |-> HeldMark(s[i])])
      BY <1>3, <2>4 DEF TurnMarks
    <3> QED BY <2>1, <2>2, <3>1, <3>2 DEF FlatMap
  <2>5. CASE ~ Explicit(m)
    <3>1. \A i \in 1 .. Len(s) : K[s[i]] = << >>
      BY <2>3, <2>5 DEF UserMarks
    <3> HIDE DEF K, s
    <3>2. FlatMap(s, K) = << >>
      BY <2>1, <3>1, FlatMapNothing
    <3> QED BY <2>1, <2>2, <2>5, <3>2 DEF TurnMarks
  <2> QED BY <2>4, <2>5
<1>4. CASE turn.role = "system"
  <2>1. turn.content \in Contents(SystemBlocks) /\ TurnMessages(turn, m) = SystemMessages(turn.content)
    BY <1>1, <1>4 DEF HistoryTurns, ClientTurns, UserTurns, SystemTurns, AssistantTurns, TurnMessages
  <2>2. FlatMap(SystemMessages(turn.content), MarksOf) = << >>
    BY <2>1, SystemUnmarked
  <2> QED BY <1>4, <2>1, <2>2 DEF TurnMarks
<1> QED BY <1>1, <1>2, <1>3, <1>4

(* A provider on explicit gets the marks of the user's own texts and       *)
(* images, in order, and no more; any other gets none, however often the   *)
(* client changed models before.                                           *)
THEOREM MarksGoToExplicitProviders == Spec => []MarksGoWhereConfigured
<1>1. IInv => MarksGoWhereConfigured
  <2> SUFFICES ASSUME IInv, phase = "waiting"
               PROVE  SentMarks = IF Explicit(model) THEN HeldMarks ELSE << >>
    BY DEF MarksGoWhereConfigured, Explicit
  <2> DEFINE req == Request(model)
             K == TurnMarks(model)
  <2>1. history \in Seq(GoodTurns) /\ system \in Contents(SystemBlocks)
        /\ sent = AnthropicToOpenAI(req, model)
    BY GoodHistory
  <2>2. req.messages = history /\ req.system = system
    BY DEF Request
  <2> HIDE DEF req, K
  <2>3. \A turn \in GoodTurns : FlatMap(TurnMessages(turn, model), MarksOf) = K[turn]
    BY TurnMarked DEF K
  <2>4. /\ sent.messages \in Seq(SentTurns)
        /\ FlatMap(sent.messages, MarksOf)
           = FlatMap(SystemMessages(system), MarksOf) \o FlatMap(history, K)
    <3>1. req.messages \in Seq(GoodTurns) /\ req.system \in Contents(SystemBlocks)
      BY <2>1, <2>2
    <3>2. MarksOf \in Makers(SentTurns, Pieces)
      BY MarksOfType
    <3>3. /\ AnthropicToOpenAI(req, model).messages \in Seq(SentTurns)
          /\ FlatMap(AnthropicToOpenAI(req, model).messages, MarksOf)
             = FlatMap(SystemMessages(req.system), MarksOf) \o FlatMap(req.messages, K)
      BY <2>3, <3>1, <3>2, RequestReads
    <3> QED BY <2>1, <2>2, <3>3
  <2>5. SentMarks = FlatMap(sent.messages, MarksOf)
    <3> DEFINE s == sent.messages
    <3>1. \A i \in 1 .. Len(s) : s[i] \in SentTurns
      BY <2>4, ElementOfSeq
    <3>2. [i \in 1 .. Len(s) |-> MarkedIn(s[i].content)] = [i \in 1 .. Len(s) |-> MarksOf[s[i]]]
      BY <3>1 DEF MarksOf
    <3> QED BY <3>2 DEF SentMarks, FlatMap
  <2>6. \A i \in 1 .. Len(history) : history[i] \in GoodTurns
    BY <2>1, ElementOfSeq
  <2>7. FlatMap(history, K) = IF Explicit(model) THEN HeldMarks ELSE << >>
    <3>1. CASE Explicit(model)
      <4>1. \A i \in 1 .. Len(history) :
                K[history[i]] =
                  IF history[i].role # "user" THEN << >>
                  ELSE LET blocks == BlocksOf(history[i].content)
                       IN  FlattenSeq([k \in 1 .. Len(blocks) |-> HeldMark(blocks[k])])
        BY <2>6, <3>1 DEF K, TurnMarks
      <4>2. FlattenSeq([i \in 1 .. Len(history) |-> K[history[i]]]) = HeldMarks
        BY <4>1 DEF HeldMarks
      <4> QED BY <3>1, <4>2 DEF FlatMap
    <3>2. CASE ~ Explicit(model)
      <4>1. \A i \in 1 .. Len(history) : K[history[i]] = << >>
        BY <2>6, <3>2 DEF K, TurnMarks
      <4>2. FlatMap(history, K) = << >>
        BY <2>1, <4>1, FlatMapNothing
      <4> QED BY <3>2, <4>2
    <3> QED BY <3>1, <3>2
  <2>8. FlatMap(history, K) \in Seq(Pieces)
    <3>1. \A turn \in GoodTurns : FlatMap(TurnMessages(turn, model), MarksOf) \in Seq(Pieces)
      <4>1. MarksOf \in [SentTurns -> Seq(Pieces)]
        BY MarksOfType DEF Makers
      <4>2. \A turn \in GoodTurns : TurnMessages(turn, model) \in Seq(SentTurns)
        BY TurnSays
      <4> QED BY <4>1, <4>2, FlatMapType
    <3>2. \A turn \in GoodTurns : K[turn] \in Seq(Pieces)
      BY <2>3, <3>1
    <3>3. K = [turn \in GoodTurns |-> K[turn]]
      BY DEF K, TurnMarks
    <3>4. K \in [GoodTurns -> Seq(Pieces)]
      BY <3>2, <3>3
    <3> QED BY <2>1, <3>4, FlatMapType
  <2>9. << >> \o FlatMap(history, K) = FlatMap(history, K)
    BY <2>8, ConcatEmptySeq
  <2> QED BY <2>1, <2>4, <2>5, <2>7, <2>9, SystemUnmarked
<1> QED BY <1>1, Inductive, PTL

-----------------------------------------------------------------------------
(* Answers that come back.                                                 *)

(* The blocks of a type, of two lists one after the other.                 *)
LEMMA TypedConcat ==
    ASSUME NEW B, NEW s \in Seq(B), NEW t \in Seq(B), NEW type
    PROVE  Typed(s \o t, type) = Typed(s, type) \o Typed(t, type)
<1> DEFINE C == WithType(B, type)
           G == OfType(B, type)
<1>1. G \in [B -> Seq(C)]
  <2>1. << >> \in Seq(B)
    BY EmptySeq
  <2> QED BY <2>1, TypedType
<1>2. s \o t \in Seq(B)
  BY ConcatProperties
<1>3. Typed(s, type) = FlatMap(s, G) /\ Typed(t, type) = FlatMap(t, G)
      /\ Typed(s \o t, type) = FlatMap(s \o t, G)
  BY <1>2, TypedMap
<1> HIDE DEF C, G
<1>4. FlatMap(s \o t, G) = FlatMap(s, G) \o FlatMap(t, G)
  BY <1>1, FlatMapConcat
<1> QED BY <1>3, <1>4

(* Blocks that are all of the type, or all of another.                     *)
LEMMA TypedAllOrNone ==
    ASSUME NEW B, NEW s \in Seq(B), NEW type
    PROVE  /\ (\A b \in B : b.type = type) => Typed(s, type) = s
           /\ (\A b \in B : b.type # type) => Typed(s, type) = << >>
<1> DEFINE G == OfType(B, type)
           g == [b \in B |-> b]
<1>1. Typed(s, type) = FlatMap(s, G)
  BY TypedMap
<1>2. \A i \in 1 .. Len(s) : s[i] \in B
  BY ElementOfSeq
<1>3. ASSUME \A b \in B : b.type = type PROVE FlatMap(s, G) = s
  <2>1. \A b \in B : G[b] = <<g[b]>>
    BY <1>3 DEF OfType
  <2>2. \A i \in 1 .. Len(s) : g[s[i]] = s[i]
    BY <1>2
  <2> HIDE DEF G, g
  <2>3. FlatMap(s, G) = [i \in 1 .. Len(s) |-> g[s[i]]]
    BY <2>1, FlatMapEach
  <2>4. s = [i \in 1 .. Len(s) |-> s[i]]
    BY LenProperties
  <2> QED BY <2>2, <2>3, <2>4
<1>4. ASSUME \A b \in B : b.type # type PROVE FlatMap(s, G) = << >>
  <2>1. \A i \in 1 .. Len(s) : G[s[i]] = << >>
    BY <1>2, <1>4 DEF OfType
  <2> HIDE DEF G
  <2> QED BY <2>1, FlatMapNothing
<1> QED BY <1>1, <1>3, <1>4

(* The blocks of an answer by their types.                                 *)
LEMMA AnswerByType ==
    ASSUME NEW msg \in ChatAnswers
    PROVE  /\ Typed(Reply!ContentBlocks(msg), "thinking") = Reply!Thinking(msg)
           /\ Typed(Reply!ContentBlocks(msg), "text") = Reply!Texts(msg.content)
           /\ Typed(Reply!ContentBlocks(msg), "tool_use") = Reply!ToolUses(msg)
<1> DEFINE a == Reply!Thinking(msg)
           b == Reply!Texts(msg.content)
           c == Reply!ToolUses(msg)
<1>1. a \in Seq(Thoughts) /\ b \in Seq(PlainTexts) /\ c \in Seq(Uses)
  BY ReplyBlocks
<1>2. a \in Seq(AnswerBlocks) /\ b \in Seq(AnswerBlocks) /\ c \in Seq(AnswerBlocks)
  <2>1. Thoughts \subseteq AnswerBlocks /\ PlainTexts \subseteq AnswerBlocks /\ Uses \subseteq AnswerBlocks
    BY DEF AnswerBlocks
  <2> QED BY <1>1, <2>1
<1>3. Reply!ContentBlocks(msg) = (a \o b) \o c
  BY DEF Reply!ContentBlocks
<1> HIDE DEF a, b, c
<1>4. a \o b \in Seq(AnswerBlocks)
  BY <1>2, ConcatProperties
<1>5. ASSUME NEW type
      PROVE  Typed((a \o b) \o c, type) = (Typed(a, type) \o Typed(b, type)) \o Typed(c, type)
  <2>1. Typed((a \o b) \o c, type) = Typed(a \o b, type) \o Typed(c, type)
    <3> DEFINE d == a \o b
    <3>1. d \in Seq(AnswerBlocks) /\ c \in Seq(AnswerBlocks)
      BY <1>2, <1>4
    <3> HIDE DEF d
    <3>2. Typed(d \o c, type) = Typed(d, type) \o Typed(c, type)
      BY <3>1, TypedConcat
    <3> QED BY <3>2 DEF d
  <2>2. Typed(a \o b, type) = Typed(a, type) \o Typed(b, type)
    BY <1>2, TypedConcat
  <2> QED BY <2>1, <2>2
<1>6. /\ Typed(a, "thinking") = a /\ Typed(a, "text") = << >> /\ Typed(a, "tool_use") = << >>
  <2>1. \A x \in Thoughts : x.type = "thinking" /\ x.type # "text" /\ x.type # "tool_use"
    BY DEF Thoughts
  <2> QED BY <1>1, <2>1, TypedAllOrNone
<1>7. /\ Typed(b, "thinking") = << >> /\ Typed(b, "text") = b /\ Typed(b, "tool_use") = << >>
  <2>1. \A x \in PlainTexts : x.type = "text" /\ x.type # "thinking" /\ x.type # "tool_use"
    BY DEF PlainTexts
  <2> QED BY <1>1, <2>1, TypedAllOrNone
<1>8. /\ Typed(c, "thinking") = << >> /\ Typed(c, "text") = << >> /\ Typed(c, "tool_use") = c
  <2>1. \A x \in Uses : x.type = "tool_use" /\ x.type # "thinking" /\ x.type # "text"
    BY DEF Uses
  <2> QED BY <1>1, <2>1, TypedAllOrNone
<1>9. /\ (a \o << >>) \o << >> = a /\ (<< >> \o b) \o << >> = b /\ (<< >> \o << >>) \o c = c
  BY <1>2, ConcatEmptySeq, EmptySeq
<1>10. Typed((a \o b) \o c, "thinking") = a /\ Typed((a \o b) \o c, "text") = b
       /\ Typed((a \o b) \o c, "tool_use") = c
  BY <1>5, <1>6, <1>7, <1>8, <1>9
<1> QED BY <1>3, <1>10 DEF a, b, c

(* What an answer says as text is said by the content that goes back.      *)
LEMMA AnswerSays ==
    ASSUME NEW msg \in ChatAnswers, NEW calls
    PROVE  SaidIn(AssistantContent(Reply!Texts(msg.content), calls))
           = SaidIn(IF msg.content.form = "parts"
                    THEN Parts(Typed(msg.content.parts, "text")) ELSE msg.content)
<1> DEFINE c == msg.content
           texts == Reply!Texts(c)
           Part == [type : STRING, text : Prose]
           G == [p \in Part |-> IF p.type = "text" THEN <<Reply!TextBlock(p.text)>> ELSE << >>]
           H == TextOf(Part)
<1>1. texts \in Seq(PlainTexts) /\ c \in AnswerContents
  BY ReplyBlocks DEF ChatAnswers
<1>2. PlainTexts \subseteq SentParts
  BY PlainTextPart
<1>3. texts \in Seq(SentParts)
  BY <1>1, <1>2
<1>4. SaidIn(AssistantContent(texts, calls)) = FlatMap(texts, PartSays)
  <2> HIDE DEF texts
  <2>1. CASE texts = << >>
    BY <2>1, FlatMapEmpty DEF AssistantContent, SaidIn, Absent
  <2>2. CASE texts # << >> /\ Len(texts) = 1 /\ calls = << >> /\ ~ texts[1].mark
    <3> DEFINE p == texts[1]
    <3>1. p \in SentParts /\ p.type = "text" /\ texts = <<p>>
      <4>1. p \in PlainTexts
        BY <1>1, <2>2, ElementOfSeq
      <4>2. p \in SentParts /\ p.type = "text"
        BY <1>2, <4>1 DEF PlainTexts
      <4>3. texts = <<texts[1]>>
        BY <1>1, <2>2
      <4> QED BY <4>2, <4>3
    <3>2. SaidIn(AssistantContent(texts, calls)) = p.text
      BY <2>2 DEF AssistantContent, SaidIn, Text
    <3>3. PartSays[p] = p.text
      BY <3>1 DEF PartSays
    <3>4. PartSays \in [SentParts -> Seq(Pieces)]
      BY PartMaps DEF Makers
    <3> HIDE DEF p
    <3>5. FlatMap(<<p>>, PartSays) = PartSays[p]
      BY <3>1, <3>4, FlatMapOne
    <3> QED BY <3>1, <3>2, <3>3, <3>5
  <2>3. CASE texts # << >> /\ ~ (Len(texts) = 1 /\ calls = << >> /\ ~ texts[1].mark)
    <3>1. AssistantContent(texts, calls) = Parts(texts)
      BY <2>3 DEF AssistantContent
    <3> QED BY <1>3, <3>1, SaidMap
  <2> QED BY <2>1, <2>2, <2>3
<1>5. \A t \in Prose : /\ Reply!TextBlock(t) \in SentParts
                       /\ FlatMap(<<Reply!TextBlock(t)>>, PartSays) = t
  <2> SUFFICES ASSUME NEW t \in Prose
               PROVE  /\ Reply!TextBlock(t) \in SentParts
                      /\ FlatMap(<<Reply!TextBlock(t)>>, PartSays) = t
    OBVIOUS
  <2> DEFINE p == Reply!TextBlock(t)
  <2>1. p \in SentParts /\ p.type = "text" /\ p.text = t
    BY DEF Reply!TextBlock, SentParts
  <2>2. PartSays[p] = t
    BY <2>1 DEF PartSays
  <2>3. PartSays \in [SentParts -> Seq(Pieces)]
    BY PartMaps DEF Makers
  <2> HIDE DEF p
  <2>4. FlatMap(<<p>>, PartSays) = PartSays[p]
    BY <2>1, <2>3, FlatMapOne
  <2> QED BY <2>1, <2>2, <2>4 DEF p
<1>6. CASE c.form = "parts"
  <2>1. c.parts \in Seq(Part)
    BY <1>1, <1>6 DEF AnswerContents, Absent
  <2>2. texts = FlatMap(c.parts, G)
    <3>1. \A i \in 1 .. Len(c.parts) : c.parts[i] \in Part
      BY <2>1, ElementOfSeq
    <3>2. [i \in 1 .. Len(c.parts) |->
              IF c.parts[i].type = "text" THEN <<Reply!TextBlock(c.parts[i].text)>> ELSE << >>]
          = [i \in 1 .. Len(c.parts) |-> G[c.parts[i]]]
      <4> HIDE DEF Part
      <4> QED BY <3>1
    <3> HIDE DEF G
    <3> QED BY <1>6, <3>2, ReplyFlatten DEF Reply!Texts, FlatMap
  <2>3. FlatMap(FlatMap(c.parts, G), PartSays) = FlatMap(c.parts, H)
    <3>1. \A p \in Part : p.text \in Prose
      OBVIOUS
    <3>2. ASSUME NEW p \in Part PROVE G[p] \in Seq(SentParts) /\ FlatMap(G[p], PartSays) = H[p]
      <4>1. CASE p.type = "text"
        <5>1. G[p] = <<Reply!TextBlock(p.text)>> /\ H[p] = p.text
          BY <4>1 DEF TextOf
        <5>2. p.text \in Prose
          BY <3>1
        <5> HIDE DEF G, H, Part
        <5>3. Reply!TextBlock(p.text) \in SentParts
          BY <1>5, <5>2
        <5> QED BY <1>5, <5>1, <5>2, <5>3
      <4>2. CASE p.type # "text"
        <5>1. G[p] = << >> /\ H[p] = << >>
          BY <4>2 DEF TextOf
        <5> HIDE DEF G, H, Part
        <5> QED BY <5>1, FlatMapEmpty
      <4> QED BY <4>1, <4>2
    <3>3. G = [p \in Part |-> G[p]]
      OBVIOUS
    <3> HIDE DEF G, H, Part
    <3>4. \A p \in Part : FlatMap(G[p], PartSays) = H[p]
      BY <3>2
    <3>5. G \in Makers(Part, SentParts)
      BY <3>2, <3>3 DEF Makers
    <3> QED BY <2>1, <3>4, <3>5, PartMaps, FlatMapTwice
  <2>4. SaidIn(Parts(Typed(c.parts, "text"))) = FlatMap(c.parts, H)
    <3> DEFINE ts == Typed(c.parts, "text")
               C == WithType(Part, "text")
    <3>1. ts \in Seq(C)
      BY <2>1, TypedType
    <3>2. \A p \in C : p.type = "text"
      BY DEF WithType
    <3> HIDE DEF ts, C
    <3>3. \A i \in 1 .. Len(ts) : ts[i] \in C
      BY <3>1, ElementOfSeq
    <3>4. \A i \in 1 .. Len(ts) : ts[i].type = "text"
      BY <3>2, <3>3
    <3>5. [i \in 1 .. Len(ts) |-> IF ts[i].type = "text" THEN ts[i].text ELSE <<ts[i].image>>]
          = [i \in 1 .. Len(ts) |-> ts[i]["text"]]
      BY <3>4
    <3>6. SaidIn(Parts(ts)) = FlattenSeq(Field(ts, "text"))
      BY <3>5 DEF SaidIn, Parts, Field
    <3>7. FlattenSeq(Field(ts, "text")) = FlatMap(c.parts, H)
      <4>1. \A p \in Part : p.type = "text" => p.text \in Prose
        OBVIOUS
      <4> HIDE DEF Part
      <4> QED BY <2>1, <4>1, TextsMap DEF ts
    <3> QED BY <3>6, <3>7 DEF ts
  <2> QED BY <1>4, <1>6, <2>2, <2>3, <2>4
<1>7. CASE c.form = "text"
  <2>1. c.text \in Prose /\ SaidIn(c) = c.text
    BY <1>1, <1>7 DEF AnswerContents, Absent, SaidIn
  <2>2. CASE c.text = << >>
    <3>1. texts = << >>
      BY <1>7, <2>2 DEF Reply!Texts
    <3>2. FlatMap(<< >>, PartSays) = << >>
      BY FlatMapEmpty
    <3> QED BY <1>4, <1>7, <2>1, <2>2, <3>1, <3>2
  <2>3. CASE c.text # << >>
    <3>1. texts = <<Reply!TextBlock(c.text)>>
      BY <1>7, <2>3 DEF Reply!Texts
    <3> QED BY <1>4, <1>5, <1>7, <2>1, <3>1
  <2> QED BY <2>2, <2>3
<1>8. CASE c.form \notin {"parts", "text"}
  <2>1. texts = << >> /\ SaidIn(c) = << >>
    BY <1>8 DEF Reply!Texts, SaidIn
  <2>2. FlatMap(<< >>, PartSays) = << >>
    BY FlatMapEmpty
  <2> QED BY <1>4, <1>8, <2>1, <2>2
<1> QED BY <1>6, <1>7, <1>8

(* The calls of an answer go back with their IDs and arguments, the empty  *)
(* arguments written out.                                                  *)
LEMMA AnswerCalls ==
    ASSUME NEW msg \in ChatAnswers
    PROVE  CallsIn(Reply!ContentBlocks(msg))
           = [i \in 1 .. Len(msg.calls) |->
                 [msg.calls[i] EXCEPT !.arguments = IF @ = << >> THEN EmptyObject ELSE @]]
<1> DEFINE uses == Reply!ToolUses(msg)
<1>1. msg.calls \in Seq(Calls)
  BY DEF ChatAnswers
<1>2. \A i \in 1 .. Len(msg.calls) : msg.calls[i] \in Calls
  BY <1>1, ElementOfSeq
<1>3. Len(msg.calls) \in Nat /\ Len(uses) = Len(msg.calls)
  BY <1>1, LenProperties DEF Reply!ToolUses
<1>4. \A i \in 1 .. Len(msg.calls) : uses[i] = Reply!ToolUse(msg.calls[i])
  BY DEF Reply!ToolUses
<1>5. ASSUME NEW call \in Calls
      PROVE  Call(Reply!ToolUse(call))
             = [call EXCEPT !.arguments = IF @ = << >> THEN EmptyObject ELSE @]
  BY DEF Calls, Call, Reply!ToolUse
<1>6. CallsIn(Reply!ContentBlocks(msg)) = [i \in 1 .. Len(uses) |-> Call(uses[i])]
  BY AnswerByType DEF CallsIn
<1> HIDE DEF uses
<1>7. \A i \in 1 .. Len(msg.calls) :
          Call(uses[i]) = [msg.calls[i] EXCEPT !.arguments = IF @ = << >> THEN EmptyObject ELSE @]
  BY <1>2, <1>4, <1>5
<1> QED BY <1>3, <1>6, <1>7

(* So does its reasoning.                                                  *)
LEMMA AnswerThought ==
    ASSUME NEW msg \in ChatAnswers
    PROVE  ThoughtIn(Reply!ContentBlocks(msg)) = Reply!ReasoningText(msg)
<1> DEFINE t == Reply!ReasoningText(msg)
           b == Reply!ThinkingBlock(t)
<1>1. t \in Prose
  BY DEF ChatAnswers, Reply!ReasoningText
<1>2. ThoughtIn(Reply!ContentBlocks(msg)) = FlattenSeq(Field(Reply!Thinking(msg), "thinking"))
  BY AnswerByType DEF ThoughtIn
<1>3. b["thinking"] = t
  BY DEF Reply!ThinkingBlock
<1>4. Reply!Thinking(msg) = IF t = << >> THEN << >> ELSE <<b>>
  BY DEF Reply!Thinking
<1> HIDE DEF t, b
<1>5. CASE t = << >>
  <2>1. Field(<< >>, "thinking") = << >>
    BY DEF Field
  <2> QED BY <1>2, <1>4, <1>5, <2>1, FlattenEmpty DEF t
<1>6. CASE t # << >>
  <2>1. Field(<<b>>, "thinking") = <<t>>
    BY <1>3 DEF Field
  <2>2. FlattenSeq(<<t>>) = t
    BY <1>1, FlattenOne DEF Prose
  <2> QED BY <1>2, <1>4, <1>6, <2>1, <2>2 DEF t
<1> QED BY <1>5, <1>6

Returned(msg, m) == AssistantMessage(AnswerTurn(msg).content, m)

(* An answer goes back as it was given.                                    *)
LEMMA AnswerReturns ==
    ASSUME NEW answer \in ChatAnswers
    PROVE  Returned(answer, model) \in SentTurns /\ SameTurn(Returned(answer, model), answer)
<1> DEFINE turn == AnswerTurn(answer)
           blocks == Reply!ContentBlocks(answer)
           texts == Reply!Texts(answer.content)
           calls == CallsIn(blocks)
           msg == Returned(answer, model)
<1>1. turn \in AssistantTurns
  BY AnswerTurnType
<1>2. turn.content.blocks = blocks /\ msg = AssistantMessage(turn.content, model)
  BY DEF AnswerTurn, Returned
<1> HIDE DEF turn, blocks, msg
<1>3. msg \in SentTurns /\ msg = Spelled(blocks, model)
  BY <1>1, <1>2, AssistantType
<1>4. msg.content = AssistantContent(texts, calls)
  <2>1. Typed(blocks, "text") = texts
    BY AnswerByType DEF blocks
  <2>2. Spelled(blocks, model).content = AssistantContent(Typed(blocks, "text"), calls)
    BY DEF Spelled
  <2> QED BY <1>3, <2>1, <2>2
<1>5. msg.calls = CallsIn(blocks)
  <2>1. Spelled(blocks, model).calls = CallsIn(blocks)
    BY DEF Spelled
  <2> QED BY <1>3, <2>1
<1>6. IF ReasoningFieldName(model) = "reasoning"
      THEN msg.reasoning = ThoughtIn(blocks) /\ msg.reasoningContent = << >>
      ELSE msg.reasoningContent = ThoughtIn(blocks) /\ msg.reasoning = << >>
  BY <1>3 DEF Spelled
<1>7. /\ SaidIn(msg.content)
         = SaidIn(IF answer.content.form = "parts"
                  THEN Parts(Typed(answer.content.parts, "text")) ELSE answer.content)
      /\ CallsIn(blocks)
         = [i \in 1 .. Len(answer.calls) |->
               [answer.calls[i] EXCEPT !.arguments = IF @ = << >> THEN EmptyObject ELSE @]]
      /\ ThoughtIn(blocks) = Reply!ReasoningText(answer)
  <2>1. SaidIn(AssistantContent(texts, calls))
        = SaidIn(IF answer.content.form = "parts"
                 THEN Parts(Typed(answer.content.parts, "text")) ELSE answer.content)
    <3> HIDE DEF calls
    <3> QED BY AnswerSays
  <2>2. CallsIn(blocks)
        = [i \in 1 .. Len(answer.calls) |->
              [answer.calls[i] EXCEPT !.arguments = IF @ = << >> THEN EmptyObject ELSE @]]
    BY AnswerCalls DEF blocks
  <2>3. ThoughtIn(blocks) = Reply!ReasoningText(answer)
    BY AnswerThought DEF blocks
  <2> HIDE DEF calls, texts
  <2> QED BY <1>4, <2>1, <2>2, <2>3
<1>8. SameTurn(msg, answer)
  <2> HIDE DEF texts, calls
  <2> QED BY <1>5, <1>6, <1>7 DEF SameTurn
<1> QED BY <1>3, <1>8 DEF msg

OwnMessage == [msg \in SentTurns |-> IF msg.role = "assistant" THEN <<msg>> ELSE << >>]
NoPart == [p \in SentParts |-> << >>]
NoBlock == [b \in GoodBlocks |-> << >>]
OwnOf(m) ==
    [turn \in HistoryTurns |->
        IF turn.role = "assistant" THEN <<AssistantMessage(turn.content, m)>> ELSE << >>]

(* The assistant messages of a request are those that OwnMessage keeps.    *)
LEMMA OwnMap ==
    /\ OwnMessage \in Makers(SentTurns, SentTurns)
    /\ \A s \in Seq(SentTurns) : Roles(s, "assistant") = FlatMap(s, OwnMessage)
<1>1. \A msg \in SentTurns : OwnMessage[msg] \in Seq(SentTurns)
  <2> SUFFICES ASSUME NEW msg \in SentTurns PROVE OwnMessage[msg] \in Seq(SentTurns)
    OBVIOUS
  <2>1. OwnMessage[msg] = IF msg.role = "assistant" THEN <<msg>> ELSE << >>
    BY DEF OwnMessage
  <2>2. <<msg>> \in Seq(SentTurns) /\ << >> \in Seq(SentTurns)
    BY EmptySeq
  <2> QED BY <2>1, <2>2
<1>2. OwnMessage = [msg \in SentTurns |-> OwnMessage[msg]]
  BY DEF OwnMessage
<1>3. ASSUME NEW s \in Seq(SentTurns) PROVE Roles(s, "assistant") = FlatMap(s, OwnMessage)
  <2>1. \A i \in 1 .. Len(s) : s[i] \in SentTurns
    BY ElementOfSeq
  <2>2. [i \in 1 .. Len(s) |-> IF s[i].role = "assistant" THEN <<s[i]>> ELSE << >>]
        = [i \in 1 .. Len(s) |-> OwnMessage[s[i]]]
    BY <2>1 DEF OwnMessage
  <2> QED BY <2>2 DEF Roles, FlatMap
<1> QED BY <1>1, <1>2, <1>3 DEF Makers

(* No user turn makes an assistant message.                                *)
LEMMA UserTurnsAreNotOwn ==
    /\ Reads(OwnMessage, NoPart, SentTurns)
    /\ \A m : ReadsAs(OwnMessage, NoPart, NoBlock, m)
<1>1. ASSUME NEW parts \in Seq(SentParts)
      PROVE  FlatMap(Flushed(parts), OwnMessage) = FlatMap(parts, NoPart)
  <2>1. \A i \in 1 .. Len(parts) : parts[i] \in SentParts
    BY ElementOfSeq
  <2>2. \A i \in 1 .. Len(parts) : NoPart[parts[i]] = << >>
    BY <2>1 DEF NoPart
  <2>3. FlatMap(parts, NoPart) = << >>
    BY <2>2, FlatMapNothing
  <2>4. Flushed(parts) \in Seq(SentTurns)
    BY FlushedType
  <2>5. \A i \in 1 .. Len(Flushed(parts)) : Flushed(parts)[i] \in SentTurns
    BY <2>4, ElementOfSeq
  <2>6. \A i \in 1 .. Len(Flushed(parts)) : Flushed(parts)[i].role = "user"
    BY DEF Flushed, UserMessage
  <2>7. \A i \in 1 .. Len(Flushed(parts)) : OwnMessage[Flushed(parts)[i]] = << >>
    BY <2>5, <2>6 DEF OwnMessage
  <2>8. FlatMap(Flushed(parts), OwnMessage) = << >>
    BY <2>4, <2>7, FlatMapNothing
  <2> QED BY <2>3, <2>8
<1>2. NoPart \in Makers(SentParts, SentTurns)
  BY EmptySeq DEF NoPart, Makers
<1>3. Reads(OwnMessage, NoPart, SentTurns)
  BY <1>1, <1>2, OwnMap DEF Reads
<1>4. ASSUME NEW m PROVE ReadsAs(OwnMessage, NoPart, NoBlock, m)
  <2> SUFFICES ASSUME NEW b \in GoodBlocks
               PROVE  /\ b.type = "text" => NoBlock[b] = NoPart[TextPart(b, m)]
                      /\ b.type = "image" => NoBlock[b] = NoPart[ImagePart(b, m)]
                      /\ b.type = "tool_result" => NoBlock[b] = OwnMessage[ToolMessage(b, m)]
                      /\ b.type \notin {"text", "image", "tool_result"} => NoBlock[b] = << >>
    BY DEF ReadsAs
  <2>1. NoBlock[b] = << >>
    BY DEF NoBlock
  <2>2. b.type = "text" => NoPart[TextPart(b, m)] = << >>
    BY PartsType DEF NoPart
  <2>3. b.type = "image" => NoPart[ImagePart(b, m)] = << >>
    BY PartsType DEF NoPart
  <2>4. b.type = "tool_result" => OwnMessage[ToolMessage(b, m)] = << >>
    <3>1. ToolMessage(b, m).role = "tool"
      BY DEF ToolMessage
    <3> QED BY <3>1, PartsType DEF OwnMessage
  <2> QED BY <2>1, <2>2, <2>3, <2>4
<1> QED BY <1>3, <1>4

(* Nor does a system message.                                              *)
LEMMA SystemIsNotOwn ==
    ASSUME NEW c \in Contents(SystemBlocks)
    PROVE  FlatMap(SystemMessages(c), OwnMessage) = << >>
<1>1. SystemMessages(c) \in Seq(SentTurns)
  BY SystemMessagesSay
<1>2. \A i \in 1 .. Len(SystemMessages(c)) : SystemMessages(c)[i] \in SentTurns
  BY <1>1, ElementOfSeq
<1>3. \A i \in 1 .. Len(SystemMessages(c)) : SystemMessages(c)[i].role = "system"
  BY DEF SystemMessages
<1>4. \A i \in 1 .. Len(SystemMessages(c)) : OwnMessage[SystemMessages(c)[i]] = << >>
  BY <1>2, <1>3 DEF OwnMessage
<1> QED BY <1>1, <1>4, FlatMapNothing

(* The assistant messages that a turn makes.                               *)
LEMMA TurnOwns ==
    ASSUME NEW turn \in GoodTurns, NEW m
    PROVE  /\ FlatMap(TurnMessages(turn, m), OwnMessage) = OwnOf(m)[turn]
           /\ OwnOf(m)[turn] \in Seq(SentTurns)
<1>1. turn \in HistoryTurns /\ turn.role \in {"assistant", "user", "system"}
  BY DEF GoodTurns, HistoryTurns, ClientTurns, UserTurns, SystemTurns, AssistantTurns
<1>2. CASE turn.role = "assistant"
  <2> DEFINE msg == AssistantMessage(turn.content, m)
  <2>1. turn \in AssistantTurns
    BY <1>1, <1>2 DEF HistoryTurns, ClientTurns, UserTurns, SystemTurns
  <2>2. msg \in SentTurns /\ TurnMessages(turn, m) = <<msg>> /\ msg.role = "assistant"
    BY <1>2, <2>1, AssistantType DEF TurnMessages, AssistantMessage
  <2>3. OwnOf(m)[turn] = <<msg>>
    BY <1>1, <1>2 DEF OwnOf
  <2> HIDE DEF msg
  <2>4. OwnMessage[msg] = <<msg>>
    BY <2>2 DEF OwnMessage
  <2>5. FlatMap(<<msg>>, OwnMessage) = OwnMessage[msg]
    <3>1. OwnMessage \in [SentTurns -> Seq(SentTurns)]
      BY OwnMap DEF Makers
    <3> QED BY <2>2, <3>1, FlatMapOne
  <2>6. <<msg>> \in Seq(SentTurns)
    BY <2>2
  <2> QED BY <2>2, <2>3, <2>4, <2>5, <2>6
<1>3. CASE turn.role = "user"
  <2> DEFINE s == BlocksOf(turn.content)
  <2>1. s \in Seq(GoodBlocks) /\ TurnMessages(turn, m) = UserMessages(turn.content, m)
    BY <1>3, GoodUserBlocks DEF TurnMessages
  <2>2. FlatMap(UserMessages(turn.content, m), OwnMessage) = FlatMap(s, NoBlock)
    <3>1. Reads(OwnMessage, NoPart, SentTurns) /\ ReadsAs(OwnMessage, NoPart, NoBlock, m)
      BY UserTurnsAreNotOwn
    <3>2. BlocksOf(turn.content) \in Seq(GoodBlocks)
      BY <2>1
    <3> QED BY <3>1, <3>2, UserReads
  <2> HIDE DEF s
  <2>3. \A i \in 1 .. Len(s) : s[i] \in GoodBlocks
    BY <2>1, ElementOfSeq
  <2>4. \A i \in 1 .. Len(s) : NoBlock[s[i]] = << >>
    BY <2>3 DEF NoBlock
  <2>5. FlatMap(s, NoBlock) = << >>
    BY <2>1, <2>4, FlatMapNothing
  <2>6. OwnOf(m)[turn] = << >> /\ << >> \in Seq(SentTurns)
    BY <1>1, <1>3, EmptySeq DEF OwnOf
  <2> QED BY <2>1, <2>2, <2>5, <2>6
<1>4. CASE turn.role = "system"
  <2>1. turn.content \in Contents(SystemBlocks) /\ TurnMessages(turn, m) = SystemMessages(turn.content)
    BY <1>1, <1>4 DEF HistoryTurns, ClientTurns, UserTurns, SystemTurns, AssistantTurns, TurnMessages
  <2>2. FlatMap(SystemMessages(turn.content), OwnMessage) = << >>
    BY <2>1, SystemIsNotOwn
  <2>3. OwnOf(m)[turn] = << >> /\ << >> \in Seq(SentTurns)
    BY <1>1, <1>4, EmptySeq DEF OwnOf
  <2> QED BY <2>1, <2>2, <2>3
<1> QED BY <1>1, <1>2, <1>3, <1>4

(* The assistant turns of the history are the provider's answers.          *)
LEMMA HistoryHoldsAnswers ==
    ASSUME IInv
    PROVE  /\ history \in Seq(HistoryTurns)
           /\ FlatMap(history, OfRole) = FlatMap(answers, CameAs)
<1>1. PICK kept, turn : Split(kept, turn)
  BY DEF IInv, KeptApart
<1>2. kept \in Seq(HistoryTurns) /\ turn \in Seq(HistoryTurns) /\ history = kept \o turn
      /\ FlatMap(turn, OfRole) = << >> /\ FlatMap(kept, OfRole) = FlatMap(answers, CameAs)
  BY <1>1, OwnTurns DEF Split
<1>3. FlatMap(kept \o turn, OfRole) = FlatMap(kept, OfRole) \o FlatMap(turn, OfRole)
  <2>1. Spreads(OfRole, HistoryTurns)
    BY RoleTypes, Spreading
  <2> QED BY <1>2, <2>1, Zenon DEF Spreads
<1>4. FlatMap(kept, OfRole) \in Seq(HistoryTurns)
  BY <1>2, RoleTypes, FlatMapType
<1>5. FlatMap(kept, OfRole) \o << >> = FlatMap(kept, OfRole)
  BY <1>4, ConcatEmptySeq
<1>6. kept \o turn \in Seq(HistoryTurns)
  BY <1>2, ConcatProperties
<1> QED BY <1>2, <1>3, <1>5, <1>6

(* OwnOf makes lists of messages.                                          *)
LEMMA OwnType == ASSUME NEW m PROVE OwnOf(m) \in [HistoryTurns -> Seq(SentTurns)]
<1> DEFINE A == OwnOf(m)
<1>1. ASSUME NEW t \in HistoryTurns PROVE A[t] \in Seq(SentTurns)
  <2>1. CASE t.role = "assistant"
    <3>1. t \in AssistantTurns
      BY <2>1 DEF HistoryTurns, ClientTurns, UserTurns, SystemTurns
    <3>2. AssistantMessage(t.content, m) \in SentTurns
      BY <3>1, AssistantType
    <3>3. A[t] = <<AssistantMessage(t.content, m)>>
      BY <2>1 DEF OwnOf
    <3> HIDE DEF A
    <3> QED BY <3>2, <3>3
  <2>2. CASE t.role # "assistant"
    BY <2>2, EmptySeq DEF OwnOf
  <2> QED BY <2>1, <2>2
<1> QED BY <1>1 DEF OwnOf

(* OwnOf looks at nothing but the assistant turns.                         *)
LEMMA OwnIsOfRole ==
    ASSUME NEW s \in Seq(HistoryTurns), NEW m
    PROVE  FlatMap(s, OwnOf(m)) = FlatMap(FlatMap(s, OfRole), OwnOf(m))
<1> DEFINE A == OwnOf(m)
<1>2. A \in [HistoryTurns -> Seq(SentTurns)]
  BY OwnType
<1>3. ASSUME NEW t \in HistoryTurns PROVE FlatMap(OfRole[t], A) = A[t]
  <2>1. CASE t.role = "assistant"
    <3>1. OfRole[t] = <<t>>
      BY <2>1 DEF OfRole
    <3> HIDE DEF A
    <3>2. FlatMap(<<t>>, A) = A[t]
      BY <1>2, FlatMapOne
    <3> QED BY <3>1, <3>2
  <2>2. CASE t.role # "assistant"
    <3>1. OfRole[t] = << >> /\ A[t] = << >>
      BY <2>2 DEF OfRole, OwnOf
    <3> HIDE DEF A
    <3> QED BY <3>1, FlatMapEmpty
  <2> QED BY <2>1, <2>2
<1> HIDE DEF A
<1>4. A \in Makers(HistoryTurns, SentTurns) /\ OfRole \in Makers(HistoryTurns, HistoryTurns)
  BY <1>2, RoleTypes DEF Makers
<1>5. \A t \in HistoryTurns : FlatMap(OfRole[t], A) = A[t]
  BY <1>3
<1>6. FlatMap(FlatMap(s, OfRole), A) = FlatMap(s, A)
  BY <1>4, <1>5, FlatMapTwice
<1> QED BY <1>6 DEF A

(* The answers go back one by one.                                         *)
LEMMA AnswersReturn ==
    ASSUME NEW s \in Seq(Given), NEW m
    PROVE  FlatMap(FlatMap(s, CameAs), OwnOf(m)) = [i \in 1 .. Len(s) |-> Returned(s[i], m)]
<1> DEFINE A == OwnOf(m)
           g == [msg \in Given |-> Returned(msg, m)]
           F == [msg \in Given |-> <<Returned(msg, m)>>]
<1>1. ASSUME NEW msg \in Given PROVE /\ AnswerTurn(msg) \in HistoryTurns
                                     /\ A[AnswerTurn(msg)] = <<Returned(msg, m)>>
                                     /\ Returned(msg, m) \in SentTurns
  <2>1. AnswerTurn(msg) \in AssistantTurns /\ AnswerTurn(msg).role = "assistant"
    BY AnswerTurnType DEF Given, AnswerTurn
  <2>2. AnswerTurn(msg) \in HistoryTurns
    BY <2>1 DEF HistoryTurns
  <2>3. A[AnswerTurn(msg)] = <<Returned(msg, m)>>
    <3> DEFINE t == AnswerTurn(msg)
    <3>1. A[t] = <<AssistantMessage(t.content, m)>>
      <4> HIDE DEF t
      <4> QED BY <2>1, <2>2 DEF OwnOf, t
    <3> QED BY <3>1 DEF Returned
  <2>4. Returned(msg, m) \in SentTurns
    BY <2>1, AssistantType DEF Returned
  <2> QED BY <2>2, <2>3, <2>4
<1>3. A \in [HistoryTurns -> Seq(SentTurns)]
  BY OwnType
<1> HIDE DEF A
<1>4. \A msg \in Given : FlatMap(CameAs[msg], A) = F[msg]
  <2> SUFFICES ASSUME NEW msg \in Given PROVE FlatMap(CameAs[msg], A) = F[msg]
    OBVIOUS
  <2> DEFINE t == AnswerTurn(msg)
  <2>1. CameAs[msg] = <<t>> /\ F[msg] = <<Returned(msg, m)>>
    BY DEF CameAs
  <2>2. t \in HistoryTurns /\ A[t] = <<Returned(msg, m)>>
    BY <1>1
  <2> HIDE DEF t, F
  <2>3. FlatMap(<<t>>, A) = A[t]
    BY <1>3, <2>2, FlatMapOne
  <2> QED BY <2>1, <2>2, <2>3
<1>5. \A msg \in Given : F[msg] = <<g[msg]>>
  OBVIOUS
<1>6. A \in Makers(HistoryTurns, SentTurns) /\ CameAs \in Makers(Given, HistoryTurns)
  BY <1>3, RoleTypes DEF Makers
<1>7. \A i \in 1 .. Len(s) : s[i] \in Given
  BY ElementOfSeq
<1>8. [i \in 1 .. Len(s) |-> g[s[i]]] = [i \in 1 .. Len(s) |-> Returned(s[i], m)]
  BY <1>7
<1> HIDE DEF F, g
<1>9. FlatMap(FlatMap(s, CameAs), A) = FlatMap(s, F)
  BY <1>4, <1>6, FlatMapTwice
<1>10. FlatMap(s, F) = [i \in 1 .. Len(s) |-> g[s[i]]]
  BY <1>5, FlatMapEach
<1> QED BY <1>8, <1>9, <1>10 DEF A

(* An assistant turn comes back to the provider as its answer was: text,   *)
(* calls, arguments and reasoning, however long the conversation is and    *)
(* whichever models it went through.                                       *)
THEOREM AnswersReturnAsGiven == Spec => []AnswersComeBackAsGiven
<1>1. IInv => AnswersComeBackAsGiven
  <2> SUFFICES ASSUME IInv, phase = "waiting"
               PROVE  LET own == Roles(sent.messages, "assistant")
                      IN  /\ Len(own) = Len(answers)
                          /\ \A i \in 1 .. Len(own) : SameTurn(own[i], answers[i])
    BY DEF AnswersComeBackAsGiven
  <2> DEFINE req == Request(model)
             K == OwnOf(model)
             own == Roles(sent.messages, "assistant")
  <2>1. history \in Seq(GoodTurns) /\ system \in Contents(SystemBlocks)
        /\ sent = AnthropicToOpenAI(req, model)
    BY GoodHistory
  <2>2. req.messages = history /\ req.system = system
    BY DEF Request
  <2>3. answers \in Seq(Given)
    BY DEF IInv, Typed0
  <2> HIDE DEF req, K
  <2>4. /\ sent.messages \in Seq(SentTurns)
        /\ FlatMap(sent.messages, OwnMessage)
           = FlatMap(SystemMessages(system), OwnMessage) \o FlatMap(history, K)
    <3>1. req.messages \in Seq(GoodTurns) /\ req.system \in Contents(SystemBlocks)
      BY <2>1, <2>2
    <3>2. OwnMessage \in Makers(SentTurns, SentTurns)
      BY OwnMap
    <3>3. \A turn \in GoodTurns : FlatMap(TurnMessages(turn, model), OwnMessage) = K[turn]
      BY TurnOwns DEF K
    <3>4. /\ AnthropicToOpenAI(req, model).messages \in Seq(SentTurns)
          /\ FlatMap(AnthropicToOpenAI(req, model).messages, OwnMessage)
             = FlatMap(SystemMessages(req.system), OwnMessage) \o FlatMap(req.messages, K)
      BY <3>1, <3>2, <3>3, RequestReads
    <3> QED BY <2>1, <2>2, <3>4
  <2>5. own = FlatMap(sent.messages, OwnMessage)
    BY <2>4, OwnMap
  <2> DEFINE returned == [i \in 1 .. Len(answers) |-> Returned(answers[i], model)]
  <2>6. FlatMap(history, K) = returned
    BY <2>3, HistoryHoldsAnswers, OwnIsOfRole, AnswersReturn DEF K
  <2>7. \A i \in 1 .. Len(answers) : answers[i] \in ChatAnswers
    BY <2>3, ElementOfSeq DEF Given
  <2>8. \A i \in 1 .. Len(answers) : returned[i] \in SentTurns /\ SameTurn(returned[i], answers[i])
    BY <2>7, AnswerReturns
  <2>9. Len(answers) \in Nat
    BY <2>3, LenProperties
  <2>10. returned \in Seq(SentTurns) /\ Len(returned) = Len(answers)
    <3>1. returned \in [1 .. Len(answers) -> SentTurns]
      BY <2>8
    <3> HIDE DEF returned
    <3>2. returned \in Seq(SentTurns)
      BY <2>9, <3>1, SeqDef
    <3> QED BY <2>9, <3>1, <3>2, LenProperties
  <2> HIDE DEF returned, own
  <2>11. << >> \o returned = returned
    BY <2>10, ConcatEmptySeq
  <2>12. own = returned
    BY <2>1, <2>4, <2>5, <2>6, <2>11, SystemIsNotOwn
  <2>13. Len(own) = Len(answers) /\ \A i \in 1 .. Len(own) : SameTurn(own[i], answers[i])
    BY <2>8, <2>10, <2>12
  <2> QED BY <2>13 DEF own
<1> QED BY <1>1, Inductive, PTL
-----------------------------------------------------------------------------
(* Results behind their calls.                                             *)

CallsAt(ms, i) == IF ms[i].role = "assistant" THEN ms[i].calls ELSE << >>
BehindAt(ms, i) == i + 1 .. i + Len(CallsAt(ms, i))

(* Results are behind the calls of some message, and are those of its      *)
(* calls.                                                                  *)
Follows(ms) ==
    /\ \A i \in 1 .. Len(ms) : \A k \in BehindAt(ms, i) : k \in 1 .. Len(ms) /\ ms[k].role = "tool"
    /\ \A k \in 1 .. Len(ms) : ms[k].role = "tool" => \E i \in 1 .. Len(ms) : k \in BehindAt(ms, i)
    /\ \A i \in 1 .. Len(ms) :
           CallIds(CallsAt(ms, i)) = {ms[k].callId : k \in BehindAt(ms, i)}

(* The calls of a message are a list.                                      *)
LEMMA CallsAtType ==
    ASSUME NEW ms \in Seq(SentTurns), NEW i \in 1 .. Len(ms)
    PROVE  Len(CallsAt(ms, i)) \in Nat /\ i \in Nat
<1>1. ms[i] \in SentTurns
  BY ElementOfSeq
<1>2. CASE ms[i].role = "assistant"
  <2>1. ms[i].calls \in Seq([id : Ids, arguments : Inputs])
    BY <1>1, <1>2 DEF SentTurns
  <2>2. Len(ms[i].calls) \in Nat
    BY <2>1, LenProperties
  <2> QED BY <1>2, <2>2 DEF CallsAt
<1>3. CASE ms[i].role # "assistant"
  <2>1. Len(<< >>) = 0
    OBVIOUS
  <2> QED BY <1>3, <2>1 DEF CallsAt
<1> QED BY <1>2, <1>3

(* Two lists of which it is true make one.                                 *)
LEMMA FollowsConcat ==
    ASSUME NEW ms \in Seq(SentTurns), NEW xs \in Seq(SentTurns), Follows(ms), Follows(xs)
    PROVE  Follows(ms \o xs)
<1> DEFINE zs == ms \o xs
           n == Len(ms)
           l == Len(xs)
<1>1. zs \in Seq(SentTurns) /\ n \in Nat /\ l \in Nat /\ Len(zs) = n + l
      /\ (\A i \in 1 .. n : zs[i] = ms[i]) /\ (\A i \in 1 .. l : zs[n + i] = xs[i])
  BY ConcatProperties, LenProperties
<1>2. /\ \A i \in 1 .. n : Len(CallsAt(ms, i)) \in Nat
      /\ \A i \in 1 .. l : Len(CallsAt(xs, i)) \in Nat
  BY CallsAtType
<1> HIDE DEF zs, n, l
<1>3. ASSUME NEW i \in 1 .. n
      PROVE  CallsAt(zs, i) = CallsAt(ms, i) /\ BehindAt(zs, i) = BehindAt(ms, i)
  BY <1>1 DEF CallsAt, BehindAt
<1>4. ASSUME NEW i \in 1 .. l
      PROVE  /\ CallsAt(zs, n + i) = CallsAt(xs, i)
             /\ \A k : k \in BehindAt(zs, n + i) => k - n \in BehindAt(xs, i) /\ k = n + (k - n)
             /\ \A k \in BehindAt(xs, i) : n + k \in BehindAt(zs, n + i)
  <2>1. CallsAt(zs, n + i) = CallsAt(xs, i)
    BY <1>1 DEF CallsAt
  <2>2. Len(CallsAt(xs, i)) \in Nat
    BY <1>2
  <2> QED BY <1>1, <2>1, <2>2, SMTT(30) DEF BehindAt
<1>5. \A i \in 1 .. Len(zs) : i \in 1 .. n \/ \E j \in 1 .. l : i = n + j
  <2> SUFFICES ASSUME NEW i \in 1 .. Len(zs), i \notin 1 .. n PROVE \E j \in 1 .. l : i = n + j
    OBVIOUS
  <2>1. i - n \in 1 .. l /\ i = n + (i - n)
    BY <1>1
  <2> QED BY <2>1
<1>6. /\ \A i \in 1 .. n : \A k \in BehindAt(ms, i) : k \in 1 .. n /\ ms[k].role = "tool"
      /\ \A k \in 1 .. n : ms[k].role = "tool" => \E i \in 1 .. n : k \in BehindAt(ms, i)
      /\ \A i \in 1 .. n : CallIds(CallsAt(ms, i)) = {ms[k].callId : k \in BehindAt(ms, i)}
  BY DEF Follows, n
<1>7. /\ \A i \in 1 .. l : \A k \in BehindAt(xs, i) : k \in 1 .. l /\ xs[k].role = "tool"
      /\ \A k \in 1 .. l : xs[k].role = "tool" => \E i \in 1 .. l : k \in BehindAt(xs, i)
      /\ \A i \in 1 .. l : CallIds(CallsAt(xs, i)) = {xs[k].callId : k \in BehindAt(xs, i)}
  BY DEF Follows, l
<1>8. ASSUME NEW i \in 1 .. Len(zs)
      PROVE  /\ \A k \in BehindAt(zs, i) : k \in 1 .. Len(zs) /\ zs[k].role = "tool"
             /\ CallIds(CallsAt(zs, i)) = {zs[k].callId : k \in BehindAt(zs, i)}
  <2>1. CASE i \in 1 .. n
    <3>1. \A k \in BehindAt(zs, i) : k \in 1 .. n /\ k \in 1 .. Len(zs) /\ zs[k] = ms[k]
                                     /\ ms[k].role = "tool"
      BY <1>1, <1>3, <1>6, <2>1
    <3>2. {zs[k].callId : k \in BehindAt(zs, i)} = {ms[k].callId : k \in BehindAt(ms, i)}
      BY <1>3, <2>1, <3>1
    <3>3. CallIds(CallsAt(zs, i)) = {ms[k].callId : k \in BehindAt(ms, i)}
      BY <1>3, <1>6, <2>1
    <3> QED BY <3>1, <3>2, <3>3
  <2>2. ASSUME NEW j \in 1 .. l, i = n + j
        PROVE  /\ \A k \in BehindAt(zs, i) : k \in 1 .. Len(zs) /\ zs[k].role = "tool"
               /\ CallIds(CallsAt(zs, i)) = {zs[k].callId : k \in BehindAt(zs, i)}
    <3>1. \A k \in BehindAt(xs, j) : k \in 1 .. l /\ xs[k].role = "tool" /\ zs[n + k] = xs[k]
                                     /\ n + k \in 1 .. Len(zs)
      <4> SUFFICES ASSUME NEW k \in BehindAt(xs, j)
                   PROVE  k \in 1 .. l /\ xs[k].role = "tool" /\ zs[n + k] = xs[k]
                          /\ n + k \in 1 .. Len(zs)
        OBVIOUS
      <4>1. k \in 1 .. l /\ xs[k].role = "tool"
        BY <1>7
      <4> QED BY <1>1, <4>1
    <3>2. \A k \in BehindAt(zs, i) : k \in 1 .. Len(zs) /\ zs[k].role = "tool"
      BY <1>4, <2>2, <3>1
    <3>3. ASSUME NEW id
          PROVE  (\E k \in BehindAt(zs, i) : id = zs[k].callId)
                 <=> (\E k \in BehindAt(xs, j) : id = xs[k].callId)
      BY <1>4, <2>2, <3>1
    <3>4. {zs[k].callId : k \in BehindAt(zs, i)} = {xs[k].callId : k \in BehindAt(xs, j)}
      BY <3>3
    <3>5. CallIds(CallsAt(zs, i)) = {xs[k].callId : k \in BehindAt(xs, j)}
      BY <1>4, <1>7, <2>2
    <3> QED BY <3>2, <3>4, <3>5
  <2> QED BY <1>5, <2>1, <2>2
<1>9. ASSUME NEW k \in 1 .. Len(zs), zs[k].role = "tool"
      PROVE  \E i \in 1 .. Len(zs) : k \in BehindAt(zs, i)
  <2>1. CASE k \in 1 .. n
    <3>1. ms[k].role = "tool"
      BY <1>1, <1>9, <2>1
    <3>2. PICK i \in 1 .. n : k \in BehindAt(ms, i)
      BY <1>6, <2>1, <3>1
    <3>3. i \in 1 .. Len(zs) /\ k \in BehindAt(zs, i)
      BY <1>1, <1>3, <3>2
    <3> QED BY <3>3
  <2>2. ASSUME NEW j \in 1 .. l, k = n + j PROVE \E i \in 1 .. Len(zs) : k \in BehindAt(zs, i)
    <3>1. xs[j].role = "tool"
      BY <1>1, <1>9, <2>2
    <3>2. PICK i \in 1 .. l : j \in BehindAt(xs, i)
      BY <1>7, <3>1
    <3>3. n + i \in 1 .. Len(zs) /\ k \in BehindAt(zs, n + i)
      BY <1>1, <1>4, <2>2, <3>2
    <3> QED BY <3>3
  <2> QED BY <1>5, <2>1, <2>2
<1>10. Follows(zs)
  BY <1>8, <1>9 DEF Follows
<1> QED BY <1>10 DEF zs

(* Messages without calls or results follow no one.                        *)
LEMMA PlainFollows ==
    ASSUME NEW xs \in Seq(SentTurns), \A i \in 1 .. Len(xs) : xs[i].role \in {"system", "user"}
    PROVE  Follows(xs)
<1>1. ASSUME NEW i \in 1 .. Len(xs) PROVE CallsAt(xs, i) = << >> /\ BehindAt(xs, i) = {}
  <2>1. CallsAt(xs, i) = << >>
    BY DEF CallsAt
  <2>2. Len(<< >>) = 0 /\ i \in Nat
    BY LenProperties
  <2> QED BY <2>1, <2>2 DEF BehindAt
<1>2. CallIds(<< >>) = {}
  <2>1. Len(<< >>) = 0
    OBVIOUS
  <2> QED BY <2>1 DEF CallIds
<1> QED BY <1>1, <1>2 DEF Follows

(* An answer and behind it one result for each of its calls.               *)
LEMMA CallsFollow ==
    ASSUME NEW am \in SentTurns, am.role = "assistant", NEW tools \in Seq(SentTurns),
           \A i \in 1 .. Len(tools) : tools[i].role = "tool",
           Len(tools) = Len(am.calls),
           {tools[i].callId : i \in 1 .. Len(tools)} = CallIds(am.calls)
    PROVE  Follows(<<am>> \o tools)
<1> DEFINE zs == <<am>> \o tools
           n == Len(tools)
<1>1. n \in Nat /\ Len(zs) = n + 1 /\ zs[1] = am /\ (\A i \in 1 .. n : zs[i + 1] = tools[i])
  <2>1. <<am>> \in Seq(SentTurns) /\ Len(<<am>>) = 1 /\ <<am>>[1] = am
    OBVIOUS
  <2>2. Len(zs) = 1 + n /\ n \in Nat
    BY <2>1, ConcatProperties, LenProperties
  <2>3. \A i \in 1 .. 1 + n : zs[i] = IF i <= 1 THEN <<am>>[i] ELSE tools[i - 1]
    BY <2>1, ConcatProperties
  <2> HIDE DEF zs, n
  <2> QED BY <2>1, <2>2, <2>3
<1> HIDE DEF zs, n
<1>2. \A i \in 1 .. n + 1 : i = 1 \/ (i - 1 \in 1 .. n /\ zs[i] = tools[i - 1])
  <2> SUFFICES ASSUME NEW i \in 1 .. n + 1, i # 1 PROVE i - 1 \in 1 .. n /\ zs[i] = tools[i - 1]
    OBVIOUS
  <2>1. i - 1 \in 1 .. n /\ (i - 1) + 1 = i
    BY <1>1
  <2> QED BY <1>1, <2>1
<1>3. \A i \in 2 .. n + 1 : zs[i].role = "tool"
  BY <1>1, <1>2 DEF n
<1>4. CallsAt(zs, 1) = am.calls /\ BehindAt(zs, 1) = 2 .. n + 1
  <2>1. CallsAt(zs, 1) = am.calls
    BY <1>1 DEF CallsAt
  <2>2. Len(am.calls) = n
    BY DEF n
  <2> QED BY <1>1, <2>1, <2>2 DEF BehindAt
<1>5. ASSUME NEW i \in 2 .. n + 1 PROVE CallsAt(zs, i) = << >> /\ BehindAt(zs, i) = {}
  <2>1. CallsAt(zs, i) = << >>
    BY <1>3 DEF CallsAt
  <2>2. Len(<< >>) = 0 /\ i \in Nat
    BY <1>1
  <2> QED BY <2>1, <2>2 DEF BehindAt
<1>6. \A i \in 1 .. n + 1 : i = 1 \/ i \in 2 .. n + 1
  BY <1>1
<1>7. \A i \in 1 .. Len(zs) : \A k \in BehindAt(zs, i) : k \in 1 .. Len(zs) /\ zs[k].role = "tool"
  BY <1>1, <1>3, <1>4, <1>5, <1>6
<1>8. \A k \in 1 .. Len(zs) : zs[k].role = "tool" => \E i \in 1 .. Len(zs) : k \in BehindAt(zs, i)
  <2>1. 1 \in 1 .. Len(zs) /\ zs[1].role # "tool"
    BY <1>1
  <2> QED BY <1>1, <1>4, <1>6, <2>1
<1>9. {zs[k].callId : k \in 2 .. n + 1} = {tools[i].callId : i \in 1 .. n}
  <2>1. \A k \in 2 .. n + 1 : k - 1 \in 1 .. n /\ zs[k] = tools[k - 1]
    BY <1>1, <1>2
  <2>2. \A i \in 1 .. n : i + 1 \in 2 .. n + 1 /\ zs[i + 1] = tools[i]
    BY <1>1
  <2> QED BY <2>1, <2>2
<1>10. CallIds(<< >>) = {}
  <2>1. Len(<< >>) = 0
    OBVIOUS
  <2> QED BY <2>1 DEF CallIds
<1>11. \A i \in 1 .. Len(zs) : CallIds(CallsAt(zs, i)) = {zs[k].callId : k \in BehindAt(zs, i)}
  <2>1. CallIds(CallsAt(zs, 1)) = {zs[k].callId : k \in BehindAt(zs, 1)}
    BY <1>4, <1>9 DEF n
  <2>2. \A i \in 2 .. n + 1 : CallIds(CallsAt(zs, i)) = {zs[k].callId : k \in BehindAt(zs, i)}
    BY <1>5, <1>10
  <2> QED BY <1>1, <1>6, <2>1, <2>2
<1>12. Follows(zs)
  BY <1>7, <1>8, <1>11 DEF Follows
<1> QED BY <1>12 DEF zs

-----------------------------------------------------------------------------
(* User turns that begin with their results.                               *)

FirstIn(blocks) ==
    \A j, k \in 1 .. Len(blocks) :
        j < k /\ blocks[k].type = "tool_result" => blocks[j].type = "tool_result"
FirstOf(turns) ==
    \A i \in 1 .. Len(turns) : turns[i].role = "user" => FirstIn(BlocksOf(turns[i].content))
ToolMessages(results, m) == [i \in 1 .. Len(results) |-> ToolMessage(results[i], m)]

(* One more result is one more message.                                    *)
LEMMA ToolMessagesAppend ==
    ASSUME NEW S, NEW s \in Seq(S), NEW b \in S, NEW m
    PROVE  ToolMessages(Append(s, b), m) = ToolMessages(s, m) \o <<ToolMessage(b, m)>>
<1> DEFINE n == Len(s)
           f == [x \in S |-> ToolMessage(x, m)]
           U == {f[x] : x \in S}
           l == [i \in 1 .. Len(s) |-> f[s[i]]]
           l2 == [i \in 1 .. Len(Append(s, b)) |-> f[Append(s, b)[i]]]
<1>1. Append(s, b) \in Seq(S) /\ Len(Append(s, b)) = n + 1 /\ n \in Nat
      /\ Append(s, b)[n + 1] = b /\ \A i \in 1 .. n : Append(s, b)[i] = s[i]
  BY AppendProperties, LenProperties
<1>2. ToolMessages(s, m) = l
  <2>1. \A i \in 1 .. Len(s) : s[i] \in S
    BY ElementOfSeq
  <2> QED BY <2>1 DEF ToolMessages
<1>3. ToolMessages(Append(s, b), m) = l2
  <2> DEFINE t == Append(s, b)
  <2>1. t \in Seq(S)
    BY <1>1
  <2> HIDE DEF t
  <2>2. \A i \in 1 .. Len(t) : t[i] \in S
    BY <2>1, ElementOfSeq
  <2>3. ToolMessages(t, m) = [i \in 1 .. Len(t) |-> f[t[i]]]
    BY <2>2 DEF ToolMessages
  <2> QED BY <2>3 DEF t
<1>4. f[b] = ToolMessage(b, m) /\ \A x \in S : f[x] \in U
  OBVIOUS
<1> HIDE DEF f, U
<1>5. l \in Seq(U) /\ Len(l) = n /\ l2 \in Seq(U) /\ Len(l2) = n + 1
  BY <1>1, <1>4, MapType
<1>6. \A i \in 1 .. n : l[i] = f[s[i]]
  OBVIOUS
<1>7. \A i \in 1 .. n + 1 : l2[i] = f[Append(s, b)[i]]
  BY <1>1
<1> HIDE DEF l, l2, n
<1>8. Append(l, f[b]) \in Seq(U) /\ Len(Append(l, f[b])) = n + 1
      /\ Append(l, f[b])[n + 1] = f[b] /\ \A i \in 1 .. n : Append(l, f[b])[i] = l[i]
  BY <1>4, <1>5, AppendProperties
<1>9. l2 = Append(l, f[b])
  <2>1. \A i \in 1 .. n + 1 : i = n + 1 \/ i \in 1 .. n
    BY <1>1
  <2>2. \A i \in 1 .. n + 1 : l2[i] = Append(l, f[b])[i]
    BY <1>1, <1>6, <1>7, <1>8, <2>1
  <2> QED BY <1>5, <1>8, <2>2, SeqEqual
<1>10. Append(l, f[b]) = l \o <<f[b]>>
  BY <1>4, <1>5, AppendIsConcat
<1> QED BY <1>2, <1>3, <1>4, <1>9, <1>10

(* Of blocks that begin with their results, the results are the messages;  *)
(* parts are pending only behind another block.                            *)
ResultsTaken(s, m) ==
    /\ Taken(s, m) \in AccType
    /\ FirstIn(s) =>
           /\ Taken(s, m).messages = ToolMessages(Typed(s, "tool_result"), m)
           /\ Taken(s, m).parts # << >> => \E i \in 1 .. Len(s) : s[i].type # "tool_result"

(* One more block keeps that.                                               *)
LEMMA ResultTaken ==
    ASSUME NEW s \in Seq(GoodBlocks), NEW b \in GoodBlocks, NEW m, ResultsTaken(s, m)
    PROVE  ResultsTaken(Append(s, b), m)
<1> DEFINE t == Append(s, b)
           acc == Taken(s, m)
           next == Taken(t, m)
           n == Len(s)
           TR == "tool_result"
           G == OfType(GoodBlocks, TR)
           rs == Typed(s, TR)
<1>1. n \in Nat /\ Len(t) = n + 1 /\ t[n + 1] = b /\ (\A i \in 1 .. n : t[i] = s[i])
      /\ t \in Seq(GoodBlocks)
  BY AppendProperties, LenProperties
<1>2. next = TakeBlock(acc, b, m)
  BY TakenAppend
<1>3. /\ acc \in AccType
      /\ FirstIn(s) =>
             /\ acc.messages = ToolMessages(rs, m)
             /\ acc.parts # << >> => \E i \in 1 .. n : s[i].type # TR
  BY DEF ResultsTaken
<1>4. Typed(t, TR) = rs \o G[b] /\ rs \in Seq(GoodBlocks)
  <2>1. G \in [GoodBlocks -> Seq(WithType(GoodBlocks, TR))] /\ rs \in Seq(WithType(GoodBlocks, TR))
    BY TypedType
  <2>2. rs = FlatMap(s, G)
    BY TypedMap
  <2>3. Typed(t, TR) = FlatMap(t, G)
    <3> HIDE DEF t, G, TR
    <3> QED BY <1>1, TypedMap DEF G
  <2> HIDE DEF G, rs, TR
  <2>4. FlatMap(Append(s, b), G) = FlatMap(s, G) \o G[b]
    BY <2>1, FlatMapAppend
  <2>5. WithType(GoodBlocks, TR) \subseteq GoodBlocks
    BY DEF WithType
  <2>6. rs \in Seq(GoodBlocks)
    BY <2>1, <2>5
  <2> QED BY <2>2, <2>3, <2>4, <2>6 DEF t
<1>5. G[b] = IF b.type = TR THEN <<b>> ELSE << >>
  BY DEF OfType
<1>6. acc.messages \in Seq(SentTurns) /\ acc.parts \in Seq(SentParts)
      /\ acc = [messages |-> acc.messages, parts |-> acc.parts]
  BY <1>3 DEF AccType
<1>7. FirstIn(t) => FirstIn(s)
  <2> SUFFICES ASSUME FirstIn(t), NEW j \in 1 .. n, NEW k \in 1 .. n, j < k, s[k].type = "tool_result"
               PROVE  s[j].type = "tool_result"
    BY DEF FirstIn
  <2>1. j \in 1 .. Len(t) /\ k \in 1 .. Len(t) /\ t[j] = s[j] /\ t[k] = s[k]
    BY <1>1
  <2> HIDE DEF t
  <2> QED BY <2>1 DEF FirstIn
<1> HIDE DEF t, acc, next, n, G, rs
<1>8. CASE b.type = TR
  <2>1. next = [messages |-> acc.messages \o Flushed(acc.parts) \o <<ToolMessage(b, m)>>, parts |-> << >>]
    BY <1>2, <1>8 DEF TakeBlock
  <2>2. ToolMessage(b, m) \in SentTurns
    BY <1>8, PartsType
  <2>3. Flushed(acc.parts) \in Seq(SentTurns)
    BY <1>6, FlushedType
  <2>4. next \in AccType
    <3>1. acc.messages \o Flushed(acc.parts) \in Seq(SentTurns)
      BY <1>6, <2>3, ConcatProperties
    <3>2. <<ToolMessage(b, m)>> \in Seq(SentTurns)
      BY <2>2
    <3>3. acc.messages \o Flushed(acc.parts) \o <<ToolMessage(b, m)>> \in Seq(SentTurns)
      BY <3>1, <3>2, ConcatProperties
    <3>4. << >> \in Seq(SentParts)
      BY EmptySeq
    <3> QED BY <2>1, <3>3, <3>4 DEF AccType
  <2>5. ASSUME FirstIn(t) PROVE next.messages = ToolMessages(Typed(t, TR), m) /\ next.parts = << >>
    <3>1. \A i \in 1 .. n : s[i].type = TR
      <4> SUFFICES ASSUME NEW i \in 1 .. n PROVE s[i].type = TR
        OBVIOUS
      <4>1. i \in 1 .. Len(t) /\ n + 1 \in 1 .. Len(t) /\ i < n + 1 /\ t[n + 1].type = "tool_result"
            /\ t[i] = s[i]
        BY <1>1, <1>8
      <4> QED BY <2>5, <4>1 DEF FirstIn
    <3>2. acc.parts = << >> /\ acc.messages = ToolMessages(rs, m)
      BY <1>3, <1>7, <2>5, <3>1
    <3>3. acc.messages \o Flushed(acc.parts) = acc.messages
      BY <1>6, <3>2, ConcatEmptySeq DEF Flushed
    <3>4. next.messages = acc.messages \o <<ToolMessage(b, m)>>
      BY <2>1, <3>3
    <3>5. Typed(t, TR) = Append(rs, b)
      <4>1. rs \o <<b>> = Append(rs, b)
        BY <1>4, AppendIsConcat
      <4> QED BY <1>4, <1>5, <1>8, <4>1
    <3>6. ToolMessages(Append(rs, b), m) = ToolMessages(rs, m) \o <<ToolMessage(b, m)>>
      BY <1>4, ToolMessagesAppend
    <3> QED BY <2>1, <3>2, <3>4, <3>5, <3>6
  <2> QED BY <2>4, <2>5 DEF ResultsTaken, t, next
<1>9. CASE b.type # TR
  <2>1. next.messages = acc.messages /\ next \in AccType
    <3>1. CASE b.type = "text"
      <4>1. TextPart(b, m) \in SentParts
        BY <3>1, PartsType
      <4>2. next = [acc EXCEPT !.parts = Append(@, TextPart(b, m))]
        BY <1>2, <3>1 DEF TakeBlock
      <4>3. Append(acc.parts, TextPart(b, m)) \in Seq(SentParts)
        BY <1>6, <4>1, AppendProperties
      <4> QED BY <1>3, <1>6, <4>2, <4>3 DEF AccType
    <3>2. CASE b.type = "image"
      <4>1. ImagePart(b, m) \in SentParts
        BY <3>2, PartsType
      <4>2. next = [acc EXCEPT !.parts = Append(@, ImagePart(b, m))]
        BY <1>2, <3>2 DEF TakeBlock
      <4>3. Append(acc.parts, ImagePart(b, m)) \in Seq(SentParts)
        BY <1>6, <4>1, AppendProperties
      <4> QED BY <1>3, <1>6, <4>2, <4>3 DEF AccType
    <3>3. CASE b.type \notin {"text", "image"}
      BY <1>2, <1>3, <1>9, <3>3 DEF TakeBlock
    <3> QED BY <3>1, <3>2, <3>3
  <2>2. Typed(t, TR) = rs
    BY <1>4, <1>5, <1>9, ConcatEmptySeq
  <2>3. n + 1 \in 1 .. Len(t) /\ t[n + 1].type # "tool_result"
    BY <1>1, <1>9
  <2>4. FirstIn(t) => next.messages = ToolMessages(Typed(t, TR), m)
    BY <1>3, <1>7, <2>1, <2>2
  <2> QED BY <2>1, <2>3, <2>4 DEF ResultsTaken, t, next
<1> QED BY <1>8, <1>9

(* A user turn that begins with its results becomes their messages and     *)
(* behind them at most a user message.                                     *)
LEMMA ResultsFirstOut ==
    ASSUME NEW c, BlocksOf(c) \in Seq(GoodBlocks), FirstIn(BlocksOf(c)), NEW m
    PROVE  /\ ToolMessages(ResultsIn([content |-> c]), m) \in Seq(SentTurns)
           /\ \E rest \in Seq(SentTurns) :
                  /\ UserMessages(c, m) = ToolMessages(ResultsIn([content |-> c]), m) \o rest
                  /\ \A i \in 1 .. Len(rest) : rest[i].role = "user"
<1> DEFINE V == {s \in Seq(GoodBlocks) : ResultsTaken(s, m)}
           s == BlocksOf(c)
           rest == Flushed(Taken(s, m).parts)
<1>1. << >> \in V
  <2>1. NothingTaken \in AccType
    BY EmptySeq DEF NothingTaken, AccType
  <2>2. Typed(<< >>, "tool_result") = << >>
    <3>1. Len(<< >>) = 0
      OBVIOUS
    <3>2. Typed(<< >>, "tool_result") = FlatMap(<< >>, OfType({}, "tool_result"))
      BY EmptySeq, TypedMap
    <3>3. FlatMap(<< >>, OfType({}, "tool_result")) = << >>
      BY FlatMapEmpty
    <3> QED BY <3>2, <3>3
  <2>3. ToolMessages(<< >>, m) = << >>
    <3>1. Len(<< >>) = 0
      OBVIOUS
    <3> QED BY <3>1 DEF ToolMessages
  <2>4. NothingTaken.messages = << >> /\ NothingTaken.parts = << >>
    BY DEF NothingTaken
  <2>5. ResultsTaken(<< >>, m)
    BY <2>1, <2>2, <2>3, <2>4, TakenEmpty DEF ResultsTaken
  <2> QED BY <2>5, EmptySeq
<1>2. \A x \in Seq(GoodBlocks), b \in GoodBlocks : x \in V => Append(x, b) \in V
  <2> SUFFICES ASSUME NEW x \in Seq(GoodBlocks), NEW b \in GoodBlocks, x \in V
               PROVE  Append(x, b) \in V
    OBVIOUS
  <2>1. ResultsTaken(Append(x, b), m)
    BY ResultTaken
  <2> QED BY <2>1, AppendProperties
<1> HIDE DEF V
<1>3. s \in V
  BY <1>1, <1>2, ListInduction
<1>4. /\ Taken(s, m).messages \in Seq(SentTurns) /\ Taken(s, m).parts \in Seq(SentParts)
      /\ Taken(s, m).messages = ToolMessages(Typed(s, "tool_result"), m)
  BY <1>3 DEF V, ResultsTaken, AccType
<1>5. ResultsIn([content |-> c]) = Typed(s, "tool_result")
  BY DEF ResultsIn
<1>6. UserMessages(c, m) = Taken(s, m).messages \o rest
  BY DEF UserMessages
<1>7. rest \in Seq(SentTurns) /\ \A i \in 1 .. Len(rest) : rest[i].role = "user"
  <2> DEFINE parts == Taken(s, m).parts
  <2>1. parts \in Seq(SentParts) /\ rest = Flushed(parts)
    BY <1>4
  <2> HIDE DEF parts, rest
  <2>2. rest \in Seq(SentTurns)
    BY <2>1, FlushedType
  <2>3. CASE parts = << >>
    <3>1. Len(<< >>) = 0
      OBVIOUS
    <3> QED BY <2>1, <2>2, <2>3, <3>1 DEF Flushed
  <2>4. CASE parts # << >>
    <3>1. UserMessage(parts).role = "user"
      BY <2>1, <2>4, UserMessageSays
    <3>2. rest = <<UserMessage(parts)>>
      BY <2>1, <2>4 DEF Flushed
    <3> HIDE DEF UserMessage
    <3> QED BY <2>2, <3>1, <3>2
  <2> QED BY <2>3, <2>4
<1> HIDE DEF rest
<1> QED BY <1>4, <1>5, <1>6, <1>7

-----------------------------------------------------------------------------
(* Turns and the results they begin with.                                  *)

OwnGoodTurns == {t \in GoodTurns : t \in ClientTurns}
QuietTurns == {t \in OwnGoodTurns : ResultsIn(t) = << >>}

(* A turn with no results sends none.                                      *)
LEMMA QuietTurn ==
    ASSUME NEW turn \in QuietTurns, NEW m
    PROVE  Follows(TurnMessages(turn, m))
<1>1. turn \in GoodTurns /\ turn \in ClientTurns /\ ResultsIn(turn) = << >>
  BY DEF QuietTurns, OwnGoodTurns
<1>2. turn.role \in {"user", "system"}
  BY <1>1 DEF ClientTurns, UserTurns, SystemTurns
<1>3. CASE turn.role = "user"
  <2> DEFINE c == turn.content
             s == BlocksOf(c)
  <2>1. s \in Seq(GoodBlocks)
    BY <1>1, <1>3, GoodUserBlocks
  <2>2. Typed(s, "tool_result") = << >> /\ ResultsIn([content |-> c]) = << >>
    BY <1>1 DEF ResultsIn
  <2>3. TurnMessages(turn, m) = UserMessages(c, m)
    BY <1>3 DEF TurnMessages
  <2> HIDE DEF c
  <2>4. \A i \in 1 .. Len(s) : s[i].type # "tool_result"
    BY <2>1, <2>2, NoneTyped
  <2>5. FirstIn(s)
    BY <2>4 DEF FirstIn
  <2>6. PICK rest \in Seq(SentTurns) :
            /\ UserMessages(c, m) = ToolMessages(ResultsIn([content |-> c]), m) \o rest
            /\ \A i \in 1 .. Len(rest) : rest[i].role = "user"
    BY <2>1, <2>5, ResultsFirstOut
  <2>7. ToolMessages(<< >>, m) = << >>
    <3>1. Len(<< >>) = 0
      OBVIOUS
    <3> QED BY <3>1 DEF ToolMessages
  <2>8. UserMessages(c, m) = rest
    BY <2>2, <2>6, <2>7, ConcatEmptySeq
  <2>9. Follows(rest)
    BY <2>6, PlainFollows
  <2> QED BY <2>3, <2>8, <2>9
<1>4. CASE turn.role = "system"
  <2> DEFINE c == turn.content
             t == SystemText(c)
             msg == [role |-> "system", content |-> Text(t)]
             ms == SystemMessages(c)
  <2>1. c \in Contents(SystemBlocks) /\ TurnMessages(turn, m) = ms
    BY <1>1, <1>4 DEF ClientTurns, UserTurns, SystemTurns, TurnMessages
  <2>2. ms \in Seq(SentTurns)
    BY <2>1, SystemMessagesSay
  <2>3. ms = << >> \/ ms = <<msg>>
    BY DEF SystemMessages
  <2>4. msg.role = "system"
    OBVIOUS
  <2> HIDE DEF c, msg, ms
  <2>5. \A i \in 1 .. Len(ms) : ms[i].role \in {"system", "user"}
    <3>1. Len(<< >>) = 0
      OBVIOUS
    <3>2. Len(<<msg>>) = 1 /\ <<msg>>[1] = msg
      OBVIOUS
    <3> QED BY <2>3, <2>4, <3>1, <3>2
  <2> QED BY <2>1, <2>2, <2>5, PlainFollows
<1> QED BY <1>2, <1>3, <1>4

(* A good turn is made over into messages.                                 *)
LEMMA TranslatedType ==
    ASSUME NEW m
    PROVE  /\ Translated(m) \in [GoodTurns -> Seq(SentTurns)]
           /\ \A turn \in GoodTurns : Translated(m)[turn] = TurnMessages(turn, m)
  BY TurnSays DEF Translated

(* Nor do any number of such turns.                                        *)
LEMMA QuietFollow ==
    ASSUME NEW s \in Seq(QuietTurns), NEW m
    PROVE  Follows(FlatMap(s, Translated(m)))
<1> DEFINE F == Translated(m)
           V == {x \in Seq(QuietTurns) : Follows(FlatMap(x, F))}
<1>1. /\ F \in [GoodTurns -> Seq(SentTurns)]
      /\ \A turn \in GoodTurns : F[turn] = TurnMessages(turn, m)
  BY TranslatedType
<1>2. QuietTurns \subseteq GoodTurns
  BY DEF QuietTurns, OwnGoodTurns
<1> HIDE DEF F
<1>3. << >> \in V
  <2>1. FlatMap(<< >>, F) = << >> /\ << >> \in Seq(SentTurns) /\ << >> \in Seq(QuietTurns)
    BY FlatMapEmpty, EmptySeq
  <2>2. \A i \in 1 .. Len(<< >>) : << >>[i].role \in {"system", "user"}
    <3>1. Len(<< >>) = 0
      OBVIOUS
    <3> QED BY <3>1
  <2>3. Follows(<< >>)
    BY <2>1, <2>2, PlainFollows
  <2> QED BY <2>1, <2>3
<1>4. \A x \in Seq(QuietTurns), t \in QuietTurns : x \in V => Append(x, t) \in V
  <2> SUFFICES ASSUME NEW x \in Seq(QuietTurns), NEW t \in QuietTurns, x \in V
               PROVE  Append(x, t) \in V
    OBVIOUS
  <2>1. x \in Seq(GoodTurns) /\ t \in GoodTurns
    BY <1>2
  <2>2. FlatMap(Append(x, t), F) = FlatMap(x, F) \o F[t] /\ FlatMap(x, F) \in Seq(SentTurns)
    BY <1>1, <2>1, FlatMapAppend, FlatMapType, ZenonT(60)
  <2>3. F[t] \in Seq(SentTurns) /\ Follows(F[t])
    <3>1. Follows(TurnMessages(t, m))
      BY QuietTurn
    <3> QED BY <1>1, <2>1, <3>1
  <2>4. Follows(FlatMap(x, F) \o F[t])
    BY <2>2, <2>3, FollowsConcat
  <2>5. Append(x, t) \in Seq(QuietTurns)
    BY AppendProperties
  <2> QED BY <2>2, <2>4, <2>5
<1> HIDE DEF V
<1>5. s \in V
  BY <1>3, <1>4, ListInduction
<1> QED BY <1>5 DEF V, F

(* A list of elements that are all in a set is a list of that set.         *)
LEMMA ListOf ==
    ASSUME NEW S, NEW T, NEW s \in Seq(S), \A i \in 1 .. Len(s) : s[i] \in T
    PROVE  s \in Seq(T)
<1>1. Len(s) \in Nat /\ s = [i \in 1 .. Len(s) |-> s[i]]
  BY LenProperties
<1>2. s \in [1 .. Len(s) -> T]
  BY <1>1
<1> QED BY <1>1, <1>2, SeqDef

(* An answer, and the client's turn that answers its calls.                *)
LEMMA AnswerFollow ==
    ASSUME NEW am \in SentTurns, am.role = "assistant", NEW calls \in Seq(Calls),
           Len(am.calls) = Len(calls), CallIds(am.calls) = CallIds(calls),
           NEW turn \in Seq(OwnGoodTurns), Answering(turn, calls), FirstOf(turn), NEW m
    PROVE  Follows(<<am>> \o FlatMap(turn, Translated(m)))
<1> DEFINE F == Translated(m)
<1>1. /\ F \in [GoodTurns -> Seq(SentTurns)]
      /\ \A t \in GoodTurns : F[t] = TurnMessages(t, m)
  BY TranslatedType
<1>2. OwnGoodTurns \subseteq GoodTurns
  BY DEF OwnGoodTurns
<1>3. turn \in Seq(GoodTurns)
  BY <1>2
<1>4. <<am>> \in Seq(SentTurns)
  OBVIOUS
<1>5. CASE calls = << >>
  <2>1. Len(<< >>) = 0 /\ << >> \in Seq(SentTurns)
    OBVIOUS
  <2>2. \A i \in 1 .. Len(turn) : turn[i] \in QuietTurns
    <3>1. \A i \in 1 .. Len(turn) : turn[i] \in OwnGoodTurns
      BY ElementOfSeq
    <3>2. \A i \in 1 .. Len(turn) : ResultsIn(turn[i]) = << >>
      BY <1>5 DEF Answering
    <3> QED BY <3>1, <3>2 DEF QuietTurns
  <2>3. turn \in Seq(QuietTurns)
    BY <2>2, ListOf
  <2>4. Follows(FlatMap(turn, F)) /\ FlatMap(turn, F) \in Seq(SentTurns)
    <3>1. Follows(FlatMap(turn, Translated(m)))
      BY <2>3, QuietFollow
    <3> HIDE DEF F
    <3>2. FlatMap(turn, F) \in Seq(SentTurns)
      BY <1>1, <1>3, FlatMapType
    <3> QED BY <3>1, <3>2 DEF F
  <2>5. Follows(<<am>>)
    <3>1. {<< >>[i].callId : i \in 1 .. Len(<< >>)} = CallIds(am.calls)
      BY <1>5, <2>1 DEF CallIds
    <3>2. Len(am.calls) = Len(<< >>)
      BY <1>5
    <3>3. \A i \in 1 .. Len(<< >>) : << >>[i].role = "tool"
      BY <2>1
    <3>4. Follows(<<am>> \o << >>)
      BY <2>1, <3>1, <3>2, <3>3, CallsFollow
    <3>5. <<am>> \o << >> = <<am>>
      BY <1>4, ConcatEmptySeq
    <3> QED BY <3>4, <3>5
  <2> HIDE DEF F
  <2>6. Follows(<<am>> \o FlatMap(turn, F))
    BY <1>4, <2>4, <2>5, FollowsConcat
  <2> QED BY <2>6 DEF F
<1>6. CASE calls # << >>
  <2> DEFINE h == Head(turn)
             tl == Tail(turn)
             c == h.content
             rs == ResultsIn(h)
             tools == ToolMessages(rs, m)
             Q == FlatMap(tl, F)
  <2>1. /\ turn # << >> /\ Len(rs) = Len(calls)
        /\ {rs[i].toolUseId : i \in 1 .. Len(calls)} = CallIds(calls)
        /\ \A i \in 1 .. Len(turn) : i > 1 => ResultsIn(turn[i]) = << >>
    BY <1>6 DEF Answering
  <2>2. /\ h \in OwnGoodTurns /\ h = turn[1] /\ 1 \in 1 .. Len(turn)
        /\ tl \in Seq(OwnGoodTurns) /\ Len(tl) = Len(turn) - 1 /\ Len(turn) \in Nat
        /\ \A i \in 1 .. Len(tl) : tl[i] = turn[i + 1]
        /\ turn = <<h>> \o tl
    <3>1. h \in OwnGoodTurns /\ tl \in Seq(OwnGoodTurns)
      BY <2>1, HeadTailProperties
    <3>2. turn = <<h>> \o tl
      BY <2>1, HeadAndTail
    <3>3. Len(turn) \in Nat \ {0} /\ Len(tl) = Len(turn) - 1 /\ h = turn[1]
          /\ \A i \in 1 .. Len(tl) : tl[i] = turn[i + 1]
      BY <2>1, HeadTailProperties, EmptySeq
    <3> HIDE DEF h, tl
    <3> QED BY <3>1, <3>2, <3>3
  <2>3. h \in GoodTurns /\ h \in ClientTurns
    BY <2>2 DEF OwnGoodTurns
  <2>4. Len(calls) \in Nat /\ Len(calls) # 0
    BY <1>6, EmptySeq
  <2>5. h.role = "user"
    <3> SUFFICES ASSUME h.role # "user" PROVE FALSE
      OBVIOUS
    <3>1. c \in Contents(SystemBlocks)
      BY <2>3 DEF ClientTurns, UserTurns, SystemTurns
    <3>2. BlocksOf(c) \in Seq(SystemBlocks)
      BY <3>1, BlocksType DEF SystemBlocks
    <3>3. \A b \in SystemBlocks : b.type # "tool_result"
      BY BlocksAssumption DEF SystemBlocks, TextBlocks
    <3>4. rs = Typed(BlocksOf(c), "tool_result")
      BY DEF ResultsIn
    <3> HIDE DEF c, rs, h
    <3>5. rs = << >>
      BY <3>2, <3>3, <3>4, TypedAllOrNone
    <3>6. Len(<< >>) = 0
      OBVIOUS
    <3> QED BY <2>1, <2>4, <3>5, <3>6
  <2>6. BlocksOf(c) \in Seq(GoodBlocks) /\ FirstIn(BlocksOf(c))
    <3>1. BlocksOf(c) \in Seq(GoodBlocks)
      BY <2>3, <2>5, GoodUserBlocks
    <3>2. FirstIn(BlocksOf(turn[1].content))
      <4>1. 1 \in 1 .. Len(turn) /\ turn[1].role = "user"
        BY <2>2, <2>5
      <4> QED BY <4>1 DEF FirstOf
    <3> QED BY <2>2, <3>1, <3>2
  <2>7. F[h] = UserMessages(c, m) /\ rs = ResultsIn([content |-> c])
    BY <1>1, <2>3, <2>5 DEF TurnMessages, ResultsIn
  <2>8. tools \in Seq(SentTurns)
    <3>1. ToolMessages(ResultsIn([content |-> c]), m) \in Seq(SentTurns)
      BY <2>6, ResultsFirstOut
    <3> QED BY <2>7, <3>1
  <2>9. PICK rest \in Seq(SentTurns) :
            F[h] = tools \o rest /\ \A i \in 1 .. Len(rest) : rest[i].role = "user"
    <3>1. \E rest \in Seq(SentTurns) :
              /\ UserMessages(c, m) = ToolMessages(ResultsIn([content |-> c]), m) \o rest
              /\ \A i \in 1 .. Len(rest) : rest[i].role = "user"
      BY <2>6, ResultsFirstOut, ZenonT(60)
    <3> QED BY <2>7, <3>1
  <2>10. /\ Len(tools) = Len(am.calls)
         /\ \A i \in 1 .. Len(tools) : tools[i].role = "tool"
         /\ {tools[i].callId : i \in 1 .. Len(tools)} = CallIds(am.calls)
    <3>1. Len(tools) = Len(rs)
      <4>1. Len(rs) \in Nat
        BY <2>1, <2>4
      <4> HIDE DEF rs
      <4> QED BY <4>1 DEF ToolMessages
    <3>2. \A i \in 1 .. Len(rs) : tools[i] = ToolMessage(rs[i], m)
      BY DEF ToolMessages
    <3> HIDE DEF rs, tools
    <3>3. \A i \in 1 .. Len(rs) : tools[i].role = "tool" /\ tools[i].callId = rs[i].toolUseId
      <4>1. \A b : ToolMessage(b, m).role = "tool" /\ ToolMessage(b, m).callId = b.toolUseId
        BY DEF ToolMessage
      <4> QED BY <3>2, <4>1
    <3>4. {tools[i].callId : i \in 1 .. Len(rs)} = {rs[i].toolUseId : i \in 1 .. Len(rs)}
      BY <3>3
    <3> QED BY <2>1, <3>1, <3>3, <3>4
  <2>11. tl \in Seq(QuietTurns)
    <3>1. \A i \in 1 .. Len(tl) : tl[i] \in QuietTurns
      <4> SUFFICES ASSUME NEW i \in 1 .. Len(tl) PROVE tl[i] \in QuietTurns
        OBVIOUS
      <4>1. tl[i] \in OwnGoodTurns
        BY <2>2, ElementOfSeq
      <4>2. i + 1 \in 1 .. Len(turn) /\ i + 1 > 1 /\ tl[i] = turn[i + 1]
        BY <2>2
      <4>3. ResultsIn(tl[i]) = << >>
        BY <2>1, <4>2
      <4> QED BY <4>1, <4>3 DEF QuietTurns
    <3> HIDE DEF tl
    <3> QED BY <2>2, <3>1, ListOf
  <2>12. Follows(Q) /\ Q \in Seq(SentTurns)
    <3>1. Follows(FlatMap(tl, Translated(m)))
      BY <2>11, QuietFollow
    <3>2. tl \in Seq(GoodTurns)
      BY <1>2, <2>2
    <3> HIDE DEF F, tl
    <3>3. FlatMap(tl, F) \in Seq(SentTurns)
      BY <1>1, <3>2, FlatMapType
    <3> QED BY <3>1, <3>3 DEF F
  <2> HIDE DEF F, h, tl, c, rs, tools
  <2>13. FlatMap(turn, F) = F[h] \o Q
    <3>1. <<h>> \in Seq(GoodTurns) /\ tl \in Seq(GoodTurns)
      BY <1>2, <2>2, <2>3
    <3>2. FlatMap(<<h>> \o tl, F) = FlatMap(<<h>>, F) \o FlatMap(tl, F)
      <4>1. Spreads(F, GoodTurns)
        BY <1>1, Spreading
      <4> QED BY <3>1, <4>1, Zenon DEF Spreads
    <3>3. FlatMap(<<h>>, F) = F[h]
      BY <1>1, <2>3, FlatMapOne
    <3> QED BY <2>2, <3>2, <3>3
  <2> HIDE DEF Q
  <2>14. Follows(<<am>> \o tools)
    BY <2>8, <2>10, CallsFollow
  <2>15. Follows(rest)
    BY <2>9, PlainFollows
  <2>16. <<am>> \o tools \in Seq(SentTurns) /\ (<<am>> \o tools) \o rest \in Seq(SentTurns)
    BY <1>4, <2>8, <2>9, ConcatProperties
  <2>17. Follows(((<<am>> \o tools) \o rest) \o Q)
    <3>1. Follows((<<am>> \o tools) \o rest)
      BY <2>9, <2>14, <2>15, <2>16, FollowsConcat
    <3> QED BY <2>12, <2>16, <3>1, FollowsConcat
  <2>18. <<am>> \o ((tools \o rest) \o Q) = ((<<am>> \o tools) \o rest) \o Q
    <3>1. tools \o rest \in Seq(SentTurns)
      BY <2>8, <2>9, ConcatProperties
    <3>2. AssociativeOn(SentTurns)
      BY Associative
    <3>3. (<<am>> \o (tools \o rest)) \o Q = <<am>> \o ((tools \o rest) \o Q)
      BY <1>4, <2>12, <3>1, <3>2, Zenon DEF AssociativeOn
    <3>4. (<<am>> \o tools) \o rest = <<am>> \o (tools \o rest)
      BY <1>4, <2>8, <2>9, <3>2, Zenon DEF AssociativeOn
    <3> QED BY <3>3, <3>4, Zenon
  <2>19. <<am>> \o FlatMap(turn, F) = ((<<am>> \o tools) \o rest) \o Q
    BY <2>9, <2>13, <2>18
  <2> QED BY <2>17, <2>19 DEF F
<1> QED BY <1>5, <1>6

(* The calls of an answer as they go back.                                 *)
LEMMA ReturnedCalls ==
    ASSUME NEW answer \in ChatAnswers, NEW m
    PROVE  /\ Returned(answer, m) \in SentTurns /\ Returned(answer, m).role = "assistant"
           /\ Len(Returned(answer, m).calls) = Len(answer.calls)
           /\ CallIds(Returned(answer, m).calls) = CallIds(answer.calls)
<1> DEFINE turn == AnswerTurn(answer)
           blocks == Reply!ContentBlocks(answer)
           msg == Returned(answer, m)
           calls == answer.calls
           back == [i \in 1 .. Len(calls) |->
                       [calls[i] EXCEPT !.arguments = IF @ = << >> THEN EmptyObject ELSE @]]
<1>1. turn \in AssistantTurns
  BY AnswerTurnType
<1>2. turn.content.blocks = blocks /\ msg = AssistantMessage(turn.content, m)
  BY DEF AnswerTurn, Returned
<1>3. CallsIn(blocks) = back
  BY AnswerCalls
<1> HIDE DEF turn, blocks, msg, back
<1>4. msg \in SentTurns /\ msg = Spelled(blocks, m)
  BY <1>1, <1>2, AssistantType
<1>5. msg.role = "assistant" /\ msg.calls = CallsIn(blocks)
  <2>1. Spelled(blocks, m).role = "assistant" /\ Spelled(blocks, m).calls = CallsIn(blocks)
    BY DEF Spelled
  <2> QED BY <1>4, <2>1
<1>6. calls \in Seq(Calls) /\ Len(calls) \in Nat
  BY LenProperties DEF ChatAnswers
<1>7. Len(back) = Len(calls) /\ \A i \in 1 .. Len(calls) : back[i].id = calls[i].id
  <2>1. \A i \in 1 .. Len(calls) : calls[i] \in Calls
    BY <1>6, ElementOfSeq
  <2>2. ASSUME NEW call \in Calls
        PROVE  [call EXCEPT !.arguments = IF @ = << >> THEN EmptyObject ELSE @].id = call.id
    BY DEF Calls
  <2>3. \A i \in 1 .. Len(calls) :
            back[i] = [calls[i] EXCEPT !.arguments = IF @ = << >> THEN EmptyObject ELSE @]
    BY DEF back
  <2>4. Len(back) = Len(calls)
    BY <1>6 DEF back
  <2> HIDE DEF calls
  <2>5. \A i \in 1 .. Len(calls) : back[i].id = calls[i].id
    BY <2>1, <2>2, <2>3
  <2> QED BY <2>4, <2>5
<1>8. CallIds(back) = CallIds(calls)
  <2>1. {back[i].id : i \in 1 .. Len(calls)} = {calls[i].id : i \in 1 .. Len(calls)}
    BY <1>7
  <2> QED BY <1>7, <2>1 DEF CallIds
<1> QED BY <1>3, <1>4, <1>5, <1>7, <1>8 DEF msg

(* What is true of every turn of a list is true of every turn of its parts.*)
LEMMA PartsOfHistory ==
    ASSUME NEW s \in Seq(HistoryTurns), NEW t \in Seq(HistoryTurns), s \o t \in Seq(GoodTurns)
    PROVE  /\ s \in Seq(GoodTurns) /\ t \in Seq(GoodTurns)
           /\ FirstOf(s \o t) => FirstOf(s) /\ FirstOf(t)
<1> DEFINE zs == s \o t
           n == Len(s)
           l == Len(t)
<1>1. n \in Nat /\ l \in Nat /\ Len(zs) = n + l
      /\ (\A i \in 1 .. n : zs[i] = s[i]) /\ (\A i \in 1 .. l : zs[n + i] = t[i])
  BY ConcatProperties, LenProperties
<1>2. \A i \in 1 .. Len(zs) : zs[i] \in GoodTurns
  <2>1. zs \in Seq(GoodTurns)
    OBVIOUS
  <2> HIDE DEF zs
  <2> QED BY <2>1, ElementOfSeq
<1> HIDE DEF zs, n, l
<1>3. \A i \in 1 .. n : i \in 1 .. Len(zs)
  BY <1>1
<1>4. \A i \in 1 .. l : n + i \in 1 .. Len(zs)
  BY <1>1
<1>5. s \in Seq(GoodTurns)
  <2>1. \A i \in 1 .. Len(s) : s[i] \in GoodTurns
    BY <1>1, <1>2, <1>3 DEF n
  <2> QED BY <2>1, ListOf
<1>6. t \in Seq(GoodTurns)
  <2>1. \A i \in 1 .. Len(t) : t[i] \in GoodTurns
    BY <1>1, <1>2, <1>4 DEF l
  <2> QED BY <2>1, ListOf
<1>7. ASSUME FirstOf(zs) PROVE FirstOf(s) /\ FirstOf(t)
  <2>1. \A i \in 1 .. Len(zs) : zs[i].role = "user" => FirstIn(BlocksOf(zs[i].content))
    BY <1>7 DEF FirstOf
  <2>2. \A i \in 1 .. n : s[i].role = "user" => FirstIn(BlocksOf(s[i].content))
    BY <1>1, <1>3, <2>1
  <2>3. \A i \in 1 .. l : t[i].role = "user" => FirstIn(BlocksOf(t[i].content))
    BY <1>1, <1>4, <2>1
  <2> QED BY <2>2, <2>3 DEF FirstOf, n, l
<1> QED BY <1>5, <1>6, <1>7 DEF zs

-----------------------------------------------------------------------------
(* The turns that the answers came after.                                  *)

InOrder(turns) ==
    FirstOf(turns) => \A m \in Models : Follows(FlatMap(turns, Translated(m)))

(* What is confirmed ends with the last answer, and all before it has been *)
(* sent in order; the client's turn behind it answers its calls.           *)
Answered(kept) ==
    IF answers = << >> THEN kept = << >>
    ELSE \E pre \in Seq(GoodTurns) :
             kept = Append(pre, AnswerTurn(answers[Len(answers)])) /\ InOrder(pre)
Chain(kept, turn) ==
    /\ kept \in Seq(HistoryTurns) /\ turn \in Seq(ClientTurns)
    /\ history = kept \o turn /\ settled = Len(kept)
    /\ phase = "idle" => turn = << >>
    /\ phase # "idle" => Answering(turn, Outstanding)
    /\ Answered(kept)
Chained == \E kept, turn : Chain(kept, turn)

(* So the whole history goes out in order when it is sent.                 *)
LEMMA HistoryInOrder ==
    ASSUME IInv, Chained, phase = "waiting"
    PROVE  InOrder(history)
<1> SUFFICES ASSUME FirstOf(history), NEW m \in Models
             PROVE  Follows(FlatMap(history, Translated(m)))
  BY DEF InOrder
<1> DEFINE F == Translated(m)
<1>1. PICK kept, turn : Chain(kept, turn)
  BY DEF Chained
<1>2. /\ kept \in Seq(HistoryTurns) /\ turn \in Seq(ClientTurns) /\ turn \in Seq(HistoryTurns)
      /\ history = kept \o turn /\ Answering(turn, Outstanding) /\ Answered(kept)
  BY <1>1, OwnTurns DEF Chain
<1>3. history \in Seq(GoodTurns)
  BY GoodHistory
<1>4. kept \in Seq(GoodTurns) /\ turn \in Seq(GoodTurns) /\ FirstOf(kept) /\ FirstOf(turn)
  BY <1>2, <1>3, PartsOfHistory
<1>5. turn \in Seq(OwnGoodTurns)
  <2>1. \A i \in 1 .. Len(turn) : turn[i] \in GoodTurns
    BY <1>4, ElementOfSeq
  <2>2. \A i \in 1 .. Len(turn) : turn[i] \in ClientTurns
    BY <1>2, ElementOfSeq
  <2>3. \A i \in 1 .. Len(turn) : turn[i] \in OwnGoodTurns
    BY <2>1, <2>2 DEF OwnGoodTurns
  <2> QED BY <1>4, <2>3, ListOf
<1>6. CASE answers = << >>
  <2>1. kept = << >> /\ Outstanding = << >>
    BY <1>2, <1>6 DEF Answered, Outstanding
  <2>2. history = turn
    BY <1>2, <2>1, ConcatEmptySeq
  <2>3. \A i \in 1 .. Len(turn) : turn[i] \in QuietTurns
    <3>1. \A i \in 1 .. Len(turn) : turn[i] \in OwnGoodTurns
      BY <1>5, ElementOfSeq
    <3>2. \A i \in 1 .. Len(turn) : ResultsIn(turn[i]) = << >>
      BY <1>2, <2>1 DEF Answering
    <3> QED BY <3>1, <3>2 DEF QuietTurns
  <2>4. turn \in Seq(QuietTurns)
    BY <1>5, <2>3, ListOf
  <2>5. Follows(FlatMap(turn, Translated(m)))
    BY <2>4, QuietFollow
  <2> QED BY <2>2, <2>5
<1>7. CASE answers # << >>
  <2> DEFINE answer == answers[Len(answers)]
             a == AnswerTurn(answer)
             am == Returned(answer, m)
  <2>1. answer \in ChatAnswers /\ Outstanding = answer.calls
    <3>1. answers \in Seq(Given)
      BY DEF IInv, Typed0
    <3>2. Len(answers) \in 1 .. Len(answers)
      BY <1>7, <3>1, EmptySeq, LenProperties
    <3>3. answers[Len(answers)] \in Given
      BY <3>1, <3>2, ElementOfSeq
    <3> QED BY <1>7, <3>3 DEF Given, Outstanding
  <2>2. PICK pre \in Seq(GoodTurns) : kept = Append(pre, a) /\ InOrder(pre)
    BY <1>2, <1>7 DEF Answered
  <2>3. a \in AssistantTurns /\ a.role = "assistant" /\ am = AssistantMessage(a.content, m)
    BY <2>1, AnswerTurnType DEF AnswerTurn, Returned
  <2>4. /\ am \in SentTurns /\ am.role = "assistant"
        /\ Len(am.calls) = Len(answer.calls) /\ CallIds(am.calls) = CallIds(answer.calls)
    BY <2>1, ReturnedCalls
  <2>5. answer.calls \in Seq(Calls)
    BY <2>1 DEF ChatAnswers
  <2> HIDE DEF a, am, answer
  <2>6. a \in HistoryTurns /\ kept = pre \o <<a>> /\ <<a>> \in Seq(HistoryTurns)
        /\ pre \in Seq(HistoryTurns)
    <3>1. a \in HistoryTurns
      BY <2>3 DEF HistoryTurns
    <3>2. GoodTurns \subseteq HistoryTurns
      BY DEF GoodTurns
    <3>3. pre \in Seq(HistoryTurns)
      BY <3>2
    <3> QED BY <2>2, <3>1, <3>3, AppendIsConcat
  <2>7. FirstOf(pre) /\ <<a>> \in Seq(GoodTurns)
    <3>1. pre \o <<a>> \in Seq(GoodTurns) /\ FirstOf(pre \o <<a>>)
      BY <1>4, <2>6
    <3> QED BY <2>6, <3>1, PartsOfHistory
  <2>8. a \in GoodTurns
    <3>1. <<a>>[1] = a /\ 1 \in 1 .. Len(<<a>>)
      OBVIOUS
    <3> QED BY <2>7, <3>1, ElementOfSeq
  <2>9. /\ F \in [GoodTurns -> Seq(SentTurns)]
        /\ F[a] = <<am>>
    <3>1. F[a] = TurnMessages(a, m)
      BY <2>8, TranslatedType
    <3>2. TurnMessages(a, m) = <<am>>
      BY <2>3 DEF TurnMessages
    <3> QED BY <3>1, <3>2, TranslatedType
  <2>10. Follows(FlatMap(pre, F))
    BY <2>2, <2>7 DEF InOrder
  <2>11. Follows(<<am>> \o FlatMap(turn, F))
    <3>1. Answering(turn, answer.calls)
      BY <1>2, <2>1
    <3> QED BY <1>4, <1>5, <2>4, <2>5, <3>1, AnswerFollow
  <2> HIDE DEF F
  <2>12. FlatMap(history, F) = FlatMap(pre, F) \o (<<am>> \o FlatMap(turn, F))
    <3>1. FlatMap(kept \o turn, F) = FlatMap(kept, F) \o FlatMap(turn, F)
      <4>1. Spreads(F, GoodTurns)
        BY <2>9, Spreading
      <4> QED BY <1>4, <2>9, <4>1, Zenon DEF Spreads
    <3>2. FlatMap(Append(pre, a), F) = FlatMap(pre, F) \o F[a]
      BY <2>8, <2>9, FlatMapAppend
    <3>3. FlatMap(pre, F) \in Seq(SentTurns) /\ FlatMap(turn, F) \in Seq(SentTurns)
      BY <1>4, <2>9, FlatMapType
    <3>4. <<am>> \in Seq(SentTurns)
      BY <2>4
    <3>5. (FlatMap(pre, F) \o <<am>>) \o FlatMap(turn, F) = FlatMap(pre, F) \o (<<am>> \o FlatMap(turn, F))
      BY <3>3, <3>4, ConcatAssociative
    <3> QED BY <1>2, <2>2, <2>9, <3>1, <3>2, <3>5
  <2>13. FlatMap(pre, F) \in Seq(SentTurns) /\ <<am>> \o FlatMap(turn, F) \in Seq(SentTurns)
    <3>1. FlatMap(pre, F) \in Seq(SentTurns) /\ FlatMap(turn, F) \in Seq(SentTurns)
      BY <1>4, <2>9, FlatMapType
    <3>2. <<am>> \in Seq(SentTurns)
      BY <2>4
    <3> QED BY <3>1, <3>2, ConcatProperties
  <2>14. Follows(FlatMap(pre, F) \o (<<am>> \o FlatMap(turn, F)))
    BY <2>10, <2>11, <2>13, FollowsConcat
  <2> QED BY <2>12, <2>14 DEF F
<1> QED BY <1>6, <1>7

(* The client starts with nothing to answer.                               *)
LEMMA InitChained == Init => Chained
<1> SUFFICES ASSUME Init PROVE Chained
  OBVIOUS
<1>1. << >> \o << >> = << >> /\ Len(<< >>) = 0
  BY EmptySeq, ConcatEmptySeq
<1>2. Chain(<< >>, << >>)
  BY <1>1, EmptySeq DEF Init, Chain, Answered
<1> QED BY <1>2 DEF Chained

(* Every step keeps the client's turn behind the calls it answers.         *)
LEMMA NextChained == IInv /\ Chained /\ [Next]_vars => Chained'
<1> SUFFICES ASSUME IInv, Chained, [Next]_vars PROVE Chained'
  OBVIOUS
<1>1. PICK kept, turn : Chain(kept, turn)
  BY DEF Chained
<1>2. /\ kept \in Seq(HistoryTurns) /\ turn \in Seq(ClientTurns) /\ turn \in Seq(HistoryTurns)
      /\ history = kept \o turn /\ settled = Len(kept)
      /\ phase = "idle" => turn = << >>
      /\ phase # "idle" => Answering(turn, Outstanding)
      /\ Answered(kept)
  BY <1>1, OwnTurns DEF Chain
<1>3. answers \in Seq(Given) /\ composed \in 0 .. MaxTurns
  BY DEF IInv, Typed0
<1>4. kept \o << >> = kept /\ << >> \in Seq(ClientTurns)
  BY <1>2, ConcatEmptySeq, EmptySeq
<1>5. ASSUME UNCHANGED answers
      PROVE  (Outstanding = Outstanding') /\ (Answered(kept) => Answered(kept)')
  BY <1>5 DEF Outstanding, Answered
<1>6. CASE Compose
  <2>1. composed' \in 1 .. MaxTurns
    BY <1>3, <1>6, BoundsAssumption DEF Compose
  <2>2. PICK new \in Turns(composed', Outstanding) : history' = history \o new
    BY <1>6 DEF Compose
  <2>3. new \in Seq(ClientTurns) /\ Answering(new, Outstanding)
    <3>1. Outstanding \in Asked
      BY <1>3, OutstandingAsked
    <3> QED BY <2>1, <2>2, <3>1, TurnsAssumption
  <2>4. history' = kept \o new
    BY <1>2, <1>4, <1>6, <2>2 DEF Compose
  <2>5. settled' = settled /\ phase' = "composed" /\ UNCHANGED answers
    BY <1>6 DEF Compose
  <2>6. Chain(kept, new)'
    BY <1>2, <1>5, <2>3, <2>4, <2>5 DEF Chain
  <2> QED BY <2>6 DEF Chained
<1>7. ASSUME UNCHANGED <<history, settled, answers>>, phase # "idle", phase' # "idle"
      PROVE  Chained'
  <2>1. Chain(kept, turn)'
    BY <1>2, <1>5, <1>7 DEF Chain
  <2> QED BY <2>1 DEF Chained
<1>8. CASE \E m \in Models : Send(m)
  BY <1>7, <1>8 DEF Send
<1>9. ASSUME history' = SubSeq(history, 1, settled), phase' = "idle",
             UNCHANGED <<settled, answers>>
      PROVE  Chained'
  <2>1. history' = kept
    BY <1>2, <1>9, SettledPart
  <2>2. Chain(kept, << >>)'
    BY <1>2, <1>4, <1>5, <1>9, <2>1 DEF Chain
  <2> QED BY <2>2 DEF Chained
<1>10. CASE SendRefused
  BY <1>9, <1>10 DEF SendRefused
<1>11. CASE GiveUp
  BY <1>9, <1>11 DEF GiveUp
<1>12. CASE \E resp \in Replies(composed) : Answer(resp)
  <2>1. PICK resp \in Replies(composed) : Answer(resp)
    BY <1>12
  <2>2. resp \in Responses
    BY <1>3, <2>1, RepliesAssumption
  <2> DEFINE got == Reply!Completed(resp)
             msg == Head(resp.choices).message
             came == AnswerTurn(msg)
  <2>3. phase = "waiting"
    BY <2>1 DEF Answer
  <2>4. CASE ~ Readable(got)
    <3>1. phase' = "composed" /\ UNCHANGED <<history, settled, answers>>
      BY <2>1, <2>4 DEF Answer
    <3> QED BY <1>7, <2>3, <3>1
  <2>5. CASE Readable(got)
    <3>1. msg \in ChatAnswers /\ got.body.content = Reply!ContentBlocks(msg)
      BY <2>2, <2>5, ReadableReply
    <3>2. /\ history' = Append(history, came) /\ settled' = Len(history')
          /\ answers' = Append(answers, msg) /\ phase' = "idle"
      BY <2>1, <2>5, <3>1 DEF Answer, AnswerTurn
    <3>3. came \in HistoryTurns
      BY <3>1, AnswerTurnType DEF HistoryTurns
    <3> HIDE DEF got, msg
    <3>4. history \in Seq(GoodTurns) /\ InOrder(history)
      BY <2>3, GoodHistory, HistoryInOrder
    <3>5. history \in Seq(HistoryTurns)
      BY <1>2, ConcatProperties
    <3>6. answers' # << >> /\ answers'[Len(answers')] = msg
      <4> DEFINE S == Given \cup {msg}
      <4>1. answers \in Seq(S) /\ msg \in S
        BY <1>3
      <4> HIDE DEF S
      <4>2. Len(Append(answers, msg)) = Len(answers) + 1 /\ Len(answers) \in Nat
            /\ Append(answers, msg)[Len(answers) + 1] = msg
        BY <4>1, AppendProperties, LenProperties
      <4>3. Len(<< >>) = 0
        OBVIOUS
      <4> QED BY <3>2, <4>2, <4>3
    <3>7. PICK pre : pre = history
      OBVIOUS
    <3>8. PICK all : all = Append(pre, came)
      OBVIOUS
    <3>9. pre \in Seq(GoodTurns) /\ InOrder(pre) /\ history' = all
      BY <3>2, <3>4, <3>7, <3>8
    <3>10. Answered(all)'
      <4>1. all = Append(pre, AnswerTurn(answers'[Len(answers')]))
        BY <3>6, <3>8
      <4> QED BY <3>6, <3>9, <4>1 DEF Answered
    <3>11. all \in Seq(HistoryTurns) /\ all \o << >> = all
      <4>1. all \in Seq(HistoryTurns)
        BY <3>3, <3>5, <3>7, <3>8, AppendProperties
      <4> QED BY <4>1, ConcatEmptySeq
    <3>12. Chain(all, << >>)'
      <4>1. << >> \in Seq(ClientTurns) /\ settled' = Len(all) /\ phase' = "idle" /\ history' = all \o << >>
        BY <1>4, <3>2, <3>9, <3>11
      <4> QED BY <3>10, <3>11, <4>1 DEF Chain
    <3> QED BY <3>12 DEF Chained
  <2> QED BY <2>4, <2>5
<1>13. CASE UNCHANGED vars
  <2>1. Chain(kept, turn)'
    BY <1>2, <1>5, <1>13 DEF vars, Chain
  <2> QED BY <2>1 DEF Chained
<1> QED BY <1>6, <1>8, <1>10, <1>11, <1>12, <1>13 DEF Next

(* Hence it holds throughout.                                               *)
LEMMA ChainedInductive == Spec => [](IInv /\ Chained)
<1>1. Init => IInv /\ Chained
  BY InitInv, InitChained
<1>2. IInv /\ Chained /\ [Next]_vars => (IInv /\ Chained)'
  BY NextInv, NextChained
<1> QED BY <1>1, <1>2, PTL DEF Spec

(* What is sent is the system prompt and the history, both made over.      *)
LEMMA SentInOrder ==
    ASSUME IInv, Chained, phase = "waiting", FirstOf(history)
    PROVE  Follows(sent.messages)
<1> DEFINE req == Request(model)
           F == Translated(model)
           first == SystemMessages(system)
<1>1. history \in Seq(GoodTurns) /\ system \in Contents(SystemBlocks)
      /\ sent = AnthropicToOpenAI(req, model)
  BY GoodHistory
<1>2. req.messages = history /\ req.system = system
  BY DEF Request
<1>3. sent.messages = first \o FlatMap(history, F)
  <2>1. AnthropicToOpenAI(req, model).messages
        = SystemMessages(req.system)
          \o FlattenSeq([i \in 1 .. Len(req.messages) |-> TurnMessages(req.messages[i], model)])
    BY DEF AnthropicToOpenAI
  <2>2. \A i \in 1 .. Len(history) : history[i] \in GoodTurns
    BY <1>1, ElementOfSeq
  <2>3. \A i \in 1 .. Len(history) : TurnMessages(history[i], model) = F[history[i]]
    BY <2>2, TranslatedType
  <2> HIDE DEF req, F
  <2>4. [i \in 1 .. Len(history) |-> TurnMessages(history[i], model)]
        = [i \in 1 .. Len(history) |-> F[history[i]]]
    BY <2>3
  <2>5. FlattenSeq([i \in 1 .. Len(history) |-> TurnMessages(history[i], model)]) = FlatMap(history, F)
    BY <2>4 DEF FlatMap
  <2> QED BY <1>1, <1>2, <2>1, <2>5
<1>4. first \in Seq(SentTurns)
  BY <1>1, SystemMessagesSay
<1>5. Follows(first)
  <2> DEFINE msg == [role |-> "system", content |-> Text(SystemText(system))]
  <2>1. (first = << >> \/ first = <<msg>>) /\ msg.role = "system"
    BY DEF SystemMessages
  <2> HIDE DEF first, msg
  <2>2. \A i \in 1 .. Len(first) : first[i].role \in {"system", "user"}
    <3>1. Len(<< >>) = 0
      OBVIOUS
    <3>2. Len(<<msg>>) = 1 /\ <<msg>>[1] = msg
      OBVIOUS
    <3> QED BY <2>1, <3>1, <3>2
  <2> QED BY <1>4, <2>2, PlainFollows
<1>6. FlatMap(history, F) \in Seq(SentTurns)
  <2>1. F \in [GoodTurns -> Seq(SentTurns)]
    BY TranslatedType
  <2> HIDE DEF F
  <2> QED BY <1>1, <2>1, FlatMapType
<1>7. Follows(FlatMap(history, F))
  <2>1. model \in Models
    BY DEF IInv, Typed0
  <2> QED BY <2>1, HistoryInOrder DEF InOrder
<1> HIDE DEF F, first
<1> QED BY <1>3, <1>4, <1>5, <1>6, <1>7, FollowsConcat

(* The results of a turn's calls are right behind it, one for each, before *)
(* any text of the user turn that has them, as long as the client's turns  *)
(* begin with their results: over any number of turns, given up, refused   *)
(* or sent again in between.                                               *)
THEOREM ResultsAreBehindTheirCalls == Spec => []ResultsFollowTheirCalls
<1>1. IInv /\ Chained => ResultsFollowTheirCalls
  <2> SUFFICES ASSUME IInv, Chained, phase = "waiting", ResultsFirst
               PROVE  LET messages == sent.messages
                          tools == {k \in 1 .. Len(messages) : messages[k].role = "tool"}
                      IN  /\ tools = UNION {Behind(i) : i \in 1 .. Len(messages)}
                          /\ \A i \in 1 .. Len(messages) :
                                 CallIds(CallsOf(i)) = {messages[k].callId : k \in Behind(i)}
    BY DEF ResultsFollowTheirCalls
  <2> DEFINE messages == sent.messages
             n == Len(messages)
             tools == {k \in 1 .. n : messages[k].role = "tool"}
  <2>1. FirstOf(history)
    BY DEF ResultsFirst, FirstOf, FirstIn
  <2>2. Follows(messages)
    BY <2>1, SentInOrder
  <2>3. \A i : CallsOf(i) = CallsAt(messages, i) /\ Behind(i) = BehindAt(messages, i)
    BY DEF CallsOf, Behind, CallsAt, BehindAt
  <2> HIDE DEF messages
  <2>4. /\ \A i \in 1 .. n : \A k \in Behind(i) : k \in 1 .. n /\ messages[k].role = "tool"
        /\ \A k \in 1 .. n : messages[k].role = "tool" => \E i \in 1 .. n : k \in Behind(i)
        /\ \A i \in 1 .. n : CallIds(CallsOf(i)) = {messages[k].callId : k \in Behind(i)}
    BY <2>2, <2>3 DEF Follows
  <2> HIDE DEF n
  <2>5. tools = UNION {Behind(i) : i \in 1 .. n}
    <3>1. \A k : k \in tools <=> \E i \in 1 .. n : k \in Behind(i)
      BY <2>4
    <3>2. \A k : k \in UNION {Behind(i) : i \in 1 .. n} <=> \E i \in 1 .. n : k \in Behind(i)
      OBVIOUS
    <3> QED BY <3>1, <3>2
  <2> QED BY <2>4, <2>5 DEF messages, n
<1> QED BY <1>1, ChainedInductive, PTL
=============================================================================
