----------------------------- MODULE MCCatalog ------------------------------
(* Instances of Catalog for TLC: two foreign names and one the screen      *)
(* admits, two providers with a key each.                                  *)
EXTENDS Catalog

CONSTANTS glm, kimi, opus, p, q, serverKey, pKey, qKey

Named(n) == [name |-> n, hex |-> FALSE, inner |-> 0, marks |-> 0]
Of(provider, id) == [provider |-> provider, id |-> id, sound |-> TRUE]
Needs == [x \in Providers |-> IF x = p THEN {pKey} ELSE {qKey}]
Doc(models) ==
    [server |-> {serverKey}, listen |-> TRUE, providers |-> {p, q}, sound |-> {p, q},
     needs |-> Needs, models |-> models]

Mixed == Doc(<<Of(p, Named(glm)), Of(p, Named(opus)), Of(q, Named(kimi))>>)
Shared == Doc(<<Of(p, Named(kimi)), Of(q, Named(glm)), Of(q, Named(kimi))>>)
Marked == Doc(<<Of(p, WithOneM(Named(kimi))), Of(p, Named(glm)), Of(q, Named(kimi))>>)
MarkedOnly == Doc(<<Of(p, WithOneM(Named(kimi))), Of(q, Named(opus))>>)
MarkedTier == Doc(<<Of(p, WithOneM(Named(opus))), Of(q, Named(opus))>>)
Lopsided == Doc(<<Of(p, Named(opus)), Of(p, Named(kimi))>>)
Unsound == Doc(<<Of(p, Named(glm)), [Of(q, Named(opus)) EXCEPT !.sound = FALSE]>>)
UnsoundProvider == [Doc(<<Of(p, Named(glm)), Of(q, Named(opus))>>) EXCEPT !.sound = {p}]
Mute == [Doc(<<Of(p, Named(glm)), Of(q, Named(opus))>>) EXCEPT !.listen = FALSE]

AllDocuments == {Mixed, Shared, Marked, MarkedOnly, MarkedTier, Lopsided, Unsound,
                 UnsoundProvider, Mute}
=============================================================================
