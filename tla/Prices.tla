------------------------------- MODULE Prices -------------------------------
(***************************************************************************)
(* What package pricing makes of the providers' price lists, and what the  *)
(* bootstrap document makes of that.  A price is counted in dollars per    *)
(* million tokens.  A list gives the models that it names a price in       *)
(* writing for each kind of token, and the others NoRate.                  *)
(***************************************************************************)
EXTENDS Integers, Sequences

CONSTANTS
    Ids,        \* model IDs that a list may name
    MaxRate,    \* the highest price a row may have, 10000 in the code
    NoRate      \* a model that a list does not name

Kinds == {"input", "output", "cacheRead", "cacheWrite"}

(* A price in writing: "absent", "text" that is no number or out of range  *)
(* of a float, a "number", or "unbounded" (NaN, Inf).                      *)
Forms == {"absent", "text", "number", "unbounded"}
Written == [form : Forms, value : Int]
PriceLists == [Ids -> [Kinds -> Written] \cup {NoRate}]

Rate == [finite : BOOLEAN, value : Nat]
Rates == [Kinds -> Rate]
Tables == [Ids -> Rates \cup {NoRate}]
EmptyTable == [id \in Ids |-> NoRate]
Free == [finite |-> TRUE, value |-> 0]

(* Slip: a negative price is kept as it is.                                *)
ParsePriceSigned(w) ==
    CASE w.form = "number" -> [finite |-> TRUE, value |-> w.value]
      [] w.form = "unbounded" -> [finite |-> FALSE, value |-> 0]
      [] OTHER -> Free

(* Whatever is not a price counts as free, a negative one included.        *)
ParsePrice(w) ==
    CASE w.form = "number" /\ w.value > 0 -> [finite |-> TRUE, value |-> w.value]
      [] w.form = "unbounded" -> [finite |-> FALSE, value |-> 0]
      [] OTHER -> Free

OpenRouterRates(list) ==
    [id \in Ids |-> IF list[id] = NoRate THEN NoRate
                    ELSE [k \in Kinds |-> ParsePrice(list[id][k])]]

(* Ollama's list has no prices, so that every model on it is free.         *)
OllamaRates(list) ==
    [id \in Ids |-> IF list[id] = NoRate THEN NoRate ELSE [k \in Kinds |-> Free]]

(* fetchProviderRates                                                      *)
RatesOf(api, list) == IF api = "ollama" THEN OllamaRates(list) ELSE OpenRouterRates(list)

(* The entries of new over those of old; pricing.Merge is the same.        *)
Merged(new, old) == [id \in Ids |-> IF new[id] # NoRate THEN new[id] ELSE old[id]]

Valid(rates) == \A k \in Kinds : rates[k].finite /\ 0 <= rates[k].value /\ rates[k].value <= MaxRate

-----------------------------------------------------------------------------
(* lookupRate: the upstream ID before the advertised one.                  *)
Lookup(table, m) == IF table[m.id] # NoRate THEN table[m.id] ELSE table[m.alias]

(* Slip: a row that the client will not accept is sent with the others.    *)
PriceRowsUnchecked(models, table) ==
    LET priced == {i \in 1 .. Len(models) : Lookup(table, models[i]) # NoRate}
    IN  [a \in {models[i].alias : i \in priced} |->
            Lookup(table, models[CHOOSE i \in priced : models[i].alias = a])]

(* priceRows, by advertised name; validate has seen to it that these       *)
(* differ.                                                                 *)
PriceRows(models, table) ==
    LET priced == {i \in 1 .. Len(models) :
                      /\ Lookup(table, models[i]) # NoRate
                      /\ Valid(Lookup(table, models[i]))}
    IN  [a \in {models[i].alias : i \in priced} |->
            Lookup(table, models[CHOOSE i \in priced : models[i].alias = a])]
=============================================================================
