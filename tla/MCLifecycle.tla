---------------------------- MODULE MCLifecycle -----------------------------
(* Instances of Lifecycle for TLC.                                         *)
EXTENDS Lifecycle

CONSTANTS own, shared, encoded, c1, c2

Model(id, alias, oneM) == [id |-> id, alias |-> alias, oneM |-> oneM]
TwoModels == <<Model(own, own, TRUE), Model(shared, encoded, FALSE)>>

Element(name, text) == [name |-> name, text |-> text, children |-> << >>]
Import(children) == [name |-> "claudeAiImport", text |-> "", children |-> children]
Whole == Import(<<Element("url", "u"), Element("oauthIssuer", "i"), Element("oauthClientId", "c"),
                  Element("bannerBehavior", "detect")>>)
Half == Import(<<Element("url", "u")>>)

Config(apis, settings, apiKey) ==
    [apis |-> apis, models |-> TwoModels, settings |-> settings, apiKey |-> apiKey]
AllConfigs ==
    {Config(<<"ollama", "openrouter">>, <<Whole, Element("modelPrefer1mContext", "true")>>, "key"),
     Config(<<"other", "openrouter">>, <<Whole, Half>>, "key"),
     Config(<<"openrouter">>, <<Element("inferenceModelPricing", "none")>>, ""),
     Config(<<"openrouter">>, <<Half>>, "")}

Number(n) == [form |-> "number", value |-> n]
Other(form) == [form |-> form, value |-> 0]
Price(in, out) ==
    [k \in Kinds |-> CASE k = "input" -> in [] k = "output" -> out [] OTHER -> Other("absent")]
List(ofOwn, ofShared) == [x \in Ids |-> CASE x = own -> ofOwn [] x = shared -> ofShared [] OTHER -> NoRate]
AllLists ==
    {List(Price(Number(2), Number(3)), Price(Number(2), Number(3))),
     List(NoRate, Price(Number(-1), Number(1))),
     List(Price(Other("unbounded"), Number(1)), Price(Other("text"), Number(9)))}

AllOrigins == {[scheme |-> "https", host |-> "gateway"], [scheme |-> "https", host |-> "localhost"]}
=============================================================================
