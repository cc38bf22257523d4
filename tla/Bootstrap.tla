----------------------------- MODULE Bootstrap ------------------------------
(***************************************************************************)
(* The bootstrap document that Claude Desktop fetches, a function from its *)
(* keys, and the overlay of the configuration that has the last word on    *)
(* it.  A setting is an element of the overlay: a name, a text, and its    *)
(* children, which have a name and a text.  Texts are trimmed, and a       *)
(* boolean is its spelling.                                                *)
(***************************************************************************)
EXTENDS Prices

Named(settings, name) == {i \in 1 .. Len(settings) : settings[i].name = name}
First(S) == CHOOSE i \in S : \A j \in S : i <= j
Last(S) == CHOOSE i \in S : \A j \in S : j <= i

(* Find and child read the first element of a name ...                     *)
TextOf(settings, name) ==
    IF Named(settings, name) = {} THEN ""
    ELSE settings[First(Named(settings, name))].text
Bool(settings, name) == TextOf(settings, name) = "true"

(* ... and settingsJSON keeps the last.                                    *)
Names(settings) == {settings[i].name : i \in 1 .. Len(settings)}
ObjectOf(children) ==
    [n \in Names(children) |-> children[Last(Named(children, n))].text]

IsList(s) == Names(s.children) = {"item"}
Value(s) ==
    CASE s.children = << >> -> s.text
      [] IsList(s) -> [i \in 1 .. Len(s.children) |-> s.children[i].text]
      [] OTHER -> ObjectOf(s.children)

Overlay(settings) ==
    [n \in Names(settings) |-> Value(settings[Last(Named(settings, n))])]

-----------------------------------------------------------------------------
(* validateImport: a known banner, and the endpoint all of it or none.     *)
Endpoint == {"url", "oauthIssuer", "oauthClientId"}
Banners == {"", "off", "detect", "show"}

WholeImport(text) ==
    /\ text["bannerBehavior"] \in Banners
    /\ \A m, n \in Endpoint : (text[m] = "") = (text[n] = "")

(* Slip: a part of the endpoint will do.                                   *)
ValidImportBannerOnly(settings) ==
    Named(settings, "claudeAiImport") # {} =>
        LET import == settings[First(Named(settings, "claudeAiImport"))].children
        IN  TextOf(import, "bannerBehavior") \in Banners

ValidImport(settings) ==
    Named(settings, "claudeAiImport") # {} =>
        LET import == settings[First(Named(settings, "claudeAiImport"))].children
        IN  WholeImport([n \in Endpoint \cup {"bannerBehavior"} |-> TextOf(import, n)])

-----------------------------------------------------------------------------
(* An origin is the scheme and the host that a client asked for.           *)
Loopback == {"localhost", "127.0.0.1", "::1", ""}
RemoteSafe(origin) == origin.scheme = "https" /\ origin.host \notin Loopback

(* modelEntries                                                            *)
ModelEntries(cfg) ==
    [i \in 1 .. Len(cfg.models) |->
        [name |-> cfg.models[i].alias, supportsOneM |-> cfg.models[i].oneM,
         preferOneM |-> cfg.models[i].oneM /\ Bool(cfg.settings, "modelPrefer1mContext")]]

BaseKeys(cfg) ==
    [k \in {"inferenceProvider", "modelDiscoveryEnabled", "inferenceModels"} |->
        CASE k = "inferenceProvider" -> "gateway"
          [] k = "modelDiscoveryEnabled" -> "true"
          [] k = "inferenceModels" -> ModelEntries(cfg)]

(* The address and the credential go together, to a safe origin only.      *)
GatewayKeyNames ==
    {"inferenceGatewayBaseUrl", "inferenceGatewayApiKey",
     "inferenceCredentialKind", "inferenceGatewayAuthScheme"}
GatewayKeys(cfg, origin) ==
    [k \in IF RemoteSafe(origin) /\ cfg.apiKey # "" THEN GatewayKeyNames ELSE {} |->
        CASE k = "inferenceGatewayBaseUrl" -> origin
          [] k = "inferenceGatewayApiKey" -> cfg.apiKey
          [] k = "inferenceCredentialKind" -> "static"
          [] k = "inferenceGatewayAuthScheme" -> "x-api-key"]

PriceKeys(cfg, table) ==
    LET rows == PriceRows(cfg.models, table)
    IN  [k \in IF DOMAIN rows = {} THEN {}
               ELSE {"inferenceModelPricingEnabled", "inferenceModelPricing"} |->
            IF k = "inferenceModelPricing" THEN rows ELSE "true"]

(* The entries of new over those of old.                                   *)
Over(new, old) ==
    [k \in DOMAIN old \cup DOMAIN new |-> IF k \in DOMAIN new THEN new[k] ELSE old[k]]

(* bootstrapConfig                                                         *)
Document(cfg, origin, table) ==
    Over(Overlay(cfg.settings),
         Over(PriceKeys(cfg, table), Over(GatewayKeys(cfg, origin), BaseKeys(cfg))))
=============================================================================
