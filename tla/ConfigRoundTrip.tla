--------------------------- MODULE ConfigRoundTrip ---------------------------
(***************************************************************************)
(* A client sends a config for a widget of some type, and, when it is      *)
(* accepted, may send the stored config back as it read it.  The           *)
(* properties compare NormalizeConfig with the rules of docs/API.md.       *)
(***************************************************************************)
EXTENDS WidgetConfig

CONSTANTS
  RawConfig,   \* the configs the client may send
  Pending      \* there is no result yet

\* A field that is a string has a text, and one that is a number only a number.
WellFormed(config) ==
  config.shape = "object" =>
    \A f \in DOMAIN config.fields :
      LET value == config.fields[f]
      IN  /\ value.kind = "text" => value.text \in Text
          /\ value.kind = "int" => value = IntValue(value.int)

ASSUME RawConfigAssumption == \A r \in RawConfig : WellFormed(r)

VARIABLES
  type,   \* the type of the widget
  raw,    \* the config that was sent
  out     \* what NormalizeConfig returned, or Pending

vars == <<type, raw, out>>

Init ==
  /\ type \in WidgetTypes \cup {"sports"}
  /\ raw \in RawConfig
  /\ out = Pending

Validate ==
  /\ out = Pending
  /\ out' = NormalizeConfig(type, raw)
  /\ UNCHANGED <<type, raw>>

\* PATCH with the config of an earlier response, for the same widget.
SendBack ==
  /\ out \notin {Pending, Rejected, raw}
  /\ raw' = out
  /\ out' = Pending
  /\ UNCHANGED type

Next == Validate \/ SendBack

Spec == Init /\ [][Next]_vars

-----------------------------------------------------------------------------
(* The table "Widget types and config rules" of docs/API.md.               *)

Required(f) == Given(raw, f) /\ raw.fields[f].text.word # Empty

RequiredCode(f, words) == Given(raw, f) /\ raw.fields[f].text.word \in words

LimitIn(limits) == Given(raw, "limit") => raw.fields["limit"].int \in limits

Rule(limits) ==
  CASE type = "weather"  -> Required("city")
    [] type = "news"     -> Required("keyword") /\ LimitIn(limits)
    [] type = "stock"    -> RequiredCode("ticker", TickerWord)
    [] type = "currency" ->
         /\ RequiredCode("base", CurrencyWord) /\ RequiredCode("target", CurrencyWord)
         /\ raw.fields["base"].text.word # raw.fields["target"].text.word
    [] OTHER -> FALSE

FieldKind(f) == IF f = "limit" THEN "int" ELSE "text"

KnownFields ==
  CASE type = "weather"  -> {"city"}
    [] type = "news"     -> {"keyword", "limit"}
    [] type = "stock"    -> {"ticker"}
    [] type = "currency" -> {"base", "target"}
    [] OTHER -> {}

\* The config follows the rules of its type; a limit, if there is one, is in limits.
FollowsRules(limits) ==
  /\ raw.shape = "object"
  /\ DOMAIN raw.fields \subseteq KnownFields
  /\ \A f \in DOMAIN raw.fields : raw.fields[f].kind \in {"null", FieldKind(f)}
  /\ Rule(limits)

\* "`limit` defaults to 5, must be 1-20"
Documented == FollowsRules(1 .. MaxNewsLimit)

\* All is as documented, but for a limit that is given as 0.
ZeroLimit == Given(raw, "limit") /\ FollowsRules({0})

-----------------------------------------------------------------------------
\* A stored config has every field of its type, each with a value of the field's
\* own kind: the providers' clients read it without looking for gaps.
TypeOK ==
  /\ type \in WidgetTypes \cup {"sports"}
  /\ out \notin {Pending, Rejected} =>
       /\ DOMAIN out.fields = KnownFields
       /\ \A f \in KnownFields : out.fields[f].kind = FieldKind(f)

\* NormalizeConfig accepts what the rules of docs/API.md allow, whatever the order in
\* which it trims, upper-cases, defaults and checks, and in one case more: a news
\* config with the limit 0, which it cannot tell from an absent one.
AcceptsDocumented == out # Pending => (out # Rejected <=> Documented \/ ZeroLimit)

\* Normalizing changes white space, the case of codes, and a limit that is absent
\* or 0: a city or keyword keeps its letters, and any other limit stays.
KeepsMeaning ==
  out \notin {Pending, Rejected} =>
    \A f \in DOMAIN out.fields :
      /\ f \in {"city", "keyword"} =>
           out.fields[f] = TextValue(TrimSpace(raw.fields[f].text))
      /\ f = "limit" =>
           out.fields[f] = IF Given(raw, f) /\ raw.fields[f].int # 0
                             THEN raw.fields[f] ELSE IntValue(DefaultNewsLimit)
      /\ f \in {"ticker", "base", "target"} =>
           out.fields[f].text.word = raw.fields[f].text.word

\* A stored config that a client reads and sends back unchanged is accepted
\* again and stored unchanged: defaults and normal forms are fixed points.
RoundTrip ==
  [][SendBack => NormalizeConfig(type, out) = out]_vars

\* Why they hold: a result is the one of the config that was sent, and what is
\* sent back is as well-formed as what came first.
ConfigInv ==
  /\ type \in WidgetTypes \cup {"sports"}
  /\ WellFormed(raw)
  /\ out # Pending => out = NormalizeConfig(type, raw)

-----------------------------------------------------------------------------
(* What the documentation says and the code does not do.                   *)

\* A news config is accepted only with a limit of 1 to 20, if it has one.
OnlyDocumentedAccepted == out \notin {Pending, Rejected} => Documented

\* NormalizeConfig returns a copy that is suitable for storage: JSONB takes it.
SuitableForStorage == out \notin {Pending, Rejected} => FitsJsonb(out)
=============================================================================
