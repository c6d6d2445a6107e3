----------------------------- MODULE WidgetConfig -----------------------------
(***************************************************************************)
(* NormalizeConfig of internal/service/widget_config.go: which widget      *)
(* configs are accepted, and the normal form that is stored.               *)
(*                                                                         *)
(* A JSON config is abstracted to what the rules tell apart.  A string is  *)
(* a word together with "has surrounding white space" and "has lower-case  *)
(* letters"; a JSON value is tagged with its kind; a config is an object   *)
(* (a function from field names to values) or one of the shapes that are   *)
(* not an object.                                                          *)
(***************************************************************************)
EXTENDS Integers

CONSTANTS
  Word,           \* what is left of a string after trimming and upper-casing
  Empty,          \* the empty string
  TickerWord,     \* the words that match tickerRe
  CurrencyWord,   \* the words that match currencyRe
  NulWord         \* the words that contain U+0000

\* currencyRe is a special case of tickerRe, and neither admits U+0000.
ASSUME WordAssumption ==
  /\ Empty \in Word
  /\ CurrencyWord \subseteq TickerWord
  /\ TickerWord \subseteq Word \ {Empty}
  /\ NulWord \subseteq Word \ ({Empty} \cup TickerWord)

WidgetTypes == {"weather", "news", "stock", "currency"}

DefaultNewsLimit == 5
MaxNewsLimit     == 20

-----------------------------------------------------------------------------
(* Strings and JSON values.                                                *)

Text == {s \in [word : Word, padded : BOOLEAN, lower : BOOLEAN] :
           s.word = Empty => ~s.lower}

EmptyText    == [word |-> Empty, padded |-> FALSE, lower |-> FALSE]
TrimSpace(s) == [s EXCEPT !.padded = FALSE]
ToUpper(s)   == [s EXCEPT !.lower = FALSE]
Matches(s, words) == s.word \in words /\ ~s.padded /\ ~s.lower

NullValue    == [kind |-> "null"]
OtherValue   == [kind |-> "other"]
TextValue(s) == [kind |-> "text", text |-> s]
IntValue(n)  == [kind |-> "int", int |-> n]

Shaped(shape)  == [shape |-> shape, fields |-> [f \in {} |-> NullValue]]
Object(fields) == [shape |-> "object", fields |-> fields]
Rejected       == Shaped("rejected")

(***************************************************************************)
(* decodeStrict: the config must be an object, without unknown fields,     *)
(* whose fields have the right type.  A JSON null leaves a field at its    *)
(* zero value, exactly as an absent field does.                            *)
(***************************************************************************)
DecodeStrict(raw, strings, ints) ==
  /\ raw.shape = "object"
  /\ DOMAIN raw.fields \subseteq strings \cup ints
  /\ \A f \in DOMAIN raw.fields :
       raw.fields[f].kind \in {"null", IF f \in ints THEN "int" ELSE "text"}

Given(raw, f) == f \in DOMAIN raw.fields /\ raw.fields[f].kind # "null"
StringField(raw, f) == IF Given(raw, f) THEN raw.fields[f].text ELSE EmptyText
IntField(raw, f)    == IF Given(raw, f) THEN raw.fields[f].int ELSE 0

-----------------------------------------------------------------------------
(* Plausible bugs, for the mutation runs.                                  *)

InLimitOffByOne(n) == n \in 1 .. MaxNewsLimit + 1
CityOfUpper(raw)   == ToUpper(TrimSpace(StringField(raw, "city")))
FieldsOfNoLimit(type) ==
  [strings |-> CASE type = "weather"  -> {"city"}
                 [] type = "news"     -> {"keyword"}
                 [] type = "stock"    -> {"ticker"}
                 [] type = "currency" -> {"base", "target"},
   ints    |-> {}]
NormalizeNewsOmitEmpty(raw) ==
  LET keyword == TrimSpace(StringField(raw, "keyword"))
  IN  IF keyword # EmptyText /\ IntField(raw, "limit") \in 1 .. MaxNewsLimit
        THEN Object([keyword |-> TextValue(keyword),
                     limit   |-> IntValue(IntField(raw, "limit"))])
      ELSE IF keyword # EmptyText /\ IntField(raw, "limit") = 0
        THEN Object([keyword |-> TextValue(keyword)])
      ELSE Rejected

-----------------------------------------------------------------------------
(* The rules of each type.                                                 *)

EffectiveLimit(n) == IF n = 0 THEN DefaultNewsLimit ELSE n
InLimit(n)        == n \in 1 .. MaxNewsLimit
CityOf(raw)       == TrimSpace(StringField(raw, "city"))
CodeOf(raw, f)    == ToUpper(TrimSpace(StringField(raw, f)))

\* The JSON fields of the config struct of each widget type.
FieldsOf(type) ==
  [strings |-> CASE type = "weather"  -> {"city"}
                 [] type = "news"     -> {"keyword"}
                 [] type = "stock"    -> {"ticker"}
                 [] type = "currency" -> {"base", "target"},
   ints    |-> IF type = "news" THEN {"limit"} ELSE {}]

NormalizeWeather(raw) ==
  LET city == CityOf(raw)
  IN  IF city # EmptyText
        THEN Object([city |-> TextValue(city)]) ELSE Rejected

NormalizeNews(raw) ==
  LET keyword == TrimSpace(StringField(raw, "keyword"))
      limit   == EffectiveLimit(IntField(raw, "limit"))
  IN  IF keyword # EmptyText /\ InLimit(limit)
        THEN Object([keyword |-> TextValue(keyword), limit |-> IntValue(limit)])
        ELSE Rejected

NormalizeStock(raw) ==
  LET ticker == CodeOf(raw, "ticker")
  IN  IF Matches(ticker, TickerWord)
        THEN Object([ticker |-> TextValue(ticker)]) ELSE Rejected

NormalizeCurrency(raw) ==
  LET base   == CodeOf(raw, "base")
      target == CodeOf(raw, "target")
  IN  IF /\ Matches(base, CurrencyWord) /\ Matches(target, CurrencyWord)
         /\ base # target
        THEN Object([base |-> TextValue(base), target |-> TextValue(target)])
        ELSE Rejected

NormalizeConfig(type, raw) ==
  IF \/ raw.shape \in {"absent", "null"}
     \/ type \notin WidgetTypes
     \/ ~DecodeStrict(raw, FieldsOf(type).strings, FieldsOf(type).ints)
    THEN Rejected
    ELSE CASE type = "weather"  -> NormalizeWeather(raw)
           [] type = "news"     -> NormalizeNews(raw)
           [] type = "stock"    -> NormalizeStock(raw)
           [] type = "currency" -> NormalizeCurrency(raw)

(***************************************************************************)
(* What the JSONB column takes: Postgres refuses a string with U+0000.     *)
(***************************************************************************)
FitsJsonb(config) ==
  \A f \in DOMAIN config.fields :
    config.fields[f].kind = "text" => config.fields[f].text.word \notin NulWord
=============================================================================
