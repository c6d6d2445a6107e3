-------------------------- MODULE MCConfigRoundTrip --------------------------
(***************************************************************************)
(* ConfigRoundTrip over every object of at most two of seven fields (one   *)
(* of them unknown to every type) with values of every kind, three-field   *)
(* objects for the extra field of a currency widget, and every shape that  *)
(* is not an object.                                                       *)
(***************************************************************************)
EXTENDS ConfigRoundTrip, FiniteSets

MCWord         == {"", "SAN JOSE", "NUL", "AAPL", "USD", "EUR"}
MCTickerWord   == {"AAPL", "USD", "EUR"}
MCCurrencyWord == {"USD", "EUR"}
MCNulWord      == {"NUL"}

Field == {"city", "keyword", "limit", "ticker", "base", "target", "zip"}

Value ==
  {NullValue, OtherValue}
  \cup {TextValue(s) : s \in Text}
  \cup {IntValue(n) : n \in {-1, 0, 1, DefaultNewsLimit, MaxNewsLimit, MaxNewsLimit + 1}}

Pairs == {F \in SUBSET Field : Cardinality(F) <= 2}

Usd(lower) == [word |-> "USD", padded |-> lower, lower |-> lower]

MCRawConfig ==
  UNION {{Object(fields) : fields \in [F -> Value]} : F \in Pairs}
  \cup {Object([base |-> TextValue(Usd(FALSE)), target |-> v, zip |-> v]) : v \in Value}
  \cup {Shaped(shape) : shape \in {"absent", "null", "other"}}
=============================================================================
