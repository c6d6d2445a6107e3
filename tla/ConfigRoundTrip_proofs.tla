------------------------ MODULE ConfigRoundTrip_proofs ------------------------
(***************************************************************************)
(* Proofs about NormalizeConfig, for every set of words and every config   *)
(* over them: it accepts what docs/API.md allows and the limit 0, it keeps *)
(* the meaning of what it accepts, and its results are fixed points.       *)
(***************************************************************************)
EXTENDS ConfigRoundTrip, TLAPS

-----------------------------------------------------------------------------
(* Strings.                                                                *)

LEMMA EmptyTextType == EmptyText \in Text
BY WordAssumption DEF EmptyText, Text

\* strings.TrimSpace removes white space and nothing else.
LEMMA TrimSpaceType ==
  ASSUME NEW s \in Text
  PROVE  /\ TrimSpace(s) \in Text
         /\ TrimSpace(s).word = s.word /\ TrimSpace(s).lower = s.lower
         /\ ~TrimSpace(s).padded
BY DEF Text, TrimSpace

LEMMA ToUpperType ==
  ASSUME NEW s \in Text
  PROVE  /\ ToUpper(s) \in Text
         /\ ToUpper(s).word = s.word /\ ToUpper(s).padded = s.padded
         /\ ~ToUpper(s).lower
BY DEF Text, ToUpper

\* Texts that agree in every respect are the same.
LEMMA TextEqual ==
  ASSUME NEW s \in Text, NEW t \in Text,
         s.word = t.word, s.padded = t.padded, s.lower = t.lower
  PROVE  s = t
BY DEF Text

\* Once trimmed, a string without a word is the empty one.
LEMMA TrimmedEmpty ==
  ASSUME NEW s \in Text
  PROVE  TrimSpace(s) = EmptyText <=> s.word = Empty
<1>1. ASSUME s.word = Empty PROVE TrimSpace(s) = EmptyText
  <2>1. s.lower = FALSE
    BY <1>1 DEF Text
  <2>2. EmptyText.word = Empty /\ EmptyText.padded = FALSE /\ EmptyText.lower = FALSE
    BY DEF EmptyText
  <2>3. /\ TrimSpace(s) \in Text /\ TrimSpace(s).word = Empty
        /\ TrimSpace(s).padded = FALSE /\ TrimSpace(s).lower = FALSE
    BY <1>1, <2>1, TrimSpaceType DEF Text
  <2> QED BY <2>2, <2>3, EmptyTextType, TextEqual
<1>2. ASSUME TrimSpace(s) = EmptyText PROVE s.word = Empty
  BY <1>2, TrimSpaceType DEF EmptyText
<1> QED BY <1>1, <1>2

\* Trimming and upper-casing a second time changes nothing.
LEMMA TrimSpaceTwice ==
  ASSUME NEW s \in Text, ~s.padded
  PROVE  TrimSpace(s) = s
BY TrimSpaceType, TextEqual DEF Text

LEMMA ToUpperTwice ==
  ASSUME NEW s \in Text, ~s.lower
  PROVE  ToUpper(s) = s
BY ToUpperType, TextEqual DEF Text
-----------------------------------------------------------------------------
(* The fields of a config that decodeStrict has taken.                     *)

\* A string field, given or not, is a string; it has a word only if it is given.
LEMMA StringFieldType ==
  ASSUME NEW config, WellFormed(config), NEW strings, NEW ints,
         DecodeStrict(config, strings, ints), NEW f \in strings, f \notin ints
  PROVE  /\ StringField(config, f) \in Text
         /\ Given(config, f) => StringField(config, f) = config.fields[f].text
         /\ ~Given(config, f) => StringField(config, f).word = Empty
<1>1. CASE Given(config, f)
  <2>1. f \in DOMAIN config.fields /\ config.fields[f].kind = "text"
    BY <1>1 DEF Given, DecodeStrict
  <2>2. config.fields[f].text \in Text
    BY <2>1 DEF WellFormed, DecodeStrict
  <2> QED BY <1>1, <2>2 DEF StringField
<1>2. CASE ~Given(config, f)
  <2>1. EmptyText.word = Empty
    BY DEF EmptyText
  <2> QED BY <1>2, <2>1, EmptyTextType DEF StringField
<1> QED BY <1>1, <1>2

\* A name that must not be blank is missing exactly when it has no word.
LEMMA TrimmedField ==
  ASSUME NEW config, WellFormed(config), NEW strings, NEW ints,
         DecodeStrict(config, strings, ints), NEW f \in strings, f \notin ints
  PROVE  TrimSpace(StringField(config, f)) # EmptyText
           <=> Given(config, f) /\ config.fields[f].text.word # Empty
BY StringFieldType, TrimmedEmpty

\* A code has the word of its field, without white space or lower case.
LEMMA CodeOfType ==
  ASSUME NEW config, WellFormed(config), NEW strings, NEW ints,
         DecodeStrict(config, strings, ints), NEW f \in strings, f \notin ints
  PROVE  /\ CodeOf(config, f) \in Text
         /\ CodeOf(config, f).word = StringField(config, f).word
         /\ Given(config, f) => CodeOf(config, f).word = config.fields[f].text.word
         /\ ~CodeOf(config, f).padded /\ ~CodeOf(config, f).lower
<1> DEFINE s == StringField(config, f)
<1>1. s \in Text /\ TrimSpace(s) \in Text
  BY StringFieldType, TrimSpaceType
<1>2. /\ CodeOf(config, f) \in Text /\ CodeOf(config, f).word = s.word
      /\ ~CodeOf(config, f).padded /\ ~CodeOf(config, f).lower
  BY <1>1, TrimSpaceType, ToUpperType DEF CodeOf
<1> QED BY <1>2, StringFieldType

\* It matches exactly when the word of the field that was given does.
LEMMA MatchingCode ==
  ASSUME NEW config, WellFormed(config), NEW strings, NEW ints,
         DecodeStrict(config, strings, ints), NEW f \in strings, f \notin ints,
         NEW words \in SUBSET TickerWord
  PROVE  Matches(CodeOf(config, f), words)
           <=> Given(config, f) /\ config.fields[f].text.word \in words
<1>1. StringField(config, f).word \in words
        <=> Given(config, f) /\ config.fields[f].text.word \in words
  BY StringFieldType, WordAssumption
<1> QED BY <1>1, CodeOfType DEF Matches

-----------------------------------------------------------------------------
(* NormalizeConfig, type by type.                                          *)

\* The config is an object with fields of the type, each of its kind.
Decodes(t, config) ==
  DecodeStrict(config, FieldsOf(t).strings, FieldsOf(t).ints)

\* What is stored for each type.
WeatherConfig(city)          == Object([city |-> TextValue(city)])
NewsConfig(keyword, limit)   == Object([keyword |-> TextValue(keyword), limit |-> IntValue(limit)])
StockConfig(ticker)          == Object([ticker |-> TextValue(ticker)])
CurrencyConfig(base, target) == Object([base |-> TextValue(base), target |-> TextValue(target)])

LEMMA ObjectIsAccepted ==
  ASSUME NEW fields
  PROVE  Object(fields) # Rejected
<1>1. Object(fields).shape = "object" /\ Rejected.shape = "rejected"
  BY DEF Object, Rejected, Shaped
<1> QED BY <1>1

LEMMA TypeFields ==
  /\ FieldsOf("weather").strings = {"city"} /\ FieldsOf("weather").ints = {}
  /\ FieldsOf("news").strings = {"keyword"} /\ FieldsOf("news").ints = {"limit"}
  /\ FieldsOf("stock").strings = {"ticker"} /\ FieldsOf("stock").ints = {}
  /\ FieldsOf("currency").strings = {"base", "target"} /\ FieldsOf("currency").ints = {}
BY DEF FieldsOf

\* What does not decode, or is of no known type, is rejected.
LEMMA UndecodedIsRejected ==
  ASSUME NEW t, NEW config, t \notin WidgetTypes \/ ~Decodes(t, config)
  PROVE  NormalizeConfig(t, config) = Rejected
BY DEF NormalizeConfig, Decodes

LEMMA NormalizeByType ==
  ASSUME NEW config
  PROVE  /\ Decodes("weather", config) =>
              NormalizeConfig("weather", config) = NormalizeWeather(config)
         /\ Decodes("news", config) =>
              NormalizeConfig("news", config) = NormalizeNews(config)
         /\ Decodes("stock", config) =>
              NormalizeConfig("stock", config) = NormalizeStock(config)
         /\ Decodes("currency", config) =>
              NormalizeConfig("currency", config) = NormalizeCurrency(config)
<1> USE DEF NormalizeConfig, Decodes, DecodeStrict, WidgetTypes
<1>1. Decodes("weather", config) => NormalizeConfig("weather", config) = NormalizeWeather(config)
  OBVIOUS
<1>2. Decodes("news", config) => NormalizeConfig("news", config) = NormalizeNews(config)
  OBVIOUS
<1>3. Decodes("stock", config) => NormalizeConfig("stock", config) = NormalizeStock(config)
  OBVIOUS
<1>4. Decodes("currency", config) => NormalizeConfig("currency", config) = NormalizeCurrency(config)
  OBVIOUS
<1> QED BY <1>1, <1>2, <1>3, <1>4

\* A weather config is accepted when its city is not blank, and trimmed.
LEMMA WeatherNormal ==
  ASSUME NEW config, WellFormed(config), Decodes("weather", config)
  PROVE  LET normal == NormalizeConfig("weather", config)
             accepted == Given(config, "city") /\ config.fields["city"].text.word # Empty
         IN  /\ accepted => normal = WeatherConfig(TrimSpace(config.fields["city"].text))
             /\ ~accepted => normal = Rejected
<1>1. NormalizeConfig("weather", config) = NormalizeWeather(config)
  BY NormalizeByType
<1>2. CityOf(config) # EmptyText
        <=> Given(config, "city") /\ config.fields["city"].text.word # Empty
  BY TypeFields, TrimmedField DEF Decodes, CityOf
<1>3. Given(config, "city") => CityOf(config) = TrimSpace(config.fields["city"].text)
  BY TypeFields, StringFieldType DEF Decodes, CityOf
<1> QED BY <1>1, <1>2, <1>3 DEF NormalizeWeather, WeatherConfig

\* A news config is accepted when its keyword is not blank and its limit is 1
\* to 20, absent or 0; the last two mean the default.
LEMMA NewsNormal ==
  ASSUME NEW config, WellFormed(config), Decodes("news", config)
  PROVE  LET normal == NormalizeConfig("news", config)
             accepted == /\ Given(config, "keyword")
                         /\ config.fields["keyword"].text.word # Empty
                         /\ Given(config, "limit") =>
                              config.fields["limit"].int \in 0 .. MaxNewsLimit
         IN  /\ accepted => normal = NewsConfig(TrimSpace(config.fields["keyword"].text),
                                                EffectiveLimit(IntField(config, "limit")))
             /\ ~accepted => normal = Rejected
<1> DEFINE keyword == TrimSpace(StringField(config, "keyword"))
           limit == EffectiveLimit(IntField(config, "limit"))
<1>1. NormalizeConfig("news", config) = NormalizeNews(config)
  BY NormalizeByType
<1>2. keyword # EmptyText
        <=> Given(config, "keyword") /\ config.fields["keyword"].text.word # Empty
  BY TypeFields, TrimmedField DEF Decodes
<1>3. Given(config, "keyword") => keyword = TrimSpace(config.fields["keyword"].text)
  BY TypeFields, StringFieldType DEF Decodes
<1>4. InLimit(limit) <=> (Given(config, "limit") =>
                            config.fields["limit"].int \in 0 .. MaxNewsLimit)
  <2>1. ASSUME NEW n PROVE EffectiveLimit(n) \in 1 .. MaxNewsLimit <=> n \in 0 .. MaxNewsLimit
    BY DEF EffectiveLimit, MaxNewsLimit, DefaultNewsLimit
  <2>2. 0 \in 0 .. MaxNewsLimit
    BY DEF MaxNewsLimit
  <2> QED BY <2>1, <2>2 DEF InLimit, IntField
<1> QED BY <1>1, <1>2, <1>3, <1>4 DEF NormalizeNews, NewsConfig

\* A stock config is accepted when its ticker is one, in capitals or not.
LEMMA StockNormal ==
  ASSUME NEW config, WellFormed(config), Decodes("stock", config)
  PROVE  LET normal == NormalizeConfig("stock", config)
             accepted == /\ Given(config, "ticker")
                         /\ config.fields["ticker"].text.word \in TickerWord
         IN  /\ accepted => normal = StockConfig(CodeOf(config, "ticker"))
             /\ ~accepted => normal = Rejected
<1>1. NormalizeConfig("stock", config) = NormalizeStock(config)
  BY NormalizeByType
<1>2. Matches(CodeOf(config, "ticker"), TickerWord)
        <=> Given(config, "ticker") /\ config.fields["ticker"].text.word \in TickerWord
  BY TypeFields, MatchingCode DEF Decodes
<1> QED BY <1>1, <1>2 DEF NormalizeStock, StockConfig

\* A currency config is accepted when its two codes are codes and differ.
LEMMA CurrencyNormal ==
  ASSUME NEW config, WellFormed(config), Decodes("currency", config)
  PROVE  LET normal == NormalizeConfig("currency", config)
             accepted == /\ Given(config, "base")
                         /\ config.fields["base"].text.word \in CurrencyWord
                         /\ Given(config, "target")
                         /\ config.fields["target"].text.word \in CurrencyWord
                         /\ config.fields["base"].text.word # config.fields["target"].text.word
         IN  /\ accepted => normal = CurrencyConfig(CodeOf(config, "base"), CodeOf(config, "target"))
             /\ ~accepted => normal = Rejected
<1> DEFINE base == CodeOf(config, "base")
           target == CodeOf(config, "target")
<1>1. NormalizeConfig("currency", config) = NormalizeCurrency(config)
  BY NormalizeByType
<1>2. CurrencyWord \in SUBSET TickerWord
  BY WordAssumption
<1>3. /\ base \in Text /\ (Given(config, "base") => base.word = config.fields["base"].text.word)
      /\ ~base.padded /\ ~base.lower
      /\ Matches(base, CurrencyWord)
           <=> Given(config, "base") /\ config.fields["base"].text.word \in CurrencyWord
  BY <1>2, TypeFields, CodeOfType, MatchingCode DEF Decodes
<1>4. /\ target \in Text /\ (Given(config, "target") => target.word = config.fields["target"].text.word)
      /\ ~target.padded /\ ~target.lower
      /\ Matches(target, CurrencyWord)
           <=> Given(config, "target") /\ config.fields["target"].text.word \in CurrencyWord
  BY <1>2, TypeFields, CodeOfType, MatchingCode DEF Decodes
<1>5. base = target <=> base.word = target.word
  BY <1>3, <1>4, TextEqual DEF Text
<1> HIDE DEF base, target
<1> QED BY <1>1, <1>3, <1>4, <1>5 DEF NormalizeCurrency, CurrencyConfig, base, target

-----------------------------------------------------------------------------
(* Normal forms are fixed points.                                          *)

LEMMA WeatherFixed ==
  ASSUME NEW city \in Text, city.word # Empty, ~city.padded
  PROVE  /\ WellFormed(WeatherConfig(city))
         /\ NormalizeConfig("weather", WeatherConfig(city)) = WeatherConfig(city)
<1> DEFINE config == WeatherConfig(city)
<1>1. /\ config.shape = "object" /\ DOMAIN config.fields = {"city"}
      /\ config.fields["city"].kind = "text" /\ config.fields["city"].text = city
  BY DEF WeatherConfig, Object, TextValue
<1> HIDE DEF config
<1>2. WellFormed(config) /\ Decodes("weather", config) /\ Given(config, "city")
  BY <1>1, TypeFields DEF WellFormed, Decodes, DecodeStrict, Given
<1>3. NormalizeConfig("weather", config) = WeatherConfig(TrimSpace(city))
  BY <1>1, <1>2, WeatherNormal
<1> QED BY <1>2, <1>3, TrimSpaceTwice DEF config

LEMMA NewsFixed ==
  ASSUME NEW keyword \in Text, keyword.word # Empty, ~keyword.padded,
         NEW limit \in 1 .. MaxNewsLimit
  PROVE  /\ WellFormed(NewsConfig(keyword, limit))
         /\ NormalizeConfig("news", NewsConfig(keyword, limit)) = NewsConfig(keyword, limit)
<1> DEFINE config == NewsConfig(keyword, limit)
<1>1. /\ config.shape = "object" /\ DOMAIN config.fields = {"keyword", "limit"}
      /\ config.fields["keyword"].kind = "text" /\ config.fields["keyword"].text = keyword
      /\ config.fields["limit"].kind = "int" /\ config.fields["limit"].int = limit
      /\ config.fields["limit"] = IntValue(config.fields["limit"].int)
  BY DEF NewsConfig, Object, TextValue, IntValue
<1> HIDE DEF config
<1>2. /\ WellFormed(config) /\ Decodes("news", config)
      /\ Given(config, "keyword") /\ Given(config, "limit")
  <2>1. WellFormed(config)
    BY <1>1 DEF WellFormed
  <2>2. Decodes("news", config) /\ Given(config, "keyword") /\ Given(config, "limit")
    BY <1>1, TypeFields DEF Decodes, DecodeStrict, Given
  <2> QED BY <2>1, <2>2
<1>3. IntField(config, "limit") = limit /\ EffectiveLimit(limit) = limit
        /\ limit \in 0 .. MaxNewsLimit
  BY <1>1, <1>2 DEF IntField, EffectiveLimit, MaxNewsLimit
<1>4. NormalizeConfig("news", config) = NewsConfig(TrimSpace(keyword), limit)
  BY <1>1, <1>2, <1>3, NewsNormal
<1> QED BY <1>2, <1>4, TrimSpaceTwice DEF config

\* A code field that is in normal form already.
LEMMA NormalCode ==
  ASSUME NEW config, NEW f, Given(config, f), NEW code \in Text,
         config.fields[f].text = code, ~code.padded, ~code.lower
  PROVE  CodeOf(config, f) = code
BY TrimSpaceTwice, ToUpperTwice DEF CodeOf, StringField

LEMMA StockFixed ==
  ASSUME NEW ticker \in Text, ticker.word \in TickerWord, ~ticker.padded, ~ticker.lower
  PROVE  /\ WellFormed(StockConfig(ticker))
         /\ NormalizeConfig("stock", StockConfig(ticker)) = StockConfig(ticker)
<1> DEFINE config == StockConfig(ticker)
<1>1. /\ config.shape = "object" /\ DOMAIN config.fields = {"ticker"}
      /\ config.fields["ticker"].kind = "text" /\ config.fields["ticker"].text = ticker
  BY DEF StockConfig, Object, TextValue
<1> HIDE DEF config
<1>2. WellFormed(config) /\ Decodes("stock", config) /\ Given(config, "ticker")
  BY <1>1, TypeFields DEF WellFormed, Decodes, DecodeStrict, Given
<1>3. CodeOf(config, "ticker") = ticker
  BY <1>1, <1>2, NormalCode
<1>4. NormalizeConfig("stock", config) = StockConfig(ticker)
  BY <1>1, <1>2, <1>3, StockNormal
<1> QED BY <1>2, <1>4 DEF config

LEMMA CurrencyFixed ==
  ASSUME NEW base \in Text, base.word \in CurrencyWord, ~base.padded, ~base.lower,
         NEW target \in Text, target.word \in CurrencyWord, ~target.padded, ~target.lower,
         base.word # target.word
  PROVE  /\ WellFormed(CurrencyConfig(base, target))
         /\ NormalizeConfig("currency", CurrencyConfig(base, target))
              = CurrencyConfig(base, target)
<1> DEFINE config == CurrencyConfig(base, target)
<1>1. /\ config.shape = "object" /\ DOMAIN config.fields = {"base", "target"}
      /\ config.fields["base"].kind = "text" /\ config.fields["base"].text = base
      /\ config.fields["target"].kind = "text" /\ config.fields["target"].text = target
  BY DEF CurrencyConfig, Object, TextValue
<1> HIDE DEF config
<1>2. /\ WellFormed(config) /\ Decodes("currency", config)
      /\ Given(config, "base") /\ Given(config, "target")
  BY <1>1, TypeFields DEF WellFormed, Decodes, DecodeStrict, Given
<1>3. CodeOf(config, "base") = base /\ CodeOf(config, "target") = target
  BY <1>1, <1>2, NormalCode
<1>4. NormalizeConfig("currency", config) = CurrencyConfig(base, target)
  BY <1>1, <1>2, <1>3, CurrencyNormal
<1> QED BY <1>2, <1>4 DEF config

\* A config that NormalizeConfig returns is returned unchanged the next time.
LEMMA NormalFormFixed ==
  ASSUME NEW t, NEW config, WellFormed(config), NormalizeConfig(t, config) # Rejected
  PROVE  /\ WellFormed(NormalizeConfig(t, config))
         /\ NormalizeConfig(t, NormalizeConfig(t, config)) = NormalizeConfig(t, config)
<1>1. t \in WidgetTypes /\ Decodes(t, config)
  BY UndecodedIsRejected
<1>2. CASE t = "weather"
  <2> DEFINE city == TrimSpace(config.fields["city"].text)
  <2>1. Given(config, "city") /\ config.fields["city"].text.word # Empty
          /\ NormalizeConfig(t, config) = WeatherConfig(city)
    BY <1>1, <1>2, WeatherNormal
  <2>2. config.fields["city"].text \in Text
    BY <1>1, <1>2, <2>1, TypeFields, StringFieldType DEF Decodes
  <2>3. city \in Text /\ city.word # Empty /\ ~city.padded
    BY <2>1, <2>2, TrimSpaceType
  <2> QED BY <1>2, <2>1, <2>3, WeatherFixed
<1>3. CASE t = "news"
  <2> DEFINE keyword == TrimSpace(config.fields["keyword"].text)
             limit == EffectiveLimit(IntField(config, "limit"))
  <2>1. /\ Given(config, "keyword") /\ config.fields["keyword"].text.word # Empty
        /\ Given(config, "limit") => config.fields["limit"].int \in 0 .. MaxNewsLimit
        /\ NormalizeConfig(t, config) = NewsConfig(keyword, limit)
    BY <1>1, <1>3, NewsNormal
  <2>2. config.fields["keyword"].text \in Text
    BY <1>1, <1>3, <2>1, TypeFields, StringFieldType DEF Decodes
  <2>3. keyword \in Text /\ keyword.word # Empty /\ ~keyword.padded
    BY <2>1, <2>2, TrimSpaceType
  <2>4. limit \in 1 .. MaxNewsLimit
    BY <2>1 DEF IntField, EffectiveLimit, MaxNewsLimit, DefaultNewsLimit
  <2> QED BY <1>3, <2>1, <2>3, <2>4, NewsFixed
<1>4. CASE t = "stock"
  <2>1. /\ Given(config, "ticker") /\ config.fields["ticker"].text.word \in TickerWord
        /\ NormalizeConfig(t, config) = StockConfig(CodeOf(config, "ticker"))
    BY <1>1, <1>4, StockNormal
  <2>2. /\ CodeOf(config, "ticker") \in Text /\ CodeOf(config, "ticker").word \in TickerWord
        /\ ~CodeOf(config, "ticker").padded /\ ~CodeOf(config, "ticker").lower
    BY <1>1, <1>4, <2>1, TypeFields, CodeOfType, MatchingCode DEF Decodes, Matches
  <2> QED BY <1>4, <2>1, <2>2, StockFixed
<1>5. CASE t = "currency"
  <2> DEFINE base == CodeOf(config, "base")
             target == CodeOf(config, "target")
  <2>1. /\ Given(config, "base") /\ config.fields["base"].text.word \in CurrencyWord
        /\ Given(config, "target") /\ config.fields["target"].text.word \in CurrencyWord
        /\ config.fields["base"].text.word # config.fields["target"].text.word
        /\ NormalizeConfig(t, config) = CurrencyConfig(base, target)
    BY <1>1, <1>5, CurrencyNormal
  <2>2. CurrencyWord \in SUBSET TickerWord
    BY WordAssumption
  <2>3. /\ base \in Text /\ base.word = config.fields["base"].text.word
        /\ ~base.padded /\ ~base.lower
    BY <1>1, <1>5, <2>1, <2>2, TypeFields, CodeOfType DEF Decodes
  <2>4. /\ target \in Text /\ target.word = config.fields["target"].text.word
        /\ ~target.padded /\ ~target.lower
    BY <1>1, <1>5, <2>1, <2>2, TypeFields, CodeOfType DEF Decodes
  <2> HIDE DEF base, target
  <2> QED BY <1>5, <2>1, <2>3, <2>4, CurrencyFixed
<1> QED BY <1>1, <1>2, <1>3, <1>4, <1>5 DEF WidgetTypes

-----------------------------------------------------------------------------
(* The invariant and the properties.                                       *)

LEMMA InitConfig == Init => ConfigInv
BY RawConfigAssumption DEF Init, ConfigInv

LEMMA NextConfig == ConfigInv /\ [Next]_vars => ConfigInv'
<1> SUFFICES ASSUME ConfigInv, [Next]_vars PROVE ConfigInv'
  OBVIOUS
<1>1. CASE Validate
  BY <1>1 DEF Validate, ConfigInv, WellFormed
<1>2. CASE SendBack
  <2>1. out = NormalizeConfig(type, raw) /\ out # Rejected /\ raw' = out /\ out' = Pending
          /\ type' = type
    BY <1>2 DEF SendBack, ConfigInv
  <2>2. WellFormed(out)
    BY <2>1, NormalFormFixed DEF ConfigInv
  <2>3. WellFormed(raw)'
    BY <2>1, <2>2 DEF WellFormed
  <2> QED BY <2>1, <2>3 DEF ConfigInv
<1>3. CASE UNCHANGED vars
  BY <1>3 DEF vars, ConfigInv, WellFormed
<1> QED BY <1>1, <1>2, <1>3 DEF Next

\* A known field of an object that decodes is of its kind or null.
LEMMA FollowsRulesDecodes ==
  ASSUME type \in WidgetTypes, NEW limits
  PROVE  FollowsRules(limits) <=> Decodes(type, raw) /\ Rule(limits)
<1>1. FieldsOf(type).strings \cup FieldsOf(type).ints = KnownFields
  BY TypeFields DEF WidgetTypes, KnownFields
<1>2. \A f \in KnownFields :
        (IF f \in FieldsOf(type).ints THEN "int" ELSE "text") = FieldKind(f)
  BY TypeFields DEF WidgetTypes, KnownFields, FieldKind
<1> QED BY <1>1, <1>2 DEF FollowsRules, Decodes, DecodeStrict

\* The rule of a type, with limits from 0, is what NormalizeConfig asks of a config
\* that decodes.
LEMMA RuleIsAcceptance ==
  ASSUME WellFormed(raw), type \in WidgetTypes, Decodes(type, raw)
  PROVE  Rule(0 .. MaxNewsLimit) <=> NormalizeConfig(type, raw) # Rejected
<1>1. /\ \A city : WeatherConfig(city) # Rejected
      /\ \A keyword, limit : NewsConfig(keyword, limit) # Rejected
      /\ \A ticker : StockConfig(ticker) # Rejected
      /\ \A base, target : CurrencyConfig(base, target) # Rejected
  BY ObjectIsAccepted DEF WeatherConfig, NewsConfig, StockConfig, CurrencyConfig
<1> USE DEF Rule, Required, RequiredCode, LimitIn
<1>2. CASE type = "weather"
  BY <1>1, <1>2, WeatherNormal
<1>3. CASE type = "news"
  BY <1>1, <1>3, NewsNormal
<1>4. CASE type = "stock"
  BY <1>1, <1>4, StockNormal
<1>5. CASE type = "currency"
  BY <1>1, <1>5, CurrencyNormal
<1> QED BY <1>2, <1>3, <1>4, <1>5 DEF WidgetTypes

\* A limit from 0 on is a documented one or 0.
LEMMA ZeroOrDocumented == FollowsRules(0 .. MaxNewsLimit) <=> Documented \/ ZeroLimit
<1>1. \A n : n \in 0 .. MaxNewsLimit <=> n \in 1 .. MaxNewsLimit \/ n \in {0}
  BY DEF MaxNewsLimit
<1>2. LimitIn(0 .. MaxNewsLimit)
        <=> LimitIn(1 .. MaxNewsLimit) \/ (Given(raw, "limit") /\ LimitIn({0}))
  BY <1>1 DEF LimitIn
<1>3. ASSUME Given(raw, "limit"), FollowsRules({0}) PROVE type = "news"
  <2>1. "limit" \in KnownFields
    BY <1>3 DEF Given, FollowsRules
  <2> QED BY <2>1 DEF KnownFields
<1>4. CASE type = "news"
  BY <1>2, <1>4 DEF Documented, ZeroLimit, FollowsRules, Rule
<1>5. CASE type # "news"
  BY <1>3, <1>5 DEF Documented, ZeroLimit, FollowsRules, Rule
<1> QED BY <1>4, <1>5

LEMMA InvAccepts == ConfigInv => AcceptsDocumented
<1> SUFFICES ASSUME ConfigInv, out # Pending
             PROVE  out # Rejected <=> FollowsRules(0 .. MaxNewsLimit)
  BY ZeroOrDocumented DEF AcceptsDocumented
<1>1. WellFormed(raw) /\ out = NormalizeConfig(type, raw)
  BY DEF ConfigInv
<1>2. CASE type \in WidgetTypes
  BY <1>1, <1>2, FollowsRulesDecodes, RuleIsAcceptance, UndecodedIsRejected
<1>3. CASE type \notin WidgetTypes
  <2>1. ~Rule(0 .. MaxNewsLimit)
    BY <1>3 DEF Rule, WidgetTypes
  <2> QED BY <1>1, <1>3, <2>1, UndecodedIsRejected DEF FollowsRules
<1> QED BY <1>2, <1>3

\* What is stored, of each type.
LEMMA NormalForm ==
  ASSUME WellFormed(raw), NormalizeConfig(type, raw) # Rejected
  PROVE  LET normal == NormalizeConfig(type, raw)
             text(f) == raw.fields[f].text
         IN  \/ type = "weather" /\ normal = WeatherConfig(TrimSpace(text("city")))
             \/ /\ type = "news"
                /\ normal = NewsConfig(TrimSpace(text("keyword")),
                                       EffectiveLimit(IntField(raw, "limit")))
             \/ /\ type = "stock" /\ normal = StockConfig(CodeOf(raw, "ticker"))
                /\ CodeOf(raw, "ticker").word = text("ticker").word
             \/ /\ type = "currency"
                /\ normal = CurrencyConfig(CodeOf(raw, "base"), CodeOf(raw, "target"))
                /\ CodeOf(raw, "base").word = text("base").word
                /\ CodeOf(raw, "target").word = text("target").word
<1>1. type \in WidgetTypes /\ Decodes(type, raw)
  BY UndecodedIsRejected
<1>2. CASE type = "weather"
  BY <1>1, <1>2, WeatherNormal
<1>3. CASE type = "news"
  BY <1>1, <1>3, NewsNormal
<1>4. CASE type = "stock"
  <2>1. Given(raw, "ticker") /\ NormalizeConfig(type, raw) = StockConfig(CodeOf(raw, "ticker"))
    BY <1>1, <1>4, StockNormal
  <2>2. CodeOf(raw, "ticker").word = raw.fields["ticker"].text.word
    BY <1>1, <1>4, <2>1, TypeFields, CodeOfType DEF Decodes
  <2> QED BY <1>4, <2>1, <2>2
<1>5. CASE type = "currency"
  <2>1. /\ Given(raw, "base") /\ Given(raw, "target")
        /\ NormalizeConfig(type, raw) = CurrencyConfig(CodeOf(raw, "base"), CodeOf(raw, "target"))
    BY <1>1, <1>5, CurrencyNormal
  <2>2. /\ CodeOf(raw, "base").word = raw.fields["base"].text.word
        /\ CodeOf(raw, "target").word = raw.fields["target"].text.word
    BY <1>1, <1>5, <2>1, TypeFields, CodeOfType DEF Decodes
  <2> QED BY <1>5, <2>1, <2>2
<1> QED BY <1>1, <1>2, <1>3, <1>4, <1>5 DEF WidgetTypes

LEMMA InvTypes == ConfigInv => TypeOK
<1> SUFFICES ASSUME ConfigInv PROVE TypeOK
  OBVIOUS
<1>1. type \in WidgetTypes \cup {"sports"} /\ WellFormed(raw)
  BY DEF ConfigInv
<1>2. ASSUME out \notin {Pending, Rejected}
      PROVE  /\ DOMAIN out.fields = KnownFields
             /\ \A f \in KnownFields : out.fields[f].kind = FieldKind(f)
  <2>1. out = NormalizeConfig(type, raw) /\ out # Rejected
    BY <1>2 DEF ConfigInv
  <2> USE DEF KnownFields, FieldKind, Object, TextValue, IntValue
  <2>2. CASE type = "weather" /\ \E city : out = WeatherConfig(city)
    BY <2>2 DEF WeatherConfig
  <2>3. CASE type = "news" /\ \E keyword, limit : out = NewsConfig(keyword, limit)
    BY <2>3 DEF NewsConfig
  <2>4. CASE type = "stock" /\ \E ticker : out = StockConfig(ticker)
    BY <2>4 DEF StockConfig
  <2>5. CASE type = "currency" /\ \E base, target : out = CurrencyConfig(base, target)
    BY <2>5 DEF CurrencyConfig
  <2> QED BY <1>1, <2>1, <2>2, <2>3, <2>4, <2>5, NormalForm
<1> QED BY <1>1, <1>2 DEF TypeOK

LEMMA InvKeeps == ConfigInv => KeepsMeaning
<1> SUFFICES ASSUME ConfigInv, out \notin {Pending, Rejected} PROVE KeepsMeaning
  BY DEF KeepsMeaning
<1>1. out = NormalizeConfig(type, raw) /\ out # Rejected /\ WellFormed(raw)
  BY DEF ConfigInv
<1>2. type \in WidgetTypes /\ Decodes(type, raw)
  BY <1>1, UndecodedIsRejected
<1> USE DEF KeepsMeaning, Object, TextValue, IntValue
<1>3. CASE type = "weather" /\ out = WeatherConfig(TrimSpace(raw.fields["city"].text))
  BY <1>3 DEF WeatherConfig
<1>4. CASE /\ type = "news"
           /\ out = NewsConfig(TrimSpace(raw.fields["keyword"].text),
                              EffectiveLimit(IntField(raw, "limit")))
  <2> DEFINE limit == EffectiveLimit(IntField(raw, "limit"))
  <2>1. /\ DOMAIN out.fields = {"keyword", "limit"}
        /\ out.fields["keyword"] = TextValue(TrimSpace(raw.fields["keyword"].text))
        /\ out.fields["limit"] = IntValue(limit)
    BY <1>4 DEF NewsConfig
  <2>2. Given(raw, "limit") => raw.fields["limit"] = IntValue(raw.fields["limit"].int)
    <3>1. Given(raw, "limit") => raw.fields["limit"].kind = "int"
      BY <1>2, <1>4, TypeFields DEF Decodes, DecodeStrict, Given
    <3> QED BY <1>1, <1>2, <3>1 DEF WellFormed, Decodes, DecodeStrict, Given
  <2>3. IntValue(limit) = IF Given(raw, "limit") /\ raw.fields["limit"].int # 0
                            THEN raw.fields["limit"] ELSE IntValue(DefaultNewsLimit)
    BY <2>2 DEF EffectiveLimit, IntField
  <2> HIDE DEF limit
  <2> QED BY <2>1, <2>3
<1>5. CASE /\ type = "stock" /\ out = StockConfig(CodeOf(raw, "ticker"))
           /\ CodeOf(raw, "ticker").word = raw.fields["ticker"].text.word
  BY <1>5 DEF StockConfig
<1>6. CASE /\ type = "currency"
           /\ out = CurrencyConfig(CodeOf(raw, "base"), CodeOf(raw, "target"))
           /\ CodeOf(raw, "base").word = raw.fields["base"].text.word
           /\ CodeOf(raw, "target").word = raw.fields["target"].text.word
  BY <1>6 DEF CurrencyConfig
<1> QED BY <1>1, <1>3, <1>4, <1>5, <1>6, NormalForm

-----------------------------------------------------------------------------
(* The theorems.                                                           *)

\* What NormalizeConfig has returned is always its result for what was sent.
THEOREM ConfigInvariant == Spec => []ConfigInv
BY InitConfig, NextConfig, PTL DEF Spec

\* A stored config has every field of its type, with a value of its kind: the
\* provider clients that parse it find no gap.
THEOREM ConfigTypeCorrect == Spec => []TypeOK
BY InvTypes, ConfigInvariant, PTL

\* NormalizeConfig accepts what the table of docs/API.md allows, with limits of 1 to
\* 20, and otherwise only a news config whose limit is given as 0.
THEOREM AcceptsWhatIsDocumented == Spec => []AcceptsDocumented
BY InvAccepts, ConfigInvariant, PTL

\* Normalizing keeps the words of a config, and a limit other than 0.
THEOREM NormalizingKeepsMeaning == Spec => []KeepsMeaning
BY InvKeeps, ConfigInvariant, PTL

\* Every stored config is a fixed point of NormalizeConfig: a client that sends
\* back what it has read changes nothing.
THEOREM NormalFormsRoundTrip == Spec => RoundTrip
<1>1. ConfigInv /\ [Next]_vars => [SendBack => NormalizeConfig(type, out) = out]_vars
  <2> SUFFICES ASSUME ConfigInv, SendBack PROVE NormalizeConfig(type, out) = out
    OBVIOUS
  <2> QED BY NormalFormFixed DEF ConfigInv, SendBack
<1> QED BY <1>1, ConfigInvariant, PTL DEF Spec, RoundTrip

\* JSONB can refuse a stored config only for its city or keyword: tickers and
\* currency codes never hold U+0000.
THEOREM CodesFitJsonb ==
  Spec => [](type \in {"stock", "currency"} => SuitableForStorage)
<1>1. ASSUME ConfigInv, type \in {"stock", "currency"}, out \notin {Pending, Rejected}
      PROVE  FitsJsonb(out)
  <2>1. WellFormed(raw) /\ out = NormalizeConfig(type, raw) /\ Decodes(type, raw)
    BY <1>1, UndecodedIsRejected DEF ConfigInv
  <2>2. \A word \in TickerWord : word \notin NulWord
    BY WordAssumption
  <2>3. CASE type = "stock"
    <3>1. Given(raw, "ticker") /\ raw.fields["ticker"].text.word \in TickerWord
            /\ out = StockConfig(CodeOf(raw, "ticker"))
      BY <1>1, <2>1, <2>3, StockNormal
    <3>2. CodeOf(raw, "ticker").word \in TickerWord
      BY <2>1, <2>3, <3>1, TypeFields, CodeOfType DEF Decodes
    <3> QED BY <2>2, <3>1, <3>2 DEF FitsJsonb, StockConfig, Object, TextValue
  <2>4. CASE type = "currency"
    <3>1. /\ Given(raw, "base") /\ raw.fields["base"].text.word \in CurrencyWord
          /\ Given(raw, "target") /\ raw.fields["target"].text.word \in CurrencyWord
          /\ out = CurrencyConfig(CodeOf(raw, "base"), CodeOf(raw, "target"))
      BY <1>1, <2>1, <2>4, CurrencyNormal
    <3>2. CodeOf(raw, "base").word \in TickerWord /\ CodeOf(raw, "target").word \in TickerWord
      BY <2>1, <2>4, <3>1, TypeFields, CodeOfType, WordAssumption DEF Decodes
    <3> QED BY <2>2, <3>1, <3>2 DEF FitsJsonb, CurrencyConfig, Object, TextValue
  <2> QED BY <1>1, <2>3, <2>4
<1>2. ConfigInv => (type \in {"stock", "currency"} => SuitableForStorage)
  BY <1>1 DEF SuitableForStorage
<1> QED BY <1>2, ConfigInvariant, PTL
=============================================================================
