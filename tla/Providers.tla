------------------------------ MODULE Providers ------------------------------
(***************************************************************************)
(* The clients of internal/widget: what Fetch makes of its key and of the  *)
(* provider's answer.  An answer is abstracted to whether it came, its     *)
(* status, whether it is JSON of the expected shape, and whether it holds  *)
(* what the client looks for.  The stored config always parses             *)
(* (StoredConfigFits of module WidgetService), so parseConfig never fails. *)
(***************************************************************************)

\* Types whose client checks its API key first; Frankfurter needs none.
KeyedTypes == {"weather", "news", "stock"}

Answer == {"unreachable",   \* no connection, or it broke while it was read
           "non2xx",        \* an error status, 429 among them
           "garbled",       \* not the expected JSON, or cut off at maxBodyBytes
           "hollow",        \* the expected JSON without the value asked for
           "full"}

\* getJSON returns nil.
Decodes(answer) == answer \in {"hollow", "full"}

\* A city without a weather entry has a temperature, and no article is a result.
WeatherFetches(answer) == Decodes(answer)
NewsFetches(answer) == Decodes(answer)

\* An unknown symbol comes back as a quote of zeros, an unknown pair without rate.
StockFetches(answer) == Decodes(answer) /\ answer # "hollow"
CurrencyFetches(answer) == Decodes(answer) /\ answer # "hollow"

\* Fetch of the client that NewRegistry has for the type returns data.
FetchSucceeds(type, answer) ==
  CASE type = "weather"  -> WeatherFetches(answer)
    [] type = "news"     -> NewsFetches(answer)
    [] type = "stock"    -> StockFetches(answer)
    [] type = "currency" -> CurrencyFetches(answer)
=============================================================================
