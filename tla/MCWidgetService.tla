--------------------------- MODULE MCWidgetService ---------------------------
(***************************************************************************)
(* A small instance of WidgetService.  Its configs are configs of module   *)
(* WidgetConfig and NormalizeConfig is the operator of that module: one    *)
(* config that fits each of two types, one that weather accepts and JSONB  *)
(* does not, and one that no type accepts.                                 *)
(***************************************************************************)
EXTENDS WidgetService, FiniteSets, TLC

CONSTANTS s1, s2, u1, u2

Rules == INSTANCE WidgetConfig
           WITH Word         <- {"", "PARIS", "USD", "NUL"},
                Empty        <- "",
                TickerWord   <- {"PARIS", "USD"},
                CurrencyWord <- {"USD"},
                NulWord      <- {"NUL"}

MCWidgetTypes == {"weather", "stock"}
MCRawTypes    == MCWidgetTypes \cup {"sports"}

Padded(w) == Rules!TextValue([word |-> w, padded |-> TRUE, lower |-> w # ""])
City(w)   == Rules!Object([city |-> Padded(w)])
Ticker(w) == Rules!Object([ticker |-> Padded(w)])

MCRawConfigs == {City("PARIS"), City("NUL"), Ticker("USD"), City("")}

MCNormalFormOf ==
  [t \in MCWidgetTypes, raw \in MCRawConfigs |-> Rules!NormalizeConfig(t, raw)]

MCInvalid == Rules!Rejected
MCStoredConfigs ==
  {MCNormalFormOf[t, raw] : t \in MCWidgetTypes, raw \in MCRawConfigs} \ {MCInvalid}
MCJsonb == {config \in MCStoredConfigs : Rules!FitsJsonb(config)}

ASSUME MCConfigAssumption == Cardinality(MCJsonb) = 2 /\ Cardinality(MCStoredConfigs) = 3

Slots == {s1, s2}
Users == {u1, u2}
SymmetrySets == Permutations(Slots) \cup Permutations(Users)
=============================================================================
