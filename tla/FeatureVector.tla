--------------------------- MODULE FeatureVector ---------------------------
(***************************************************************************)
(* What a model is fed with: the path of a transaction's categories from   *)
(* the texts a client posts, through the enumerations of gateway and       *)
(* message, to the one-hot columns of MLFraudDetector::CreateFeatureVector *)
(* and the columns of a model, as LoadModelByUuid numbers them.            *)
(*                                                                         *)
(* The name of a column is <<group, value>>: <<"location", "Tokyo">> stands*)
(* for location_Tokyo, <<"amount", "">> for amount.                        *)
(***************************************************************************)
EXTENDS Integers, Sequences, FiniteSetsExt

CONSTANTS
  Day,   \* 86400 in the code
  Hour   \* 3600 in the code

ASSUME ClockAssumption == Day \in Nat \ {0} /\ Hour \in Nat \ {0} /\ Day % Hour = 0

-----------------------------------------------------------------------------
(* From the client to the message.  The gateway takes the texts of its     *)
(* enumerations and sends the value that the message calls like the        *)
(* member, in capitals.                                                    *)

Enumeration == [
  transaction_type |-> [withdrawal |-> "WITHDRAWAL", deposit |-> "DEPOSIT",
                        transfer |-> "TRANSFER", payment |-> "PAYMENT"],
  device_used      |-> [mobile |-> "MOBILE", atm |-> "ATM", pos |-> "POS", web |-> "WEB"],
  payment_channel  |-> [UPI |-> "UPI", card |-> "CARD", ACH |-> "ACH",
                        wire_transfer |-> "WIRE_TRANSFER"]]

\* A merchant category and a location are sent as they are.
FreeText == {"merchant_category", "location"}

Category == FreeText \cup DOMAIN Enumeration

Forwarded(posted) ==
  [g \in Category |->
     IF g \in FreeText THEN posted[g] ELSE Enumeration[g][posted[g]]]

-----------------------------------------------------------------------------
(* From the message to the columns                                         *)

\* The texts the detector has for the enumerations, after its models.
Suffix == [
  WITHDRAWAL |-> "withdrawal", DEPOSIT |-> "deposit", TRANSFER |-> "transfer",
  PAYMENT |-> "payment", MOBILE |-> "mobile", ATM |-> "atm", POS |-> "pos",
  WEB |-> "web", UPI |-> "UPI", CARD |-> "card", ACH |-> "ACH",
  WIRE_TRANSFER |-> "wire_transfer"]

\* feature_index_map_: the last line of that name, 0 if there is none.
FeatureIndex(columns, name) == Max({0} \cup {i \in DOMAIN columns : columns[i] = name})

\* A text that is not set.
NoText == ""

\* MUTANT: no column for an unknown value.
CategoricalIndexStrict(columns, group, value) ==
  FeatureIndex(columns, <<group, value>>)

\* set_categorical: the column of the value, else the one for no value.
CategoricalIndex(columns, group, value) ==
  LET own == FeatureIndex(columns, <<group, IF value = NoText THEN "nan" ELSE value>>)
  IN IF own # 0 THEN own ELSE FeatureIndex(columns, <<group, "nan">>)

HourOfDay(timestamp) == (timestamp % Day) \div Hour

\* tm_wday counts from Sunday, and the epoch was a Thursday.
DayOfWeek(timestamp) ==
  LET tm_wday == ((timestamp \div Day) + 4) % 7 IN (tm_wday + 6) % 7

\* The columns that are 1; stats and the two of the clock are in place by name.
CategoricalColumns(columns, message) ==
  {CategoricalIndex(columns, g,
     IF g \in FreeText THEN message[g] ELSE Suffix[message[g]]) : g \in Category} \ {0}

CreateFeatureVector(columns, message, numeric) ==
  [i \in DOMAIN columns |->
     LET name == columns[i][1] IN
     IF name \in DOMAIN numeric
     THEN IF i = FeatureIndex(columns, columns[i]) THEN numeric[name] ELSE 0
     ELSE IF i \in CategoricalColumns(columns, message) THEN 1 ELSE 0]

=============================================================================
