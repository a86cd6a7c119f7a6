------------------------ MODULE MCTransactionHistory ------------------------
(* Small instances of TransactionHistory for TLC.                          *)
EXTENDS TransactionHistory, TLC

CONSTANTS t1, t2, t3, t4, t5, t6, a, b

Epoch(n) == [format |-> "epoch", wall |-> n, offset |-> 0]
Iso(wall, offset) == [format |-> "iso", wall |-> wall, offset |-> offset]

Categories(type, merchant, location, device, channel) ==
  [transaction_type |-> type, merchant_category |-> merchant, location |-> location,
   device_used |-> device, payment_channel |-> channel]

Post(id, account, timestamp, amount, categories) ==
  [id |-> id, account |-> account, timestamp |-> timestamp,
   amount |-> amount, categories |-> categories]

Tokyo == Categories("withdrawal", "grocery", "Tokyo", "mobile", "UPI")
Berlin == Categories("deposit", "", "Berlin", "atm", "card")
Paris == Categories("transfer", "toys", "Paris", "pos", "ACH")
NoPlace == Categories("payment", "nan", "", "web", "wire_transfer")

\* Ties, the two edges of a day, one id with two contents, another account,
\* and ISO texts with and without an offset.
MCPosted == {
  Post(t1, a, Epoch(20), 2, Tokyo),
  Post(t1, a, Epoch(24), 5, Tokyo),
  Post(t2, a, Epoch(23), 5, NoPlace),
  Post(t3, a, Epoch(23), 0, Berlin),
  Post(t4, a, Epoch(24), 3, Berlin),
  Post(t5, a, Iso(22, 0), 1, Tokyo),
  Post(t5, a, Iso(24, 3), 1, Tokyo),
  Post(t6, b, Epoch(21), 2, Paris)}

\* What the gateway sends.
MCIsoPosted == {
  Post(t1, a, Iso(20, 0), 2, Tokyo),
  Post(t2, a, Iso(23, 0), 5, Tokyo)}

\* The columns of stage2_xgb_final_columns.txt, with two of the locations and
\* of the merchant categories; and a file without a column for no location,
\* with a name that comes twice.
MCColumns == {
  << <<"amount", "">>, <<"time_since_last_transaction", "">>,
     <<"spending_deviation_score", "">>, <<"velocity_score", "">>,
     <<"geo_anomaly_score", "">>, <<"hour_of_day", "">>, <<"day_of_week", "">>,
     <<"transaction_type", "deposit">>, <<"transaction_type", "payment">>,
     <<"transaction_type", "transfer">>, <<"transaction_type", "withdrawal">>,
     <<"transaction_type", "nan">>, <<"merchant_category", "grocery">>,
     <<"merchant_category", "travel">>, <<"merchant_category", "nan">>,
     <<"location", "Berlin">>, <<"location", "Tokyo">>, <<"location", "nan">>,
     <<"device_used", "atm">>, <<"device_used", "mobile">>, <<"device_used", "pos">>,
     <<"device_used", "web">>, <<"device_used", "nan">>,
     <<"payment_channel", "ACH">>, <<"payment_channel", "UPI">>,
     <<"payment_channel", "card">>, <<"payment_channel", "wire_transfer">>,
     <<"payment_channel", "nan">> >>,
  << <<"location", "Tokyo">>, <<"amount", "">>, <<"location", "Paris">>,
     <<"location", "Tokyo">> >> }

=============================================================================
