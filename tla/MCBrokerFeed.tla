---------------------------- MODULE MCBrokerFeed ----------------------------
(* Small instances of BrokerFeed.  ANGEL closes and opens an exchange      *)
(* while the spot moves, FYERS gets two messages in a frame, DELTA fails   *)
(* twice in different ways.  DELTA and ANGEL have a Telegram sink, FYERS   *)
(* has none, and the alerts of DB International are below the minimum.     *)
EXTENDS BrokerFeed

MCMaxMoves == [b \in Brokers |-> IF b = "ANGEL" THEN 2 ELSE 1]
MCMaxNet == [b \in Brokers |-> IF b = "FYERS" THEN 2 ELSE 1]
MCErrors == [b \in Brokers |-> IF b = "DELTA" THEN {"config", "transient"} ELSE {"config"}]
MCNotifier == [b \in Brokers |->
                  CASE b = "FYERS" -> "no_sink" [] b = "DB" -> "muted" [] OTHER -> "sink"]
MCMaxFaults == [b \in Brokers |-> IF b = "DELTA" THEN 2 ELSE 1]
=============================================================================
