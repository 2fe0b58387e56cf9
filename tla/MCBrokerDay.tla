----------------------------- MODULE MCBrokerDay -----------------------------
(* A Friday to a Monday of six slots a day.  NSE trades in the middle of   *)
(* the day, MCX to its end; the third exchange never closes on weekdays.   *)
EXTENDS BrokerDay

Session(open, close) == [offset |-> 1, open |-> open, close |-> close, before |-> 1,
                         always |-> FALSE, weekdays |-> TRUE]
MCPolicies ==
    [NSE |-> Session(4, 5), MCX |-> Session(4, 6),
     DELTA |-> [offset |-> 0, open |-> 0, close |-> 6, before |-> 0,
                always |-> TRUE, weekdays |-> TRUE]]

Setup(brokers, exchanges, weekdays, from, to) ==
    [brokers |-> brokers, exchanges |-> exchanges, weekdays |-> weekdays, from |-> from, to |-> to]

MCSetups == {
    Setup(<<"DB">>, {}, FALSE, 8, 14),
    Setup(<<"DELTA", "ANGEL">>, {}, FALSE, 8, 13),
    Setup(<<"FYERS">>, {"NSE", "MCX"}, FALSE, 8, 26),
    Setup(<<"FYERS">>, {"NSE", "DELTA"}, TRUE, 8, 26)}

MCRunsAt == [login |-> 1, master |-> 2]
=============================================================================
