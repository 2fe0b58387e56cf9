----------------------------- MODULE FormedBars -----------------------------
(***************************************************************************)
(* What SharedTimeframeEngine promises of the bars it forms of the ticks   *)
(* of one instrument, whatever it does to form them (TimeframeEngine):     *)
(* stated of the ticks a timeframe has heard, the bars on_tick has         *)
(* announced, the bar that is forming, and what the EMA and the state of   *)
(* a strategy have seen.                                                   *)
(***************************************************************************)
EXTENDS Integers, Sequences, FiniteSetsExt

CONSTANTS
    Ssus,       \* ids of the rows of strategy_ssu
    TimeframeOf \* the length of the bars each requires

VARIABLES
    series,     \* EngineState.bars: current bar and ends of the closed ones
    indicator,  \* EngineState.indicators: bars applied, last_closed_at
    active,     \* active_ssus
    states,     \* AdaptiveSupertrendState: the bars an active SSU's has processed
    settled,    \* observer: the last reload succeeded, and nothing was stored meanwhile
    heard,      \* observer: the ticks of each timeframe while it was required
    announced   \* observer: the bars on_tick said it closed

Timeframes == {TimeframeOf[s] : s \in Ssus}

(* bucket_bounds: buckets are counted from the anchor of the alignment.    *)
StartOf(tf, at) == (at \div tf) * tf

(* A bar that on_tick closes has the open, high, low and close of the ticks *)
(* of its bucket in the order they came, without those that came after a   *)
(* later bucket had begun.                                                 *)
BarsAreTheirTicks ==
    \A tf \in Timeframes : \A n \in DOMAIN announced[tf] :
        LET bar == announced[tf][n]
            start(k) == StartOf(tf, heard[tf][k].at)
            mine == {k \in DOMAIN heard[tf] :
                        start(k) = bar.start /\ \A j \in 1..k : start(j) <= start(k)}
            prices == {heard[tf][k].price : k \in mine}
        IN  /\ mine # {}
            /\ bar.open = heard[tf][Min(mine)].price
            /\ bar.close = heard[tf][Max(mine)].price
            /\ bar.high = Max(prices) /\ bar.low = Min(prices)

(* Bars are announced once, in order and without overlap, and the one that *)
(* is forming is later than all of them: whatever ticks come late, and     *)
(* whichever reloads stop and resume a timeframe.                          *)
AnnouncedInOrder ==
    \A tf \in Timeframes :
        /\ \A n \in 2..Len(announced[tf]) :
               announced[tf][n - 1].end <= announced[tf][n].start
        /\ announced[tf] # <<>> =>
               announced[tf][Len(announced[tf])].end <= series[tf].current.start

(* After a successful reload, during which nothing was stored, the newest  *)
(* closed bar of a timeframe has been applied to the EMA and processed by  *)
(* the indicator state of every active SSU, although the series may repeat *)
(* bars or have an older one last.  (No tick is late by as many bars as    *)
(* are kept.)                                                              *)
NewestIsApplied ==
    settled =>
        \A s \in active :
            LET closed == series[TimeframeOf[s]].closed
                newest == Max({closed[k] : k \in DOMAIN closed})
                applied == indicator[s].applied
            IN  closed # <<>> =>
                    /\ \E k \in DOMAIN applied : applied[k] = newest
                    /\ states[s] # <<>> /\ states[s][Len(states[s])] = newest
=============================================================================
