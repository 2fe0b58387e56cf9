------------------------------ MODULE BrokerDay ------------------------------
(***************************************************************************)
(* What the process does by the clock: the catch-up runs and daily runs of *)
(* the login and master schedulers, the sessions and instrument masters    *)
(* they keep on disk for each broker, the feeds that check the same files  *)
(* when they start, wait for the market to open, and pick contracts from   *)
(* what the files list.                                                    *)
(*                                                                         *)
(* Time is in slots; `Day' of them make a day, and local Indian time is    *)
(* `Ist' slots ahead of UTC.  Threads take their steps while time passes;  *)
(* `MaxRun' bounds how long one of them is at work.                        *)
(*                                                                         *)
(* Left out: what a live feed does with its ticks (BrokerFeed), logins by  *)
(* hand over the admin server, alerts, and the contents of the files       *)
(* except for the expiries of the options and for being whole.             *)
(***************************************************************************)
EXTENDS Integers, Sequences, FiniteSets, SequencesExt

CONSTANTS
    Setups,     \* configurations, each with the bounds of its clock
    Policies,   \* the market session of each configured exchange
    Day, Ist,   \* slots in a day, slots from UTC to local Indian time
    RunsAt,     \* time_ist of each scheduler
    Settle,     \* slot, in UTC, at which DELTA's options of a day settle
    Expiries,   \* expiry days of the options
    TokenLife,  \* slots until the token of a DB International login expires
    MaxRun,     \* bound on the slots a thread is at work without a pause
    MaxFaults,  \* bound on failed requests and kills
    None

Jobs == {"login", "master"}
Brokers == {"DB", "ANGEL", "FYERS", "DELTA"}

ASSUME DayAssumption ==
    /\ Setups \subseteq [brokers : Seq(Brokers), exchanges : SUBSET STRING,
                          weekdays : BOOLEAN, from : Nat, to : Nat]
    /\ \A e \in DOMAIN Policies : LET p == Policies[e] IN
          /\ p.offset \in {0, Ist} /\ {p.always, p.weekdays} \subseteq BOOLEAN
          /\ {p.open, p.close, p.before} \subseteq Nat
          /\ p.before <= p.open /\ p.open < p.close /\ p.close <= Day
    /\ {Day, Ist} \subseteq Nat /\ 0 < Ist /\ Ist < Day
    /\ RunsAt \in [Jobs -> Ist..(Day - 1)]  \* no run before midnight UTC: see the README
    /\ Settle \in 0..(Day - 1) /\ Expiries \subseteq Nat
    /\ {TokenLife, MaxRun} \subseteq Nat \ {0} /\ MaxRun < Day - 1
    /\ MaxFaults \in Nat

(* What a file is to the process: its Indian day and its day in UTC, the   *)
(* options it lists, whether it is whole, when its token ends.             *)
Contents == [ist : Nat, utc : Nat, lists : SUBSET Expiries, whole : BOOLEAN, expires : Nat]

ASSUME NoneAssumption == None \notin Int /\ None \notin Contents

UtcDay(t) == t \div Day
IstDay(t) == (t + Ist) \div Day
Weekday(d) == (d + 3) % 7 <= 4

(* The days searched for an opening or a run.                              *)
Fortnight(d) == d..(d + 13)

----------------------------------------------------------------------------
(* MarketSessionPolicy and MarketSessionSchedule.                          *)

LocalDay(p, t) == (t + p.offset) \div Day
LocalSecond(p, t) == (t + p.offset) % Day
ToUtc(p, d, second) == d * Day + second - p.offset

IsActive(p, t) ==
    /\ p.weekdays => Weekday(LocalDay(p, t))
    /\ p.always \/ LocalSecond(p, t) \in (p.open - p.before)..(p.close - 1)

(* The next opening searched by its closing day only.                      *)
Bug_NextOpen(p, t) ==
    LET days == {d \in Fortnight(LocalDay(p, t)) : p.weekdays => Weekday(d)}
        starts == {ToUtc(p, d, p.open) : d \in days}
    IN  IF p.always THEN t ELSE Min({s \in starts : s > t})

NextOpen(p, t) ==
    LET days == {d \in Fortnight(LocalDay(p, t)) :
                    (p.weekdays => Weekday(d)) /\ t < ToUtc(p, d, p.close)}
    IN  IF p.always THEN t
        ELSE IF days = {} THEN None
        ELSE Max({t, ToUtc(p, Min(days), p.open - p.before)})

(* An exchange nobody configured is always in session, and so is no        *)
(* exchange at all.                                                        *)
InSession(exchanges, t) ==
    \/ exchanges = {}
    \/ \E e \in exchanges : e \notin DOMAIN Policies \/ IsActive(Policies[e], t)

WakeTime(exchanges, t) ==
    LET opens == {NextOpen(Policies[e], t) : e \in exchanges} \ {None}
    IN  IF opens = {} THEN t + Day ELSE Max({t + 1, Min(opens)})

----------------------------------------------------------------------------
(* The files.                                                              *)

SessionNames(b) == CASE b = "DB" -> <<"market", "interactive">>
                     [] b = "ANGEL" -> <<"session">>
                     [] OTHER -> <<>>
MasterNames(b) == CASE b = "DB" -> <<"main", "index">>
                    [] b = "FYERS" -> <<"spot", "main">>
                    [] OTHER -> <<"main">>

Paths(b, names) == [i \in DOMAIN names |-> <<b, names[i]>>]
Sessions(b) == Paths(b, SessionNames(b))
Masters(b) == Paths(b, MasterNames(b))
Files == UNION {ToSet(Sessions(b)) \cup ToSet(Masters(b)) : b \in Brokers}
Names(j, b) == IF j = "login" THEN Sessions(b) ELSE Masters(b)

(* Masters that are written to their .tmp file while they are downloaded.  *)
Streamed == ToSet(Masters("FYERS")) \cup ToSet(Masters("DELTA"))

Threads == Jobs \cup Brokers

VARIABLES
    setup,      \* feed_brokers, exchanges of the FYERS catalog, weekdays_only
    now,        \* the clock
    main,       \* the scheduler the main thread is starting, then "feeds"
    thread,     \* both schedulers' threads and each broker's
    file,       \* each file: its days, its token's end, the options it lists, whole
    tmp,        \* .tmp files: the threads that have written into it
    catalog,    \* the options in the master a running feed has loaded
    picks,      \* expiries of the options a feed has subscribed
    failed,     \* observer: files the latest run of their scheduler gave up
    raced,      \* observer: the day a scheduler was at work when its run was due
    crowded,    \* observer: files downloaded by two threads at once
    faults

observers == <<failed, raced, crowded>>
vars == <<setup, now, main, thread, file, tmp, catalog, picks, observers, faults>>

Off == [pc |-> "off", queue |-> <<>>, todo |-> <<>>, until |-> 0, began |-> 0, answer |-> {}]

Init ==
    /\ setup \in Setups /\ now = setup.from /\ main = "login"
    /\ thread = [t \in Threads |-> Off]
    /\ file = [f \in Files |-> None] /\ tmp = [f \in Streamed |-> None]
    /\ catalog = [b \in Brokers |-> {}] /\ picks = [b \in Brokers |-> {}]
    /\ failed = {} /\ raced = [j \in Jobs |-> None] /\ crowded = {} /\ faults = 0

Configured == ToSet(setup.brokers)
JobFiles(j) == UNION {ToSet(Names(j, b)) : b \in Configured}

Set(t, record) == thread' = [thread EXCEPT ![t] = record]
Working(t) == thread[t].pc = "work"
Free(t) == Working(t) /\ thread[t].todo = <<>> /\ thread[t].queue = <<>>

Tick ==
    /\ now < setup.to /\ now' = now + 1
    /\ \A t \in Threads :
          /\ thread[t].pc \in {"work", "fetch", "write"} => now - thread[t].began < MaxRun
          /\ thread[t].pc = "asleep" => now < thread[t].until
    /\ UNCHANGED <<setup, main, thread, file, tmp, catalog, picks, observers, faults>>

----------------------------------------------------------------------------
(* Bringing files up to date: the same calls in the schedulers' jobs and   *)
(* at the start of a feed, one file after the other.                       *)

(* token_valid_at *)
Live(session) == session # None /\ now < session.expires

(* current_session, current_saved_session, master_file_current_today,      *)
(* is_fresh_for_epoch_day: logins and masters of the Indian brokers by the *)
(* Indian day, streamed masters by the day in UTC (which FYERS reads once  *)
(* for its masters, and here at each of them).                             *)
Current(f, t) ==
    /\ file[f] # None
    /\ IF f \in Streamed THEN file[f].utc >= UtcDay(t) ELSE file[f].ist = IstDay(t)
    /\ f \in ToSet(Sessions("DB")) => Live(file[f])

(* DB International's two masters are one check and one download.          *)
DbMasters == Masters("DB")
Pending(t, f) ==
    CASE t = "DB" -> TRUE
      [] f = DbMasters[1] -> ~(Current(f, now) /\ Current(DbMasters[2], now))
      [] f = DbMasters[2] -> TRUE
      [] OTHER -> ~Current(f, now)
Skipped(todo) == IF todo[1] = DbMasters[1] THEN SubSeq(todo, 3, Len(todo)) ELSE Tail(todo)

(* An unreadable session counts as none at DB International, whose files   *)
(* are renamed into place; it is an error at ANGEL, whose file is          *)
(* overwritten.                                                            *)
Unreadable(f) == f \in ToSet(Sessions("ANGEL")) /\ file[f] # None /\ ~file[f].whole

(* Options trade to the end of their expiry day, DELTA's to the settlement *)
(* hour, and are in the masters downloaded until then.                     *)
Alive(b, e, t) == IF b = "DELTA" THEN t < e * Day + Settle ELSE IstDay(t) <= e
Listed(b, t) == {e \in Expiries : Alive(b, e, t)}

(* What a download that starts now will hold.                              *)
Answer(f) == IF f[2] = "main" THEN Listed(f[1], now) ELSE {}

Fetching(f) == {t \in Threads : thread[t].pc = "fetch" /\ Head(thread[t].todo) = f}

(* A download that is taken up again where the last one was interrupted.   *)
Bug_Created(f, t) == IF tmp[f] = None THEN {t} ELSE tmp[f] \cup {t}

(* File::create truncates the .tmp file, whoever is writing to it.         *)
Created(f, t) == IF Fetching(f) = {} \/ tmp[f] = None THEN {t} ELSE tmp[f] \cup {t}

Check(t) ==
    /\ Working(t) /\ thread[t].todo # <<>>
    /\ LET f == Head(thread[t].todo) IN
       /\ ~Unreadable(f)
       /\ \/ /\ ~Pending(t, f)
             /\ Set(t, [thread[t] EXCEPT !.todo = Skipped(@)])
             /\ UNCHANGED <<tmp, crowded>>
          \/ /\ Pending(t, f)
             /\ Set(t, [thread[t] EXCEPT !.pc = "fetch", !.answer = Answer(f)])
             /\ tmp' = IF f \in Streamed THEN [tmp EXCEPT ![f] = Created(f, t)] ELSE tmp
             /\ crowded' = IF Fetching(f) # {} THEN crowded \cup {f} ELSE crowded
    /\ UNCHANGED <<setup, now, main, file, catalog, picks, failed, raced, faults>>

(* DB International's masters are asked for with the saved session, which  *)
(* the server accepts until its token expires.                             *)
Accepted(f) == f \in ToSet(DbMasters) => Live(file[<<"DB", "market">>])

Advanced(t) == Set(t, [thread[t] EXCEPT !.pc = "work", !.todo = Tail(@), !.answer = {}])

File(f, t, whole) ==
    [ist |-> IstDay(now), utc |-> UtcDay(now), lists |-> thread[t].answer, whole |-> whole,
     expires |-> IF f \in ToSet(Sessions("DB")) THEN now + TokenLife ELSE 0]

(* The answer is complete and renamed into place.                          *)
Fetched(t) ==
    /\ thread[t].pc = "fetch"
    /\ LET f == Head(thread[t].todo) IN
       /\ Accepted(f) /\ f \notin ToSet(Sessions("ANGEL"))
       /\ f \in Streamed => tmp[f] # None
       /\ file' = [file EXCEPT ![f] = File(f, t, f \in Streamed => tmp[f] = {t})]
       /\ tmp' = IF f \in Streamed THEN [tmp EXCEPT ![f] = None] ELSE tmp
    /\ Advanced(t)
    /\ UNCHANGED <<setup, now, main, catalog, picks, observers, faults>>

(* write_session_file of ANGEL: the file is truncated, then written.       *)
Truncate(t) ==
    /\ thread[t].pc = "fetch"
    /\ LET f == Head(thread[t].todo) IN
       /\ f \in ToSet(Sessions("ANGEL"))
       /\ file' = [file EXCEPT ![f] = File(f, t, FALSE)]
    /\ Set(t, [thread[t] EXCEPT !.pc = "write"])
    /\ UNCHANGED <<setup, now, main, tmp, catalog, picks, observers, faults>>

Write(t) ==
    /\ thread[t].pc = "write"
    /\ file' = [file EXCEPT ![Head(thread[t].todo)].whole = TRUE]
    /\ Advanced(t)
    /\ UNCHANGED <<setup, now, main, tmp, catalog, picks, observers, faults>>

(* The error of one broker ends the whole job.                             *)
Bug_After(t) == [thread[t] EXCEPT !.pc = IF t \in Jobs THEN "work" ELSE "down",
                                  !.queue = <<>>, !.todo = <<>>, !.answer = {}]

(* What is left of a call that failed: the job goes on with the next       *)
(* broker, a feed starts again.                                            *)
After(t) ==
    IF t \in Jobs THEN [thread[t] EXCEPT !.pc = "work", !.todo = <<>>, !.answer = {}]
    ELSE [Off EXCEPT !.pc = "down"]

GiveUp(t) ==
    /\ Set(t, After(t))
    /\ failed' = IF t \in Jobs THEN failed \cup ToSet(thread[t].todo) ELSE failed

Fails(t) ==
    /\ thread[t].todo # <<>>
    /\ LET f == Head(thread[t].todo)
           doomed == \/ Working(t) /\ Unreadable(f)
                     \/ thread[t].pc = "fetch" /\ ~Accepted(f)
                     \/ thread[t].pc = "fetch" /\ f \in Streamed /\ tmp[f] = None
       IN  /\ \/ doomed /\ UNCHANGED faults
              \/ /\ ~doomed /\ thread[t].pc = "fetch"
                 /\ faults < MaxFaults /\ faults' = faults + 1
           /\ GiveUp(t)
    /\ UNCHANGED <<setup, now, main, file, tmp, catalog, picks, raced, crowded>>

----------------------------------------------------------------------------
(* The schedulers.                                                         *)

RunDay(d) == setup.weekdays => Weekday(d)
RunTime(j, d) == d * Day + RunsAt[j] - Ist

(* should_run_catchup *)
MustCatchUp(j, t) == RunDay(IstDay(t)) /\ t >= RunTime(j, IstDay(t))

(* next_scheduled_utc_epoch *)
NextRun(j, t) ==
    LET days == {d \in Fortnight(IstDay(t)) : RunDay(d) /\ RunTime(j, d) > t}
    IN  IF days = {} THEN t + Day ELSE RunTime(j, Min(days))

Begin(j, queue) ==
    /\ Set(j, [Off EXCEPT !.pc = "work", !.queue = queue, !.began = now])
    /\ failed' = IF queue = <<>> THEN failed ELSE failed \ JobFiles(j)

(* The job takes one broker after the other.                               *)
TakeBroker(j) ==
    /\ Working(j) /\ thread[j].todo = <<>> /\ thread[j].queue # <<>>
    /\ Set(j, [thread[j] EXCEPT !.queue = Tail(@), !.todo = Names(j, Head(thread[j].queue))])
    /\ UNCHANGED <<setup, now, main, file, tmp, catalog, picks, observers, faults>>

(* The main thread runs the job at once if today's time has passed, and    *)
(* only then starts the thread and goes on.                                *)
CatchUp(j) ==
    /\ main = j /\ thread[j].pc = "off"
    /\ Begin(j, IF MustCatchUp(j, now) THEN setup.brokers ELSE <<>>)
    /\ raced' = [raced EXCEPT ![j] = None]
    /\ UNCHANGED <<setup, now, main, file, tmp, catalog, picks, crowded, faults>>

Spawn(j) ==
    /\ main = j /\ Free(j)
    /\ main' = IF j = "login" THEN "master" ELSE "feeds"
    /\ UNCHANGED <<setup, now, thread, file, tmp, catalog, picks, observers, faults>>

Started(j) == IF j = "login" THEN main # "login" ELSE main = "feeds"

Sleep(j) ==
    /\ Started(j) /\ Free(j)
    /\ Set(j, [Off EXCEPT !.pc = "asleep", !.until = Max({now + 1, NextRun(j, now)})])
    /\ LET due == RunTime(j, IstDay(now))
       IN  raced' = IF thread[j].began < due /\ due <= now
                    THEN [raced EXCEPT ![j] = IstDay(now)] ELSE raced
    /\ UNCHANGED <<setup, now, main, file, tmp, catalog, picks, failed, crowded, faults>>

Wake(j) ==
    /\ thread[j].pc = "asleep" /\ thread[j].until <= now
    /\ Begin(j, setup.brokers)
    /\ UNCHANGED <<setup, now, main, file, tmp, catalog, picks, raced, crowded, faults>>

----------------------------------------------------------------------------
(* The feeds.                                                              *)

(* What run_live brings up to date: DB International nothing, unless the   *)
(* socket rejects its token.                                               *)
Ensured(b) ==
    CASE b = "ANGEL" -> Sessions(b) \o Masters(b)
      [] b = "DB" -> IF Live(file[<<"DB", "market">>]) THEN <<>> ELSE <<<<"DB", "market">>>>
      [] OTHER -> Masters(b)

StartFeed(b) ==
    /\ main = "feeds" /\ b \in Configured /\ thread[b].pc \in {"off", "down"}
    /\ b = "DB" => \A f \in ToSet(DbMasters) \cup {<<"DB", "market">>} : file[f] # None
    /\ Set(b, [Off EXCEPT !.pc = "work", !.todo = Ensured(b), !.began = now])
    /\ UNCHANGED <<setup, now, main, file, tmp, catalog, picks, observers, faults>>

(* DB International and ANGEL load their master here, once; FYERS waits    *)
(* for a session first.                                                    *)
Connect(b) ==
    /\ b \in Brokers /\ Free(b)
    /\ IF b = "FYERS" /\ ~InSession(setup.exchanges, now)
       THEN Set(b, [Off EXCEPT !.pc = "asleep", !.until = WakeTime(setup.exchanges, now)])
       ELSE Set(b, [Off EXCEPT !.pc = "live"])
    /\ catalog' = [catalog EXCEPT ![b] = IF b \in {"DB", "ANGEL"} THEN file[<<b, "main">>].lists ELSE {}]
    /\ UNCHANGED <<setup, now, main, file, tmp, picks, observers, faults>>

WakeFeed(b) ==
    /\ b \in Brokers /\ thread[b].pc = "asleep" /\ thread[b].until <= now
    /\ Set(b, [Off EXCEPT !.pc = "live"])
    /\ UNCHANGED <<setup, now, main, file, tmp, catalog, picks, observers, faults>>

(* The nearest expiries of the master as it was loaded.                    *)
Bug_Selected(b) ==
    IF b \in {"DB", "ANGEL"} THEN {e \in catalog[b] : Cardinality({x \in catalog[b] : x < e}) < 2}
    ELSE file[<<b, "main">>].lists

Nearest(S) == {e \in S : Cardinality({x \in S : x < e}) < 2}

(* DB International and ANGEL take the two nearest expiries from today on, *)
(* DELTA what has not settled, FYERS all its master lists.                 *)
CurrentAndNext(b) == Nearest({e \in catalog[b] : IstDay(now) <= e})
Unsettled == {e \in file[<<"DELTA", "main">>].lists : Alive("DELTA", e, now)}
AllListed == file[<<"FYERS", "main">>].lists

Selected(b) ==
    CASE b \in {"DB", "ANGEL"} -> CurrentAndNext(b)
      [] b = "DELTA" -> Unsettled
      [] b = "FYERS" -> AllListed

(* The spot has moved far enough for a new universe.                       *)
Build(b) ==
    /\ thread[b].pc = "live"
    /\ picks' = [picks EXCEPT ![b] = Selected(b)]
    /\ UNCHANGED <<setup, now, main, thread, file, tmp, catalog, observers, faults>>

Drop(b) ==
    /\ b \in Brokers /\ thread[b].pc = "live"
    /\ Set(b, [Off EXCEPT !.pc = "down"])
    /\ picks' = [picks EXCEPT ![b] = {}] /\ catalog' = [catalog EXCEPT ![b] = {}]
    /\ UNCHANGED <<setup, now, main, file, tmp, observers, faults>>

(* The process is killed and started again.                                *)
Kill ==
    /\ faults < MaxFaults /\ faults' = faults + 1
    /\ main' = "login" /\ thread' = [t \in Threads |-> Off]
    /\ catalog' = [b \in Brokers |-> {}] /\ picks' = [b \in Brokers |-> {}]
    /\ UNCHANGED <<setup, now, file, tmp, observers>>

Done == now = setup.to /\ UNCHANGED vars

Next ==
    \/ Tick \/ Kill \/ Done
    \/ \E t \in Threads : Check(t) \/ Fetched(t) \/ Truncate(t) \/ Write(t) \/ Fails(t)
    \/ \E j \in Jobs : CatchUp(j) \/ TakeBroker(j) \/ Spawn(j) \/ Sleep(j) \/ Wake(j)
    \/ \E b \in Configured : StartFeed(b) \/ Connect(b) \/ WakeFeed(b) \/ Build(b) \/ Drop(b)

Spec == Init /\ [][Next]_vars

----------------------------------------------------------------------------
(* Properties.                                                             *)

(* While a feed sleeps no exchange of its catalog is in session, and when  *)
(* its sleep ends one is: next_open_utc finds the very moment is_active_at *)
(* turns true.  Not so where some session is always open on weekdays only, *)
(* whose next opening is always now.                                       *)
Spinning(exchanges) ==
    \E e \in exchanges : Policies[e].always /\ Policies[e].weekdays
FeedKeepsSession ==
    \A b \in Brokers : thread[b].pc = "asleep" =>
        /\ now < thread[b].until => ~InSession(setup.exchanges, now)
        /\ InSession(setup.exchanges, thread[b].until) \/ Spinning(setup.exchanges)

(* The scheduler sleeps after the run of this Indian day, which it did not *)
(* miss by being at work when the run was due.                             *)
RanToday(j) ==
    /\ thread[j].pc = "asleep" /\ now < thread[j].until
    /\ MustCatchUp(j, now) /\ raced[j] # IstDay(now)

(* Once its time of the day has passed and its thread sleeps again, every  *)
(* file of a scheduler is of this Indian day, but for those whose download *)
(* failed: whatever the process was doing, and however often it was        *)
(* killed, neither a failed broker, nor a file that looked fresh, nor a    *)
(* start late in the day leaves another broker without its session or its  *)
(* master.                                                                 *)
DayIsPrepared ==
    \A j \in Jobs : RanToday(j) =>
        \A f \in JobFiles(j) \ failed :
            file[f] # None /\ file[f].ist = IstDay(now)

(* A download that fails or dies with the process leaves the master of     *)
(* before, whole; only two threads downloading the same master at once     *)
(* write into each other's file.                                           *)
MasterIsWhole ==
    \A f \in Files : file[f] # None /\ ~file[f].whole =>
        f \in crowded \/ f \in ToSet(Sessions("ANGEL"))

(* No option that has expired is picked after the master run of the day,   *)
(* although the feeds of FYERS do not look at expiries, and although DB    *)
(* International and ANGEL loaded their masters when they started.         *)
PicksAreAlive ==
    [][\A b \in Brokers : picks'[b] # picks[b] /\ RanToday("master")
                            /\ <<b, "main">> \notin failed =>
            \A e \in picks'[b] : Alive(b, e, now)]_vars
=============================================================================
