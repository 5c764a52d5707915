---------------------------- MODULE FairValueGaps ----------------------------
(***************************************************************************)
(* The fair value gap pipeline of one pair and timeframe: BarAggregator    *)
(* makes bars of the ticks, FVGWarmupCoordinator fetches the bars made     *)
(* before, FVGService queues both for its worker thread, FVGDetector looks *)
(* at three bars in a row, and FVGRegistry keeps the gaps that price has   *)
(* not come back to.                                                       *)
(*                                                                         *)
(* The clock counts moments, so many to a minute, each with a tick or      *)
(* without; the broker sees them all, the process may come in the middle   *)
(* of a minute.  A bar is a bucket of minutes with its low and high.  The  *)
(* broker's buckets begin base moments later than those of the clock,      *)
(* which the aggregator learns from the bar that is still forming.         *)
(***************************************************************************)
EXTENDS Integers, Sequences, FiniteSets, SequencesExt, FiniteSetsExt

CONSTANTS
    Tapes,          \* the courses price may take: a price for each moment, 0 for none
    Minute,         \* moments of a minute
    Size, Offsets,  \* moments of a bucket, and where the broker's may begin
    MaxQueue,       \* bars FVGService queues
    MaxZones,       \* maxUnmitigatedPerTimeframe
    MaxFaults       \* bound: failed requests, restarts and lost connections together

\* What the proofs assume of the constants.
GapsConstants ==
    /\ Tapes \subseteq Seq(Nat)
    /\ Minute \in Nat \ {0} /\ Size \in Nat \ {0} /\ \E k \in 1..Size : Size = k * Minute
    /\ Offsets \subseteq 0..(Size - 1) /\ \A off \in Offsets : \E k \in 0..off : off = k * Minute
    /\ MaxQueue \in Nat /\ MaxZones \in Nat \ {0} /\ MaxFaults \in Nat

VARIABLES
    clock, tape,    \* the moment it is, and the course it runs through
    base,           \* where the broker's buckets begin
    online,         \* the connection to the broker
    m1,             \* running1mTicks_: where the minute begins, low, high; NoM1
    bar,            \* runningHtfBars_: bucket, low, high, partial; NoBar
    offset,         \* bucketOffsets_
    queue,          \* bars on their way to the worker
    series,         \* the detector's last three bars
    zones,          \* the registry: no two gaps are of one bar
    history,        \* "cold", "asked" (in queuedKeys_), "done"
    answer,         \* the bars the broker answers with, oldest first
    told,           \* history: the gaps reported, and whether something was then lost
    joined,         \* history: of the first minute, which is running or in the bar, only the
                    \* later ticks were seen
    lost,           \* history: since the start a tick, a bar or the alignment was missed, or a
                    \* bar that was joined in its first minute taken for whole
    faults          \* failed requests, restarts and lost connections

gaps == <<clock, tape, base, online, m1, bar, offset, queue, series, zones, history, answer, told,
          joined, lost, faults>>

NoBar == [at |-> -1]
NoM1 == [at |-> -1]
Nothing == <<>>
quotes == SubSeq(tape, 1, clock)         \* what the broker has seen

MinuteOf(m) == (m \div Minute) * Minute
\* bucketStartFor: where the bucket begins, by the floor.
StartFor(m, off) == ((m - off) \div Size) * Size + off
\* What the broker's bar of a bucket is, from the quotes in q.
In(start, q) == {q[m] : m \in {n \in DOMAIN q : q[n] # 0 /\ start <= n /\ n < start + Size}}
BarOf(start, q) == [at |-> start, low |-> Min(In(start, q)), high |-> Max(In(start, q)), partial |-> FALSE]
Starts(q) == {StartFor(m, base) : m \in {n \in DOMAIN q : q[n] # 0}}
\* The broker's bars: one for each quote that is the first of its bucket.
Opens(m, q) == q[m] # 0 /\ \A n \in 1..(m - 1) : q[n] # 0 => StartFor(n, base) # StartFor(m, base)
BrokerBars(q) ==
    LET made[m \in 0..Len(q)] == IF m = 0 THEN <<>>
                                 ELSE IF Opens(m, q) THEN Append(made[m - 1], BarOf(StartFor(m, base), q))
                                 ELSE made[m - 1]
    IN made[Len(q)]

Empty == /\ m1 = NoM1 /\ bar = NoBar /\ offset = 0 /\ queue = <<>> /\ series = <<>> /\ zones = {}
         /\ history = "cold" /\ answer = Nothing /\ joined = FALSE /\ lost = FALSE
GapsInit == /\ clock = 0 /\ tape \in Tapes /\ base \in Offsets /\ online = FALSE /\ told = <<>> /\ Empty
            /\ faults = 0

-----------------------------------------------------------------------------
(* BarAggregator, and the queue of FVGService *)

Tagged(b, warmup) == [at |-> b.at, low |-> b.low, high |-> b.high, partial |-> b.partial, warmup |-> warmup]
\* enqueueBar drops what comes when the queue is full.
EnqueueBars(bars, missed) ==
    LET all == queue \o bars
    IN /\ queue' = IF Len(all) > MaxQueue THEN SubSeq(all, 1, MaxQueue) ELSE all
       /\ lost' = (lost \/ missed \/ Len(all) > MaxQueue)

\* process1mClosedBarLocked: the first bucket is known to be whole only when its first minute
\* was seen; later ones are taken as they are.
NeverPartial(start, m) == FALSE                           \* mutant: half a bucket is as good
Partial(start, m) == m # start
Started(start, b, partial) == [at |-> start, low |-> b.low, high |-> b.high, partial |-> partial]
Least(x, y) == IF x <= y THEN x ELSE y
Most(x, y) == IF x >= y THEN x ELSE y
Merged(b, m) == [b EXCEPT !.low = Least(@, m.low), !.high = Most(@, m.high)]
MinuteClosed(b) ==
    LET start == StartFor(b.at, offset)
    IN IF bar = NoBar THEN bar' = Started(start, b, Partial(start, b.at)) /\ UNCHANGED <<queue, joined, lost>>
       ELSE IF bar.at = start THEN bar' = Merged(bar, b) /\ UNCHANGED <<queue, joined, lost>>
       ELSE /\ bar' = Started(start, b, FALSE) /\ joined' = FALSE
            /\ EnqueueBars(<<Tagged(bar, FALSE)>>, (offset # base \/ joined) /\ ~bar.partial)

\* onTick: the first tick, one more of the minute, or one that ends it.
OneTick(price) == [at |-> MinuteOf(clock + 1), low |-> price, high |-> price]
OnTick(t) ==
    IF m1 = NoM1 THEN /\ m1' = t
                      /\ joined' = (bar = NoBar /\ \E n \in DOMAIN quotes : t.at <= n /\ quotes[n] # 0)
                      /\ UNCHANGED <<bar, queue, lost>>
    ELSE IF m1.at = t.at THEN m1' = Merged(m1, t) /\ UNCHANGED <<bar, queue, joined, lost>>
    ELSE m1' = t /\ MinuteClosed(m1)

\* Missing the ticks before the first one seen or asked for is no loss.
Begun == m1 # NoM1 \/ bar # NoBar \/ history # "cold"
\* A moment passes, with or without a tick, which is taken when there is a connection.
Moment ==
    /\ clock < Len(tape) /\ clock' = clock + 1
    /\ LET p == tape[clock + 1]
       IN IF p = 0 THEN UNCHANGED <<m1, bar, queue, joined, lost>>
          ELSE IF online THEN OnTick(OneTick(p))
          ELSE lost' = (lost \/ Begun) /\ UNCHANGED <<m1, bar, queue, joined>>
    /\ UNCHANGED <<tape, base, online, offset, series, zones, history, answer, told, faults>>

-----------------------------------------------------------------------------
(* FVGWarmupCoordinator *)

\* startWarmup and warmupSymbolTimeframe: a key is asked for once, and again when that failed.
AsksHistory == online /\ history = "cold" /\ history' = "asked" /\ UNCHANGED online
StartWarmup == /\ AsksHistory /\ answer' = BrokerBars(quotes)
               /\ UNCHANGED <<clock, tape, base, m1, bar, offset, queue, series, zones, told,
                              joined, lost, faults>>

\* seedForming: the broker's forming bar aligns the buckets and completes the running one.
Seeded(b, old) ==
    IF old = NoBar \/ old.at < b.at THEN b
    ELSE IF old.at = b.at THEN [Merged(old, b) EXCEPT !.partial = FALSE]
    ELSE old
\* The answer: bars that are over by now go to the detector, the one that is not is the seed.
OverBy(start) == start + Size <= clock
Forms(bars) == bars # <<>> /\ ~OverBy(Last(bars).at)
Ended(bars) == IF Forms(bars) THEN Front(bars) ELSE bars
\* The prices of the moments before m that a bar should have.
Covers(b, m) == \A n \in DOMAIN quotes : quotes[n] # 0 /\ b.at <= n /\ n < m => quotes[n] \in b.low..b.high
\* A bar has ended since the answer was made; or a minute has, in bars that are now realigned.
Overtaken == \/ Ended(answer) # Ended(BrokerBars(quotes))
             \/ Forms(answer) /\ offset # base /\ m1 # NoM1 /\ ~Covers(Last(answer), m1.at)
KeyKept == "kept"                                         \* mutant: a failed key is not asked for again
KeyErased == "cold"
HistoryComes == history = "asked" /\ history' = "done" /\ UNCHANGED online
WarmupDone ==
    /\ HistoryComes /\ answer' = Nothing
    /\ EnqueueBars([n \in DOMAIN Ended(answer) |-> Tagged(Ended(answer)[n], TRUE)], Overtaken)
    /\ IF Forms(answer) THEN /\ offset' = base /\ joined' = FALSE
                             /\ bar' = Seeded(Last(answer), IF offset = base THEN bar ELSE NoBar)
       ELSE UNCHANGED <<bar, offset, joined>>
    /\ UNCHANGED <<clock, tape, base, m1, series, zones, told, faults>>
WarmupFailed ==
    /\ history = "asked" /\ faults < MaxFaults /\ faults' = faults + 1
    /\ history' = KeyErased /\ answer' = Nothing
    /\ UNCHANGED <<clock, tape, base, online, m1, bar, offset, queue, series, zones, told, joined, lost>>

-----------------------------------------------------------------------------
(* The worker: FVGService::processCompletedBar *)

Zone(b1, b3) == IF b1.high < b3.low THEN {[at |-> b3.at, bottom |-> b1.high, top |-> b3.low, bull |-> TRUE]}
                ELSE IF b1.low > b3.high THEN {[at |-> b3.at, bottom |-> b3.high, top |-> b1.low, bull |-> FALSE]}
                ELSE {}
LastThree(s) == IF Len(s) > 3 THEN Tail(s) ELSE s
\* onClosedBar drops what is not newer than the last bar.
Fits(b) == ~b.partial /\ (series = <<>> \/ b.at > Last(series).at)
SeriesWith(b) == IF b.partial THEN <<>> ELSE IF Fits(b) THEN LastThree(Append(series, b)) ELSE series
Found(b, s) == IF Fits(b) /\ Len(s) = 3 THEN Zone(s[1], s[3]) ELSE {}
Known(z) == \E y \in zones : y.at = z.at
\* registerZone, with the oldest pruned, and checkMitigation.
Newest(S) == IF Cardinality(S) > MaxZones THEN {z \in S : \E y \in S : y.at < z.at} ELSE S
Filled(z, b) == b.at > z.at /\ (IF z.bull THEN b.low <= z.bottom ELSE b.high >= z.top)
Mitigate(S, b) == {z \in S : ~Filled(z, b)}
Work == /\ queue # <<>>
        /\ LET b == Head(queue)
               new == {z \in Found(b, SeriesWith(b)) : ~Known(z)}
           IN /\ series' = SeriesWith(b)
              /\ zones' = Mitigate(Newest(zones \cup new), b)
              /\ \/ (b.warmup \/ new = {}) /\ UNCHANGED told
                 \/ ~b.warmup /\ \E z \in new : told' = Append(told, [zone |-> z, lost |-> lost])
        /\ queue' = Tail(queue)
        /\ UNCHANGED <<clock, tape, base, online, m1, bar, offset, history, answer, joined, lost,
                       faults>>

-----------------------------------------------------------------------------
(* The world *)

\* A restart keeps only what was told.
StartAgain ==
    /\ faults < MaxFaults /\ faults' = faults + 1
    /\ m1' = NoM1 /\ bar' = NoBar /\ offset' = 0 /\ queue' = <<>> /\ series' = <<>> /\ zones' = {}
    /\ history' = "cold" /\ answer' = Nothing /\ joined' = FALSE /\ lost' = FALSE
    /\ online' = FALSE
    /\ UNCHANGED <<clock, tape, base, told>>
\* A lost connection fails what was asked for; nothing is fetched again when it is back.
GoOffline ==
    /\ online /\ faults < MaxFaults /\ faults' = faults + 1 /\ online' = FALSE
    /\ history' = IF history = "asked" THEN KeyErased ELSE history
    /\ answer' = Nothing
    /\ UNCHANGED <<clock, tape, base, m1, bar, offset, queue, series, zones, told, joined, lost>>
BackOnline == ~online /\ online' = TRUE /\ UNCHANGED history
ComeOnline == /\ BackOnline
              /\ UNCHANGED <<clock, tape, base, m1, bar, offset, queue, series, zones, answer, told,
                             joined, lost, faults>>

GapsNext == \/ Moment
            \/ StartWarmup \/ WarmupDone \/ WarmupFailed \/ Work
            \/ StartAgain \/ GoOffline \/ ComeOnline

\* The link comes back, the timer of the watched pairs asks, answers come: one at a time can.
GapsFair == WF_<<online, history>>(BackOnline \/ AsksHistory \/ HistoryComes)
GapsSpec == GapsInit /\ [][GapsNext]_gaps /\ GapsFair

-----------------------------------------------------------------------------
(* Properties *)

\* Every variable keeps its type.
GapsTypeOK ==
    /\ tape \in Tapes /\ base \in Offsets /\ clock \in 0..Len(tape) /\ online \in BOOLEAN
    /\ Len(queue) <= MaxQueue /\ Len(series) <= 3 /\ Cardinality(zones) <= MaxZones
    /\ history \in {"cold", "asked", "done"} /\ offset \in {0, base}
    /\ joined \in BOOLEAN /\ lost \in BOOLEAN
    /\ faults \in 0..MaxFaults

\* What the detector sees as a whole bar is the bar of the broker, although the process may
\* start in the middle of one and history and ticks overlap, unless a tick or a bar was
\* missed, an answer was overtaken, or the process came in the middle of a bar's first minute
\* and no history told it the rest before the bar was over.
BarsAreWhole == ~lost => \A n \in DOMAIN series : series[n] = Tagged(BarOf(series[n].at, quotes), series[n].warmup)

\* A gap that is reported is one between neighbouring bars of the broker, of its size and
\* direction.
RealGap(z) == \E s \in Starts(quotes) :
                 /\ z \in Zone(BarOf(s, quotes), BarOf(z.at, quotes))
                 /\ Cardinality({t \in Starts(quotes) : s < t /\ t < z.at}) = 1
GapsAreReal == [][\A n \in DOMAIN told' \ DOMAIN told : ~lost => RealGap(told'[n].zone)]_gaps

\* No gap in the registry is one that a later bar has filled, as far as the detector has come,
\* whatever was missed.
ZonesAreOpen == \A z \in zones : \A n \in DOMAIN series : ~Filled(z, series[n])

\* A gap is reported at most once, by restarts and history, too, unless something was missed
\* when it was first reported: a minute from before a lost connection ends the bar that the
\* seed has just begun, and the gap its half shows is found again after a restart.
ReportedOnce == \A n \in DOMAIN told : \A m \in 1..(n - 1) :
                    told[m].zone.at = told[n].zone.at => told[m].lost

\* History is fetched in the end, whatever failed before.
WarmedInTheEnd == <>[](history = "done")

\* Bars are whole, zones are open, gaps are reported once.
GapsKept == GapsTypeOK /\ BarsAreWhole /\ ZonesAreOpen /\ ReportedOnce
=============================================================================
