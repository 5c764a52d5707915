---------------------------- MODULE CandleMonitor ----------------------------
(***************************************************************************)
(* CandleAlertMonitor for one pair and interval: how closed candles are    *)
(* found among live trendbars, price ticks, the clock, warm-ups and the    *)
(* poll, and handed to the alerts once.                                    *)
(*                                                                         *)
(* Bars are numbered; bar n is open while the clock shows n.  Two loops    *)
(* work on the one mutex: "eval" runs the spot updates and the flush of    *)
(* every second, "link" the callbacks of the cTrader connection, and a     *)
(* third, "worker", only the sync of the subscriptions, as "link" does     *)
(* when a connection is ready.  A bar taken under the mutex is judged      *)
(* after it is let go.                                                     *)
(***************************************************************************)
EXTENDS Integers, Sequences, SequencesExt

CONSTANTS
    Shut,           \* bars during which the market is shut
    MaxInFlight,    \* kMaxInFlight
    LastBar, MaxWarms, MaxPolls, MaxUpsets             \* bounds

VARIABLES
    now,            \* the bar that is open
    needed,         \* an active alert wants the candles
    isReady,        \* CTraderClient::isReady
    subbed,         \* subscribed_ has the key
    track,          \* BarTrack: openMinutes and lastEmittedOpenMinutes, 0 for none;
                    \* history: the bar taken last for judgement
    sync,           \* where the sync of a loop is
    busy,           \* bars a loop has taken and has yet to judge
    warm,           \* warmQueue_ has the key, warmInFlight_, the requests on their way
    cache,          \* warmCache_: the last bar of the answer, and when it came
    polls,          \* polls on their way: the last bar of each
    judged,         \* history: bars judged
    missed,         \* history: open bars thrown away, or passed off as history
    warms, polled,
    upsets          \* bounded: lost connections and changes of mind

monitor == <<now, needed, isReady, subbed, track, sync, busy, warm, cache, polls, judged, missed,
             warms, polled, upsets>>

Syncing == {"worker", "link"}
Judging == {"eval", "link"}
NoTrack == [open |-> 0, emitted |-> 0, taken |-> 0]

MonitorInit ==
    /\ now = 1 /\ needed = FALSE /\ isReady = TRUE /\ subbed = FALSE
    /\ track = NoTrack /\ sync = [l \in Syncing |-> "idle"]
    /\ busy = [l \in Judging |-> <<>>]
    /\ warm = [queued |-> FALSE, inFlight |-> 0, asked |-> <<>>]
    /\ cache = [last |-> 0, at |-> 0] /\ polls = <<>>
    /\ judged = {} /\ missed = {}
    /\ warms = 0 /\ polled = 0 /\ upsets = 0

MarketOpen == now \notin Shut
Idle(l) == busy[l] = <<>> /\ (l \in Syncing => sync[l] = "idle")

-----------------------------------------------------------------------------
(* Bars *)

Unjudged(t) == IF t.open > t.emitted THEN {t.open} ELSE {}
\* The open bar is taken for judgement, unless it was before.
EmitOpen(t) == IF t.open > t.emitted THEN <<t.open>> ELSE <<>>
Larger(a, b) == IF a > b THEN a ELSE b
Emitted(t) == Larger(t.emitted, t.open)

Take(l, bars, t) == /\ busy' = [busy EXCEPT ![l] = @ \o bars]
                    /\ track' = IF bars = <<>> THEN t ELSE [t EXCEPT !.taken = Head(bars)]

\* processSpotTick, and processLiveTrendbar of a bar that is open: what came before is closed.
Advance(b) ==
    IF b > track.emitted /\ b > track.open
    THEN Take("eval", EmitOpen(track), [track EXCEPT !.emitted = Emitted(track), !.open = b])
    ELSE UNCHANGED <<track, busy>>
Rest == <<now, needed, isReady, subbed, sync, warm, cache, polls, judged, missed, warms, polled, upsets>>
\* An update may lie behind the clock by one bar.
SpotTick(b) == /\ isReady /\ Idle("eval") /\ subbed /\ b \in {now - 1, now} \ Shut /\ b > 0
               /\ Advance(b) /\ UNCHANGED Rest
\* The trendbar of the bar that is tracked, known to have closed, closes it.
Trendbar(b) == /\ isReady /\ Idle("eval") /\ subbed /\ b \in {now - 1, now} \ Shut /\ b > 0
               /\ IF b = track.open /\ b > track.emitted /\ b < now
                  THEN Take("eval", <<b>>, [track EXCEPT !.emitted = b, !.open = 0])
                  ELSE Advance(b)
               /\ UNCHANGED Rest

\* flushClosedBars, every second.
DueAtOnce(t) == t.open > t.emitted                        \* mutant: before the bar is over
Due(t) == t.open > t.emitted /\ t.open < now
Flushes == /\ MarketOpen /\ Idle("eval") /\ subbed /\ Due(track)
           /\ Take("eval", EmitOpen(track), [track EXCEPT !.emitted = track.open, !.open = 0])
Flush == /\ Flushes
         /\ UNCHANGED Rest

\* evaluateCandles, outside of the mutex.
Judges(l) == busy[l] # <<>> /\ busy' = [busy EXCEPT ![l] = Tail(@)]
Evaluate(l) == /\ Judges(l) /\ judged' = judged \cup {Head(busy[l])}
               /\ UNCHANGED <<now, needed, isReady, subbed, track, sync, warm, cache, polls, missed,
                              warms, polled, upsets>>

-----------------------------------------------------------------------------
(* Warm-ups *)

\* applyWarmupBars of an answer that ends with bar b: closed bars are history, never judged,
\* and the open one is followed.
Over(b) == IF b < now THEN b ELSE b - 1
Warmed(b) ==
    LET e == Larger(track.emitted, Over(b))
    IN [track EXCEPT !.emitted = e, !.open = IF b = now THEN Larger(@, b) ELSE @]
Swallowed(b) == {n \in Unjudged(track) : n <= Over(b)}
\* pumpWarm: asks when less than MaxInFlight are on their way; without a connection the
\* request fails at once, and the job is gone.
AskedFor(w) == IF isReady THEN [queued |-> FALSE, inFlight |-> w.inFlight + 1, asked |-> Append(w.asked, now)]
               ELSE [w EXCEPT !.queued = FALSE]
Pump(w) == IF w.queued /\ w.inFlight < MaxInFlight THEN AskedFor(w) ELSE w
CacheHit == cache.at = now
\* enqueueWarm; the cache may also be too old by the minute.
Enqueue == \/ /\ CacheHit /\ cache.last > 0
              /\ warm' = warm /\ UNCHANGED warms
              /\ IF subbed' THEN track' = Warmed(cache.last) /\ missed' = missed \cup Swallowed(cache.last)
                            ELSE UNCHANGED <<track, missed>>
           \/ /\ warms < MaxWarms /\ warms' = warms + 1
              /\ warm' = Pump([warm EXCEPT !.queued = TRUE]) /\ UNCHANGED <<track, missed>>

Fetched(w) == [w EXCEPT !.inFlight = IF @ > 0 THEN @ - 1 ELSE 0]
Answered == /\ warm.asked # <<>> /\ Idle("link")
            /\ warm' = Pump(Fetched([warm EXCEPT !.asked = Tail(@)]))
WarmAnswer(ok) ==
    /\ Answered
    /\ LET b == Head(warm.asked)
       IN IF ok
          THEN /\ cache' = [last |-> b, at |-> now]
               /\ IF subbed THEN track' = Warmed(b) /\ missed' = missed \cup Swallowed(b)
                            ELSE UNCHANGED <<track, missed>>
          ELSE UNCHANGED <<cache, track, missed>>
    /\ UNCHANGED <<now, needed, isReady, subbed, sync, busy, polls, judged, warms, polled, upsets>>

\* pollFallback asks for the last bars, and judges the newest closed one if it is new; it does
\* so for a pair that is not subscribed, too.
PollAsk == /\ isReady /\ MarketOpen /\ needed /\ polled < MaxPolls
           /\ polls' = Append(polls, now) /\ polled' = polled + 1
           /\ UNCHANGED <<now, needed, isReady, subbed, track, sync, busy, warm, cache, judged, missed,
                          warms, upsets>>
\* A structure track that is still short takes the answer for a warm-up first.
PollAnswer(ok, short) ==
    /\ polls # <<>> /\ Idle("link") /\ polls' = Tail(polls)
    /\ LET b == Over(Head(polls))
       IN IF ok /\ short /\ subbed
          THEN /\ track' = Warmed(Head(polls)) /\ UNCHANGED busy
               /\ missed' = missed \cup Swallowed(Head(polls))
          ELSE IF ok /\ b > track.emitted
          THEN /\ Take("link", <<b>>, [track EXCEPT !.emitted = b])
               /\ missed' = missed \cup {n \in Unjudged(track) : n < b}
          ELSE UNCHANGED <<track, missed, busy>>
    /\ UNCHANGED <<now, needed, isReady, subbed, sync, warm, cache, judged, warms, polled, upsets>>

-----------------------------------------------------------------------------
(* Subscriptions *)

\* syncSubscriptions decides under the mutex ...
Decides(l) == /\ isReady /\ MarketOpen /\ sync[l] = "idle" /\ (l \in Judging => busy[l] = <<>>)
              /\ needed # subbed
              /\ sync' = [sync EXCEPT ![l] = IF needed THEN "add" ELSE "remove"]
Decide(l) ==
    /\ Decides(l)
    /\ UNCHANGED <<now, needed, isReady, subbed, track, busy, warm, cache, polls, judged, missed,
                   warms, polled, upsets>>
GoesOn(l) == sync[l] # "idle" /\ sync' = [sync EXCEPT ![l] = IF @ = "add" THEN "warm" ELSE "idle"]
\* ... and acts under it again; a track it starts anew forgets the bar that was open.
Add(l) == /\ sync[l] = "add" /\ GoesOn(l)
          /\ subbed' = TRUE /\ track' = NoTrack /\ missed' = missed \cup Unjudged(track)
          /\ UNCHANGED <<now, needed, isReady, busy, warm, cache, polls, judged, warms, polled, upsets>>
AskWarm(l) == /\ sync[l] = "warm" /\ GoesOn(l)
              /\ UNCHANGED subbed /\ Enqueue
              /\ UNCHANGED <<now, needed, isReady, busy, cache, polls, judged, polled, upsets>>
\* No more warm-ups are looked at.
NoWarm(l) == /\ sync[l] = "warm" /\ warms = MaxWarms /\ GoesOn(l)
             /\ UNCHANGED <<now, needed, isReady, subbed, track, busy, warm, cache, polls, judged, missed,
                            warms, polled, upsets>>
StillThere == subbed                                      \* mutant: what is not needed stays
Forgotten == FALSE
Withdraw(l) == /\ sync[l] = "remove" /\ GoesOn(l)
             /\ subbed' = Forgotten /\ track' = NoTrack /\ missed' = missed \cup Unjudged(track)
             /\ UNCHANGED <<now, needed, isReady, busy, warm, cache, polls, judged, warms, polled, upsets>>
\* A track with too few candles is warmed again.
Rewarm == /\ isReady /\ MarketOpen /\ sync["worker"] = "idle" /\ needed /\ subbed
          /\ UNCHANGED subbed /\ Enqueue
          /\ UNCHANGED <<now, needed, isReady, sync, busy, cache, polls, judged, polled, upsets>>

-----------------------------------------------------------------------------
(* The world *)

AlertsChange == /\ upsets < MaxUpsets /\ upsets' = upsets + 1 /\ needed' = ~needed
                /\ UNCHANGED <<now, isReady, subbed, track, sync, busy, warm, cache, polls, judged, missed,
                               warms, polled>>
\* onConnectionReady(false): the requests have failed before.
Drop == /\ isReady /\ upsets < MaxUpsets /\ Idle("link")
        /\ isReady' = FALSE /\ upsets' = upsets + 1
        /\ subbed' = FALSE /\ track' = NoTrack /\ missed' = missed \cup Unjudged(track)
        /\ warm' = [queued |-> FALSE, inFlight |-> 0, asked |-> <<>>] /\ polls' = <<>>
        /\ UNCHANGED <<now, needed, sync, busy, cache, judged, warms, polled>>
LinkUp == ~isReady /\ isReady' = TRUE
Ready == /\ LinkUp
         /\ UNCHANGED <<now, needed, subbed, track, sync, busy, warm, cache, polls, judged, missed,
                        warms, polled, upsets>>
Ticks == now < LastBar /\ now' = now + 1
Clock == /\ Ticks
         /\ UNCHANGED <<needed, isReady, subbed, track, sync, busy, warm, cache, polls, judged, missed,
                        warms, polled, upsets>>

MonitorNext ==
    \/ Flush \/ PollAsk \/ Rewarm \/ AlertsChange \/ Drop \/ Ready \/ Clock
    \/ \E b \in 1..LastBar : SpotTick(b) \/ Trendbar(b)
    \/ \E ok \in BOOLEAN : WarmAnswer(ok) \/ \E short \in BOOLEAN : PollAnswer(ok, short)
    \/ \E l \in Judging : Evaluate(l)
    \/ \E l \in Syncing : Decide(l) \/ Add(l) \/ AskWarm(l) \/ NoWarm(l) \/ Withdraw(l)

\* The timers of the eval loop and of the worker run, loops go on with what they hold, a lost
\* connection comes back and time passes.
MonitorFair ==
    /\ WF_<<track, busy>>(Flushes) /\ WF_now(Ticks) /\ WF_isReady(LinkUp)
    /\ \A l \in Judging : WF_busy(Judges(l))
    /\ \A l \in Syncing : WF_sync(GoesOn(l))
    /\ WF_sync(Decides("worker")) /\ WF_warm(Answered)
MonitorSpec == MonitorInit /\ [][MonitorNext]_monitor /\ MonitorFair

-----------------------------------------------------------------------------
(* Properties *)

\* What the proofs assume of the constants.
MonitorConstants == MaxInFlight \in Nat /\ LastBar \in Nat \ {0}

Bars == 1..LastBar
\* Every variable keeps its type.
MonitorTypeOK ==
    /\ now \in Bars /\ needed \in BOOLEAN /\ isReady \in BOOLEAN /\ subbed \in BOOLEAN
    /\ track \in [open : 0..LastBar, emitted : 0..LastBar, taken : 0..LastBar]
    /\ sync \in [Syncing -> {"idle", "add", "warm", "remove"}]
    /\ \A l \in Judging : ToSet(busy[l]) \subseteq Bars
    /\ warm.queued \in BOOLEAN /\ warm.inFlight \in 0..MaxInFlight /\ ToSet(warm.asked) \subseteq Bars
    /\ cache \in [last : 0..LastBar, at : 0..LastBar] /\ ToSet(polls) \subseteq Bars
    /\ judged \subseteq Bars /\ missed \subseteq Bars

\* No bar is judged before it is over, whatever tick, trendbar, clock or answer showed it.
OverWhenJudged == \A l \in Judging : \A b \in ToSet(busy[l]) : b < now

\* Between two resets of the track its bars are taken in order and each once, although two
\* loops, the flush, the poll and the warm-ups all find the same bar closed.
TakenOnce == [][\A l \in Judging : Len(busy'[l]) > Len(busy[l]) => Last(busy'[l]) > track.taken]_monitor

\* No more history is asked for at a time than allowed, but for what a lost connection forgot.
PlacesKept == Len(warm.asked) = warm.inFlight

\* A bar that was followed is judged in the end, without another tick, be it after the days the
\* market is shut, unless the track was reset or an answer has already counted it as past.
BarsAreJudged == \A b \in Bars : track.open = b /\ b < LastBar
                                   ~> b \in judged \/ b \in missed

\* The key is subscribed in the end exactly when it is needed, however syncs of two loops,
\* alerts and connections cross, if the market is open then.
SubscribedAsNeeded == <>[](subbed = needed)

\* Bars are over when they are judged, and warm-ups keep to their limit.
MonitorKept == MonitorTypeOK /\ OverWhenJudged /\ PlacesKept
=============================================================================
