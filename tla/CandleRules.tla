----------------------------- MODULE CandleRules -----------------------------
(***************************************************************************)
(* The rules of the alerts that are judged by closed candles and stay      *)
(* active: AlertManager::checkCandleAlerts and its eval*Locked functions,  *)
(* for one alert of one kind.                                              *)
(*                                                                         *)
(* Candles come one by one, now and then the last one again.  Prices are   *)
(* abstracted to what a candle does: which levels it sweeps, on which side *)
(* the structure breaks, whether it closes through the start of the run.   *)
(* Every change of the alert is queued for the database as a whole row,    *)
(* with the alert as it was before, which comes back when the write fails; *)
(* a trigger is told once its row is written.  The delivery settings of    *)
(* the user may hold a trigger back.  Time is counted in base candles: the *)
(* 5m ones of sweep_confirm, the 1m ones of hour_sweep_cisd.               *)
(***************************************************************************)
EXTENDS Integers, Sequences, FiniteSets

CONSTANTS
    Kinds,          \* kinds of alert to look at
    Window,         \* kSweepConfirmWindow
    Gap,            \* kSweepConfirmGapSec, in candles
    Hour,           \* candles of an hour
    Session,        \* candles of a forex day
    Steps,          \* the intervals of a structure_session alert, in candles, shortest first
    Swings,         \* identities of hourly swings
    LastCandle, MaxQueue, MaxFailures, MaxCrashes   \* bounds

VARIABLES
    kind, alert,
    row,            \* the alert in the table
    queue,          \* writes on their way: the alert before and after, and what to tell of it
    candle,         \* the newest candle judged, by the time it closed
    told,           \* history: the triggers reported
    held,           \* history: a trigger was held back for the delivery settings
    crossed,        \* history: a write failed while a later one was on its way
    lost,           \* history: a change of the alert did not reach the table
    failures, crashes

rules == <<kind, alert, row, queue, candle, told, held, crossed, lost, failures, crashes>>

Sides == {"bear", "bull"}
Opposite(d) == IF d = "bear" THEN "bull" ELSE "bear"
None == "none"
Fresh == [last |-> 0, eval |-> 0,                 \* triggeredAt, lastEvaluatedCandleTime
          dir |-> None, at |-> 0, run |-> FALSE, bars |-> 0,  \* pendingDir, SweepAt, RunOpen, Bars
          swept |-> [d \in Sides |-> 0],          \* sweptHighAt, sweptLowAt
          session |-> 1, step |-> 1, stepAt |-> -1, fired |-> 0,
          since |-> 0]                            \* history: the candle of the sweep

RulesInit == /\ kind \in Kinds /\ alert = Fresh /\ row = Fresh /\ queue = <<>>
             /\ candle = 0 /\ told = {}
             /\ held = FALSE /\ crossed = FALSE /\ lost = FALSE /\ failures = 0 /\ crashes = 0

-----------------------------------------------------------------------------
(* The sweep kinds *)

HourOf(c) == (c - 1) \div Hour + 1

Cleared(a) == [a EXCEPT !.dir = None, !.at = 0, !.run = FALSE, !.bars = 0, !.since = 0]
Arm(a, d, at, c) == [a EXCEPT !.dir = d, !.at = at, !.run = TRUE, !.bars = 1, !.since = c]

\* tryFire: the sweep is used up, and nothing is fired within the gap.
NeverTooSoon(a, c) == FALSE                               \* mutant: no gap
TooSoon(a, c) == a.last # 0 /\ c < a.last + Gap
Fire(a, c) == IF TooSoon(a, c) THEN Cleared(a) ELSE [Cleared(a) EXCEPT !.last = c]
Verdict(a, fired, of) == [alert |-> a, fired |-> fired, dir |-> of.dir, since |-> of.since]

\* evalSweepConfirmLocked: what is pending is counted on and given up after the window ...
CountBars(a, c) == IF a.dir = None \/ a.at \in {0, c} THEN a
                   ELSE IF a.bars + 1 > Window THEN Cleared(a) ELSE [a EXCEPT !.bars = @ + 1]
\* ... given up when the structure breaks the other way, and fires when it is confirmed; then
\* the candle may sweep a level itself and be its own confirmation.
Confirmed(a, x) == a.dir \in x.breaks \/ (a.dir # None /\ a.run /\ x.cisd)
EvalSweepConfirm(a0, c, x) ==
    LET a1 == CountBars(a0, c)
        broken == a1.dir # None /\ Opposite(a1.dir) \in x.breaks
        yes == ~broken /\ Confirmed(a1, x)
        fired == yes /\ ~TooSoon(a1, c)
        a2 == IF broken THEN Cleared(a1) ELSE IF yes THEN Fire(a1, c) ELSE a1
        sides == {d \in Sides : x.level[d] # 0 /\ x.level[d] # a2.swept[d]}
        d == IF "bear" \in sides THEN "bear" ELSE "bull"
        a3 == [Arm(a2, d, c, c) EXCEPT !.swept[d] = x.level[d]]
        now == d \in x.breaks \/ x.cisdNew
    IN IF sides = {} \/ fired THEN Verdict(a2, fired, a1)
       ELSE Verdict(IF now THEN Fire(a3, c) ELSE a3, now /\ ~TooSoon(a3, c), a3)

\* evalHourSweepCisdLocked: what is pending ends with its hour, and each side is armed once an
\* hour, by the level of the hour before.
AnySides(a, h, x) == {d \in Sides : x.level[d] # 0}       \* mutant: a side is armed over and over
FreshSides(a, h, x) == {d \in Sides : x.level[d] # 0 /\ a.swept[d] # h}
PastHour(a, h) == IF a.at \notin {0, h} THEN Cleared(a) ELSE a
EvalHourSweep(a0, c, x) ==
    LET h == HourOf(c)
        a1 == PastHour(a0, h)
        yes == a1.dir # None /\ a1.run /\ x.cisd
        fired == yes /\ ~TooSoon(a1, c)
        a2 == IF yes THEN Fire(a1, c) ELSE a1
        sides == FreshSides(a2, h, x)
        d == IF sides = Sides THEN x.side ELSE IF "bear" \in sides THEN "bear" ELSE "bull"
        a3 == [Arm(a2, d, h, c) EXCEPT !.swept[d] = h]
    IN IF sides = {} \/ fired THEN Verdict(a2, fired, a1)
       ELSE Verdict(IF x.cisdNew THEN Fire(a3, c) ELSE a3, x.cisdNew /\ ~TooSoon(a3, c), a3)

-----------------------------------------------------------------------------
(* evalStructureSessionLocked: steps on longer and longer candles, one trigger a session *)

SessionOf(start) == start \div Session + 1
Rolled(a, s) == IF s > a.session THEN [a EXCEPT !.session = s, !.step = 1, !.stepAt = -1] ELSE a
\* i is the interval of the candle, which began at start.
Matches(a, start, i, x) == /\ a.fired # a.session /\ a.step = i
                           /\ start > a.stepAt /\ x.match
EvalSession(a0, start, i, x) ==
    LET a1 == Rolled(a0, SessionOf(start))
        last == i = Len(Steps)
        a2 == [a1 EXCEPT !.stepAt = start, !.step = i + 1]
    IN CASE SessionOf(start) < a0.session -> Verdict(a0, FALSE, a0)
         [] SessionOf(start) >= a0.session /\ ~Matches(a1, start, i, x) -> Verdict(a1, FALSE, a1)
         [] SessionOf(start) >= a0.session /\ Matches(a1, start, i, x) ->
              Verdict(IF last THEN [a2 EXCEPT !.fired = a1.session, !.last = start] ELSE a2, last, a1)

\* evalCandle2ClosureLocked: one candle that sweeps one side of the one before and closes back.
EvalCandle2(a, c, x) == Verdict(IF x.match THEN [a EXCEPT !.dir = x.side, !.last = c] ELSE a, x.match, a)

-----------------------------------------------------------------------------
(* checkCandleAlerts *)

\* The part of a candle that a kind looks at.
Facts ==
    CASE kind = "sweep_confirm" ->
           [breaks : {{}, {"bear"}, {"bull"}}, level : [Sides -> Swings \cup {0}], cisd : BOOLEAN, cisdNew : BOOLEAN,
            side : {"bear"}, match : {FALSE}]
      [] kind = "hour_sweep_cisd" ->
           [breaks : {{}}, level : [Sides -> {0, 1}], cisd : BOOLEAN, cisdNew : BOOLEAN,
            side : Sides, match : {FALSE}]
      [] OTHER ->
           [breaks : {{}}, level : {[d \in Sides |-> 0]}, cisd : {FALSE}, cisdNew : {FALSE},
            side : {"bear"}, match : BOOLEAN]

\* Each candle is judged once; the sessions have stepAt instead.
Judged(c) == kind # "structure_session" /\ alert.eval = c
Eval(c, i, x) ==
    LET a == [alert EXCEPT !.eval = c]
    IN CASE kind = "sweep_confirm" -> EvalSweepConfirm(a, c, x)
         [] kind = "hour_sweep_cisd" -> EvalHourSweep(a, c, x)
         [] kind = "structure_session" -> EvalSession(alert, c - Steps[i], i, x)
         [] kind = "candle2_closure" -> EvalCandle2(a, c, x)

\* A trigger that may not be delivered is held back: some of the alert is as it was before.
HoldBack(a, before) == [a EXCEPT !.last = before.last, !.dir = before.dir, !.since = before.since]
Report(v, c) == [at |-> c, dir |-> v.dir, since |-> v.since, session |-> v.alert.session]
Quiet == [at |-> 0, dir |-> None, since |-> 0, session |-> 0]

\* A candle that closes step i, and what the rules can make of it.
Verdicts(c, i) == {Eval(c, i, x) : x \in Facts}
CheckCandle(c, i) ==
    /\ c \in {candle, candle + 1} /\ 1 <= c /\ c <= LastCandle
    /\ c % Steps[i] = 0 /\ (kind # "structure_session" => i = 1)
    /\ Len(queue) < MaxQueue
    /\ candle' = c
    /\ IF Judged(c) THEN UNCHANGED <<alert, queue, held>>
       ELSE \E v \in Verdicts(c, i), allowed \in BOOLEAN :
            LET after == IF allowed THEN v.alert ELSE HoldBack(v.alert, alert)
            IN /\ v.fired \/ allowed
               /\ alert' = after
               /\ queue' = IF [after EXCEPT !.eval = alert.eval] = alert /\ kind # "candle2_closure" THEN queue
                           ELSE Append(queue, [before |-> alert, after |-> after,
                                               report |-> IF v.fired /\ allowed THEN Report(v, c) ELSE Quiet])
               /\ held' = (held \/ ~allowed)
    /\ UNCHANGED <<kind, row, told, crossed, lost, failures, crashes>>

\* persistAlertThen, on the worker of the database.
Write == /\ queue # <<>>
         /\ row' = Head(queue).after
         /\ told' = IF Head(queue).report = Quiet THEN told ELSE told \cup {Head(queue).report}
         /\ queue' = Tail(queue)
         /\ UNCHANGED <<kind, alert, candle, held, crossed, lost, failures, crashes>>
Fail == /\ queue # <<>> /\ failures < MaxFailures
        /\ failures' = failures + 1
        /\ alert' = Head(queue).before
        /\ queue' = Tail(queue)
        /\ crossed' = (crossed \/ Len(queue) > 1) /\ lost' = TRUE
        /\ UNCHANGED <<kind, row, candle, told, held, crashes>>

Restart == /\ crashes < MaxCrashes /\ crashes' = crashes + 1
           /\ alert' = row /\ queue' = <<>>
           /\ lost' = (lost \/ queue # <<>>)
           /\ UNCHANGED <<kind, row, candle, told, held, crossed, failures>>

RulesNext == \/ Write \/ Fail \/ Restart
             \/ \E c \in 1..LastCandle, i \in DOMAIN Steps : CheckCandle(c, i)
RulesSpec == RulesInit /\ [][RulesNext]_rules

-----------------------------------------------------------------------------
(* Properties *)

\* What the proofs assume of the constants.
FourKinds == {"sweep_confirm", "hour_sweep_cisd", "structure_session", "candle2_closure"}
RulesConstants ==
    /\ Kinds \subseteq FourKinds
    /\ Window \in Nat \ {0} /\ Gap \in Nat /\ Hour \in Nat \ {0} /\ Session \in Nat \ {0}
    /\ Steps \in Seq(Nat \ {0}) /\ Steps # <<>>
    /\ Swings \subseteq Nat \ {0}
    /\ {LastCandle, MaxQueue, MaxFailures, MaxCrashes} \subseteq Nat

AlertType == [last : 0..LastCandle, eval : 0..LastCandle, dir : Sides \cup {None},
              at : 0..LastCandle, run : BOOLEAN, bars : 0..Window,
              swept : [Sides -> Nat], session : Nat, step : 1..Len(Steps) + 1,
              stepAt : Int, fired : Nat, since : 0..LastCandle]
\* Every variable keeps its type.
RulesTypeOK ==
    /\ kind \in Kinds /\ alert \in AlertType /\ row \in AlertType
    /\ Len(queue) <= MaxQueue
    /\ \A n \in DOMAIN queue : queue[n].before \in AlertType /\ queue[n].after \in AlertType
    /\ candle \in 0..LastCandle /\ held \in BOOLEAN /\ crossed \in BOOLEAN /\ lost \in BOOLEAN
    /\ failures \in 0..MaxFailures /\ crashes \in 0..MaxCrashes

SweepKinds == {"sweep_confirm", "hour_sweep_cisd"}
\* No two triggers of a sweep alert are reported within the gap, whatever is judged again
\* after a restart, unless a failed write brought an older alert back over a newer one.
GapKept == kind \in SweepKinds /\ ~crossed =>
             \A s, t \in told : s # t => s.at >= t.at + Gap \/ t.at >= s.at + Gap

Age(t) == t.at - t.since + 1
\* A sweep is confirmed within the window of candles, or not at all, as long as no trigger was
\* held back and no write was lost.
InWindow == kind = "sweep_confirm" /\ ~held /\ ~lost => \A t \in told : Age(t) <= Window

\* An hourly sweep is confirmed in its own hour, held back or lost or not.
InItsHour == kind = "hour_sweep_cisd" => \A t \in told : HourOf(t.since) = HourOf(t.at)

\* Each side of an hour is good for one report, through restarts and failed writes that did
\* not overtake one another.
SideOnce == kind = "hour_sweep_cisd" /\ ~crossed =>
              \A s, t \in told : HourOf(s.since) = HourOf(t.since) /\ s.dir = t.dir => s = t

\* A session alert reports once in a session, through restarts and failed writes that did not
\* overtake one another.
SessionOnce == kind = "structure_session" /\ ~crossed =>
                 \A s, t \in told : s.session = t.session => s = t

\* No alert of these kinds reports the same candle twice, although candles come again and
\* writes are lost, if none overtakes a failed one.
CandleOnce == ~crossed => \A s, t \in told : s.at = t.at => s = t

\* Reports come in their time: after the gap, in the window, in the hour,
ReportsInTime == RulesTypeOK /\ GapKept /\ InWindow /\ InItsHour
\* and once: for a side, for a session, for a candle.
ReportsOnce == SideOnce /\ SessionOnce /\ CandleOnce
=============================================================================
