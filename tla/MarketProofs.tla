---------------------------- MODULE MarketProofs ----------------------------
(***************************************************************************)
(* What holds of the two parts that live on prices, for any pairs, lengths *)
(* of window, gap, hour and session, intervals and bounds.  They share no  *)
(* state: each has an invariant and theorems of its own.                   *)
(*                                                                         *)
(* MarketFeed loses no wakeup and implements QuoteBox.                     *)
(* PendingIsServed alone is not inductive: schedulePriceEval queues nothing*)
(* while the flag is up, so the invariant has to say what a raised flag    *)
(* stands for, namely an evaluation that is queued or has not yet lowered  *)
(* it.  An evaluation about to check has lowered it, so a flag raised at   *)
(* that point belongs to a queued one.                                     *)
(*                                                                         *)
(* The alerts of CandleRules report in time and once.  Every kind counts   *)
(* its triggers by marks that only go up, from the row over the writes on  *)
(* their way to the alert in the cache, and a trigger stands above the     *)
(* marks it began from: so what is told later stands elsewhere.            *)
(***************************************************************************)
EXTENDS MarketFeed, CandleRules, SequenceTheorems, TLAPS

-----------------------------------------------------------------------------
(* The hand-over of quotes.                                                 *)

\* A raised flag has an evaluation behind it that will still look at pendingQuotes.
FlagIsBacked == evalScheduled => \/ evalTasks > 0
                                 \/ evalAt \in {"take", "eval", "clear"}

\* Only an evaluation holds a batch.
BatchIsHeld == evalAt # "eval" => batch = Nothing

IInv == TypeOK /\ PendingIsServed /\ FlagIsBacked /\ BatchIsHeld

USE DEF Sinks

\* Writing prices over prices gives prices.
LEMMA OverlayType ==
    ASSUME NEW old \in [Pairs -> Prices], NEW new \in [Pairs -> Prices]
    PROVE  Overlay(old, new) \in [Pairs -> Prices]
BY DEF Overlay, Box!Overlay

\* "No price" is a price for every pair.
LEMMA NothingType == Nothing \in [Pairs -> Prices]
BY FeedAssumption DEF Nothing, Prices

\* The hub starts with empty hands.
LEMMA InitIInv == Init => IInv
<1> SUFFICES ASSUME Init
             PROVE  IInv
  OBVIOUS
<1>1. TypeOK
  BY NothingType DEF Init, TypeOK
<1>2. PendingIsServed /\ FlagIsBacked /\ BatchIsHeld
  BY DEF Init, PendingIsServed, FlagIsBacked, BatchIsHeld
<1> QED
  BY <1>1, <1>2 DEF IInv

\* What a spot, a tick or a change of the market does leaves the hand-over alone.
LEMMA HubKeeps ==
    ASSUME IInv, (\E p \in Pairs : OnSpot(p)) \/ Tick \/ Toggle
    PROVE  IInv'
<1> USE FeedAssumption DEF IInv
<1>1. CASE \E p \in Pairs : OnSpot(p)
  <2> PICK p \in Pairs : OnSpot(p)
    BY <1>1
  <2>1. price' \in [Pairs -> Prices]
    BY DEF OnSpot, TypeOK, Prices
  <2>2. [Nothing EXCEPT ![p] = price'[p]] \in [Pairs -> Prices]
    BY <2>1, NothingType
  <2>3. TypeOK'
    BY <2>1, <2>2 DEF OnSpot, Offer, TypeOK, sinks, eval
  <2>4. PendingIsServed' /\ FlagIsBacked' /\ BatchIsHeld'
    BY DEF OnSpot, Offer, TypeOK, PendingIsServed, FlagIsBacked, BatchIsHeld, sinks, eval
  <2> QED
    BY <2>3, <2>4
<1>2. CASE Tick
  BY <1>2 DEF Tick, Offer, TypeOK, PendingIsServed, FlagIsBacked, BatchIsHeld, hub, eval
<1>3. CASE Toggle
  <2>1. TypeOK'
    <3>1. open' \in BOOLEAN /\ ready' \in BOOLEAN
      BY <1>3, Zenon DEF Toggle, TypeOK
    <3>2. toggles' \in Nat
      BY <1>3 DEF Toggle, TypeOK
    <3> QED
      BY <1>3, <3>1, <3>2 DEF Toggle, TypeOK, sinks, eval
  <2>2. PendingIsServed' /\ FlagIsBacked' /\ BatchIsHeld'
    BY <1>3 DEF Toggle, PendingIsServed, FlagIsBacked, BatchIsHeld, sinks, eval
  <2> QED
    BY <2>1, <2>2
<1> QED
  BY <1>1, <1>2, <1>3

\* A sink that puts quotes down is bound to raise the flag; raising it queues an
\* evaluation unless one that will look again is there.
LEMMA SinkKeeps ==
    ASSUME IInv, NEW s \in Sinks, Sink(s)
    PROVE  IInv'
<1> USE FeedAssumption DEF IInv
<1>1. CASE Put(s)
  <2>1. Overlay(pendingQuotes, offer[s]) \in [Pairs -> Prices]
    BY OverlayType DEF TypeOK
  <2>2. TypeOK'
    BY <1>1, <2>1, NothingType DEF Put, TypeOK, hub, eval
  <2>3. PendingIsServed' /\ FlagIsBacked' /\ BatchIsHeld'
    BY <1>1 DEF Put, TypeOK, PendingIsServed, FlagIsBacked, BatchIsHeld, hub, eval
  <2> QED
    BY <2>2, <2>3
<1>2. CASE Schedule(s)
  BY <1>2 DEF Schedule, TypeOK, PendingIsServed, FlagIsBacked, BatchIsHeld, hub, eval
<1> QED
  BY <1>1, <1>2 DEF Sink

\* An evaluation ends only after it has seen pendingQuotes empty with the flag down.
LEMMA EvaluatorKeeps ==
    ASSUME IInv, Evaluator
    PROVE  IInv'
<1> USE FeedAssumption DEF IInv
<1>1. CASE StartEval
  BY <1>1 DEF StartEval, TypeOK, PendingIsServed, FlagIsBacked, BatchIsHeld, hub, sinks
<1>2. CASE Take
  <2>1. TypeOK'
    BY <1>2, NothingType DEF Take, TypeOK, hub, sinks
  <2>2. PendingIsServed' /\ FlagIsBacked' /\ BatchIsHeld'
    BY <1>2 DEF Take, TypeOK, PendingIsServed, FlagIsBacked, BatchIsHeld, hub, sinks
  <2> QED
    BY <2>1, <2>2
<1>3. CASE Evaluate
  <2>1. Overlay(seen, batch) \in [Pairs -> Prices]
    BY OverlayType DEF TypeOK
  <2>2. TypeOK'
    BY <1>3, <2>1, NothingType DEF Evaluate, TypeOK, hub, sinks
  <2>3. PendingIsServed' /\ FlagIsBacked' /\ BatchIsHeld'
    BY <1>3 DEF Evaluate, TypeOK, PendingIsServed, FlagIsBacked, BatchIsHeld, hub, sinks
  <2> QED
    BY <2>2, <2>3
<1>4. CASE Clear
  BY <1>4 DEF Clear, TypeOK, PendingIsServed, FlagIsBacked, BatchIsHeld, hub, sinks
<1>5. CASE Check
  <2>1. CASE pendingQuotes = Nothing
    BY <1>5, <2>1 DEF Check, TypeOK, PendingIsServed, FlagIsBacked, BatchIsHeld, hub, sinks
  <2>2. CASE pendingQuotes # Nothing
    BY <1>5, <2>2 DEF Check, TypeOK, PendingIsServed, FlagIsBacked, BatchIsHeld, hub, sinks
  <2> QED
    BY <2>1, <2>2
<1> QED
  BY <1>1, <1>2, <1>3, <1>4, <1>5 DEF Evaluator

\* Every step, and every stutter, keeps the invariant.
LEMMA NextIInv == IInv /\ [Next]_vars => IInv'
<1> SUFFICES ASSUME IInv, [Next]_vars
             PROVE  IInv'
  OBVIOUS
<1>1. CASE Next
  BY <1>1, HubKeeps, SinkKeeps, EvaluatorKeeps DEF Next
<1>2. CASE UNCHANGED vars
  BY <1>2 DEF vars, hub, sinks, eval, IInv, TypeOK, PendingIsServed, FlagIsBacked, BatchIsHeld
<1> QED
  BY <1>1, <1>2

\* The inductive invariant holds in every behaviour of the feed.
THEOREM Invariance == Spec => []IInv
BY InitIInv, NextIInv, PTL DEF Spec

\* Every variable of the feed keeps its type.
THEOREM TypeCorrect == Spec => []TypeOK
<1>1. IInv => TypeOK
  BY DEF IInv
<1> QED
  BY <1>1, Invariance, PTL

\* schedulePriceEval and the evaluation loop lose no wakeup: quotes that wait have an
\* evaluation that runs, is queued, or is about to be queued.
THEOREM NoLostWakeup == Spec => []PendingIsServed
<1>1. IInv => PendingIsServed
  BY DEF IInv
<1> QED
  BY <1>1, Invariance, PTL

\* The sinks, the flag and the evaluation loop together do nothing but what the box
\* of QuoteBox does: put prices in, take all of them at once, evaluate them.
THEOREM Implements == Spec => Box!Spec
<1>1. Init => Box!Init
  BY DEF Init, Box!Init, Nothing, Box!Nothing
<1>2. IInv /\ [Next]_vars => [Box!Next]_(Box!boxVars)
  <2> SUFFICES ASSUME IInv, [Next]_vars
               PROVE  Box!Next \/ UNCHANGED Box!boxVars
    OBVIOUS
  <2>1. ASSUME NEW s \in Sinks, Put(s)
        PROVE  Box!Put
    <3>1. offer[s] \in [Pairs -> Box!Prices]
      BY DEF IInv, TypeOK, Prices, Box!Prices
    <3> QED
      BY <2>1, <3>1 DEF Put, Box!Put, Overlay, eval
  <2>2. ASSUME Take
        PROVE  Box!Take \/ UNCHANGED Box!boxVars
    BY <2>2 DEF Take, Box!Take, Nothing, Box!Nothing, Box!boxVars, IInv, BatchIsHeld
  <2>3. ASSUME Evaluate
        PROVE  Box!Evaluate \/ UNCHANGED Box!boxVars
    BY <2>3 DEF Evaluate, Box!Evaluate, Nothing, Box!Nothing, Box!boxVars
  <2>4. ASSUME (\E p \in Pairs : OnSpot(p)) \/ Tick \/ Toggle \/ (\E s \in Sinks : Schedule(s))
                  \/ StartEval \/ Clear \/ Check \/ UNCHANGED vars
        PROVE  UNCHANGED Box!boxVars
    BY <2>4 DEF OnSpot, Tick, Toggle, Schedule, StartEval, Clear, Check, vars, eval, Box!boxVars
  <2> QED
    BY <2>1, <2>2, <2>3, <2>4 DEF Next, Sink, Evaluator, Box!Next
<1> QED
  BY <1>1, <1>2, Invariance, PTL DEF Spec, Box!Spec

-----------------------------------------------------------------------------
(* The rules of the candles (CandleRules).                                  *)

\* What the triggers of each kind are counted by.
MarksOf(k) == CASE k = "structure_session" -> {"fired"}
                [] k = "sweep_confirm"     -> {"eval", "last"}
                [] k = "hour_sweep_cisd"   -> {"eval", "last", "bear", "bull"}
                [] k = "candle2_closure"   -> {"eval"}

\* How far an alert is by such a mark, and where a report stands: it comes after all that
\* its mark has counted before, and is counted with what its write leaves behind.
Mark(a, m) == CASE m = "eval"  -> a.eval
                [] m = "last"  -> a.last
                [] m = "fired" -> a.fired
                [] m \in Sides -> 2 * a.swept[m] + (IF a.run /\ a.dir = m THEN 0 ELSE 1)
Place(t, m) == CASE m \in {"eval", "last"} -> t.at
                 [] m = "fired" -> t.session
                 [] m \in Sides -> 2 * HourOf(t.since) + 1
Counts(k, t) == {m \in MarksOf(k) : m \in Sides => t.dir = m}
Forward(k, a, b) == \A m \in MarksOf(k) : Mark(a, m) <= Mark(b, m)

\* What holds of an alert of kind k wherever it is kept, by candle c; ok: nothing was held
\* back or lost.
GoodAt(k, a, c, ok) ==
    /\ a \in AlertType /\ a.eval <= c
    /\ a.fired <= a.session
    /\ k # "structure_session" => a.last <= a.eval
    /\ k = "hour_sweep_cisd" => /\ \A d \in Sides : a.swept[d] <= HourOf(c)
                                /\ a.run => /\ a.dir \in Sides /\ a.at # 0
                                            /\ a.at = a.swept[a.dir] /\ a.at = HourOf(a.since)
    /\ k = "sweep_confirm" /\ ok /\ a.dir # None =>
          a.at = a.since /\ 1 <= a.at /\ a.at <= a.eval /\ a.bars = a.eval - a.at + 1

Reports == [at : 1..LastCandle, dir : Sides \cup {None}, since : 0..LastCandle, session : Nat]
\* What holds of a report as such.
Timely(k, t, ok) ==
    /\ t \in Reports
    /\ k = "hour_sweep_cisd" => t.dir \in Sides /\ HourOf(t.since) = HourOf(t.at)
    /\ k = "sweep_confirm" /\ ok => Age(t) <= Window
    /\ k = "structure_session" => t.session = SessionOf(t.at - Steps[Len(Steps)])

\* A queued write takes the alert forward, and its report is new.
New(k, e) == /\ \A m \in Counts(k, e.report) : Mark(e.before, m) < Place(e.report, m) /\ Place(e.report, m) <= Mark(e.after, m)
             /\ k \in SweepKinds => e.before.last = 0 \/ e.report.at >= e.before.last + Gap
GoodWrite(k, e, c, ok) ==
    /\ GoodAt(k, e.before, c, ok) /\ GoodAt(k, e.after, c, ok) /\ Forward(k, e.before, e.after)
    /\ e.report # Quiet => Timely(k, e.report, ok) /\ New(k, e)

-----------------------------------------------------------------------------
(* Numbers: division and its remainder.                                     *)

LEMMA DivDef == ASSUME NEW a \in Int, NEW n \in Nat \ {0} PROVE /\ a \div n \in Int /\ a % n \in 0..(n-1) /\ a = n * (a \div n) + (a % n)
OBVIOUS
LEMMA MulMono == ASSUME NEW n \in Nat \ {0}, NEW p \in Int, NEW q \in Int, p >= q + 1 PROVE n * p >= n * q + n
OBVIOUS
LEMMA DivMono == ASSUME NEW a \in Int, NEW b \in Int, NEW n \in Nat \ {0}, a <= b PROVE a \div n <= b \div n
<1> DEFINE p == a \div n
           q == b \div n
<1>1. p \in Int /\ q \in Int /\ a % n \in 0..(n-1) /\ b % n \in 0..(n-1) /\ a = n * p + (a % n) /\ b = n * q + (b % n)
  BY DivDef
<1>2. ASSUME p > q PROVE FALSE
  <2>1. n * p >= n * q + n
    BY <1>1, <1>2, MulMono
  <2>2. n * p \in Int /\ n * q \in Int /\ n \in Int /\ a % n \in Int /\ b % n \in Int /\ b % n < n /\ a % n >= 0
    BY <1>1
  <2> HIDE DEF p, q
  <2> QED BY <1>1, <2>1, <2>2
<1> QED BY <1>1, <1>2
LEMMA DivNat == ASSUME NEW a \in Nat, NEW n \in Nat \ {0} PROVE a \div n \in 0..a
<1> DEFINE p == a \div n
<1>1. p \in Int /\ a % n \in 0..(n-1) /\ a = n * p + (a % n)
  BY DivDef
<1> HIDE DEF p
<1>2. n * p \in Int /\ a % n \in Int /\ n \in Int
  BY <1>1
<1>3. p >= 0
  <2> SUFFICES ASSUME p < 0 PROVE FALSE
    BY <1>1
  <2>1. n * 0 >= n * p + n
    BY <1>1, MulMono
  <2> QED BY <1>1, <1>2, <2>1
<1>4. p <= a
  <2>1. n * p >= p
    BY <1>1, <1>3
  <2> QED BY <1>1, <1>2, <2>1
<1> QED BY <1>1, <1>3, <1>4 DEF p
LEMMA ModStart == ASSUME NEW c \in Nat, c >= 1, NEW s \in Nat \ {0}, c % s = 0 PROVE c - s \in Nat
<1> DEFINE p == c \div s
<1>1. p \in Int /\ c = s * p
  BY DivDef
<1> HIDE DEF p
<1>2. p >= 1
  <2> SUFFICES ASSUME p < 1 PROVE FALSE
    BY <1>1
  <2>1. s * p <= 0
    BY <1>1
  <2> QED BY <1>1, <2>1
<1>3. s * p >= s
  BY <1>1, <1>2
<1> QED BY <1>1, <1>3

\* Hours and days are counted on.
LEMMA HoursGoOn ==
    ASSUME RulesConstants
    PROVE  /\ \A c \in Nat : HourOf(c) \in 0..c
           /\ \A c \in Nat \ {0} : HourOf(c) # 0
           /\ \A c, d \in Nat : c <= d => HourOf(c) <= HourOf(d)
           /\ \A s \in Nat : SessionOf(s) \in Nat
<1>1. Hour \in Nat \ {0} /\ Session \in Nat \ {0}
  BY DEF RulesConstants
<1>2. ASSUME NEW c \in Nat, NEW d \in Nat, c <= d PROVE HourOf(c) <= HourOf(d)
  <2>1. (c - 1) \div Hour <= (d - 1) \div Hour
    BY <1>1, <1>2, DivMono
  <2>2. (c - 1) \div Hour \in Int /\ (d - 1) \div Hour \in Int
    BY <1>1, DivDef
  <2> QED BY <2>1, <2>2 DEF HourOf
<1>3. ASSUME NEW c \in Nat \ {0} PROVE HourOf(c) \in 1..c
  <2>1. (c - 1) \div Hour \in 0..(c - 1)
    BY <1>1, DivNat
  <2> QED BY <2>1 DEF HourOf
<1>4. HourOf(0) = 0
  <2> DEFINE p == (0 - 1) \div Hour
  <2>1. p \in Int /\ (0 - 1) % Hour \in 0..(Hour - 1) /\ 0 - 1 = Hour * p + ((0 - 1) % Hour)
    BY <1>1, DivDef
  <2> HIDE DEF p
  <2>2. Hour * p \in Int
    BY <1>1, <2>1
  <2>3. Hour * p >= 0 - Hour /\ Hour * p <= 0 - 1
    BY <1>1, <2>1, <2>2
  <2>4. p < 0
    BY <1>1, <2>1, <2>3
  <2>5. p >= 0 - 1
    <3> SUFFICES ASSUME 0 - 1 >= p + 1 PROVE FALSE
      BY <2>1
    <3>1. Hour * (0 - 1) >= Hour * p + Hour
      BY <1>1, <2>1, MulMono
    <3> QED BY <1>1, <2>2, <2>3, <3>1
  <2>6. p + 1 = 0
    BY <2>1, <2>4, <2>5
  <2> QED BY <2>6 DEF p, HourOf
<1>5. ASSUME NEW s \in Nat PROVE SessionOf(s) \in Nat
  <2>1. s \div Session \in 0..s
    BY <1>1, DivNat
  <2> QED BY <2>1 DEF SessionOf
<1>6. \A c \in Nat : HourOf(c) \in 0..c
  <2>1. \A c \in Nat : c = 0 \/ c \in Nat \ {0}
    OBVIOUS
  <2> QED BY <1>3, <1>4, <2>1
<1>7. \A c \in Nat \ {0} : HourOf(c) # 0
  BY <1>3
<1> QED BY <1>2, <1>5, <1>6, <1>7

\* The fields of an alert.
LEMMA FieldsAre ==
    ASSUME RulesConstants, NEW a \in AlertType
    PROVE  /\ a.last \in Nat /\ a.eval \in Nat /\ a.at \in Nat /\ a.since \in Nat /\ a.bars \in Nat
           /\ a.session \in Nat /\ a.fired \in Nat /\ a.run \in BOOLEAN /\ a.dir \in Sides \cup {None}
           /\ a.swept \in [Sides -> Nat] /\ \A d \in Sides : a.swept[d] \in Nat
           /\ a.bars <= Window /\ a.last <= LastCandle /\ a.eval <= LastCandle /\ a.since <= LastCandle
<1>1. LastCandle \in Nat /\ Window \in Nat
  BY DEF RulesConstants
<1> QED BY <1>1 DEF AlertType

\* What it means for an alert of each kind to go forward.
LEMMA ForwardIs ==
    ASSUME NEW a, NEW b
    PROVE  /\ Forward("sweep_confirm", a, b) <=> a.eval <= b.eval /\ a.last <= b.last
           /\ Forward("structure_session", a, b) <=> a.fired <= b.fired
           /\ Forward("candle2_closure", a, b) <=> a.eval <= b.eval
           /\ Forward("hour_sweep_cisd", a, b) <=>
                 a.eval <= b.eval /\ a.last <= b.last /\ \A d \in Sides : Mark(a, d) <= Mark(b, d)
<1>1. \A e : Mark(e, "eval") = e.eval /\ Mark(e, "last") = e.last /\ Mark(e, "fired") = e.fired
  BY DEF Mark, Sides
<1>2. /\ MarksOf("sweep_confirm") = {"eval", "last"} /\ MarksOf("structure_session") = {"fired"}
      /\ MarksOf("candle2_closure") = {"eval"} /\ MarksOf("hour_sweep_cisd") = {"eval", "last"} \cup Sides
  BY DEF MarksOf, Sides
<1> QED BY <1>1, <1>2 DEF Forward

\* The fields of an alert after its handlers' changes.
LEMMA ClearedIs ==
    ASSUME RulesConstants, NEW a \in AlertType
    PROVE  /\ Cleared(a) \in AlertType
           /\ Cleared(a).dir = None /\ Cleared(a).run = FALSE /\ Cleared(a).at = 0 /\ Cleared(a).since = 0
           /\ Cleared(a).last = a.last /\ Cleared(a).eval = a.eval /\ Cleared(a).swept = a.swept
           /\ Cleared(a).session = a.session /\ Cleared(a).fired = a.fired
<1>1. 0 \in 0..Window /\ 0 \in 0..LastCandle /\ None \in Sides \cup {None}
  BY DEF RulesConstants
<1> QED BY <1>1 DEF Cleared, AlertType

LEMMA FireIs ==
    ASSUME RulesConstants, NEW a \in AlertType, NEW c \in 1..LastCandle
    PROVE  /\ Fire(a, c) \in AlertType
           /\ Fire(a, c).dir = None /\ Fire(a, c).run = FALSE /\ Fire(a, c).at = 0 /\ Fire(a, c).since = 0
           /\ TooSoon(a, c) => Fire(a, c).last = a.last
           /\ ~TooSoon(a, c) => Fire(a, c).last = c
           /\ Fire(a, c).eval = a.eval /\ Fire(a, c).swept = a.swept
           /\ Fire(a, c).session = a.session /\ Fire(a, c).fired = a.fired
<1> DEFINE b == Cleared(a)
<1>1. /\ b \in AlertType /\ b.dir = None /\ b.run = FALSE /\ b.at = 0 /\ b.since = 0
      /\ b.last = a.last /\ b.eval = a.eval /\ b.swept = a.swept
      /\ b.session = a.session /\ b.fired = a.fired
  BY ClearedIs
<1> HIDE DEF b
<1>2. Fire(a, c) = IF TooSoon(a, c) THEN b ELSE [b EXCEPT !.last = c]
  BY DEF Fire, b
<1>3. CASE TooSoon(a, c)
  BY <1>1, <1>2, <1>3
<1>4. CASE ~TooSoon(a, c)
  <2>1. c \in 0..LastCandle
    BY DEF RulesConstants
  <2> QED BY <1>1, <1>2, <1>4, <2>1 DEF AlertType
<1> QED BY <1>3, <1>4

\* A sweep that arms side d.
ArmedBy(a, d, at, c, l) == [Arm(a, d, at, c) EXCEPT !.swept[d] = l]
LEMMA HoldBackIs ==
    ASSUME RulesConstants, NEW a \in AlertType, NEW old \in AlertType
    PROVE  LET b == HoldBack(a, old)
           IN  /\ b \in AlertType
               /\ b.dir = old.dir /\ b.since = old.since /\ b.last = old.last
               /\ b.run = a.run /\ b.at = a.at /\ b.bars = a.bars
               /\ b.eval = a.eval /\ b.swept = a.swept
               /\ b.session = a.session /\ b.fired = a.fired
BY DEF HoldBack, AlertType

-----------------------------------------------------------------------------
(* What each kind makes of a candle.                                        *)

\* The verdict v on an alert keeps it good and takes it forward, and a trigger is new.
Judgement(k, old, v, c, ok) ==
    /\ GoodAt(k, v.alert, c, ok) /\ Forward(k, old, v.alert)
    /\ k # "structure_session" => v.alert.eval = c
    /\ v.fired => /\ Timely(k, Report(v, c), ok)
                  /\ New(k, [before |-> old, after |-> v.alert, report |-> Report(v, c)])
                  /\ k = "hour_sweep_cisd" => ~v.alert.run

\* An alert as it is when candle c comes to it.
LEMMA Evaluated ==
    ASSUME RulesConstants, NEW old \in AlertType, NEW c \in 1..LastCandle
    PROVE  LET a == [old EXCEPT !.eval = c]
           IN  /\ a \in AlertType /\ a.eval = c
               /\ a.dir = old.dir /\ a.run = old.run /\ a.at = old.at /\ a.since = old.since /\ a.bars = old.bars
               /\ a.last = old.last /\ a.swept = old.swept /\ a.session = old.session /\ a.fired = old.fired
<1>1. c \in 0..LastCandle
  BY DEF RulesConstants
<1> QED BY <1>1 DEF AlertType

\* A report of a sweep alert: it is of this candle, and not too soon.
LEMMA SweepReport ==
    ASSUME RulesConstants, NEW k \in {"sweep_confirm", "hour_sweep_cisd"}, NEW ok,
           NEW c \in 1..LastCandle, NEW old \in AlertType, old.last <= old.eval, old.eval < c,
           NEW a \in AlertType, a.last = old.last, a.dir \in Sides, ~TooSoon(a, c),
           NEW v, v = [alert |-> Fire(a, c), fired |-> TRUE, dir |-> a.dir, since |-> a.since],
           a.eval = c,
           k = "sweep_confirm" /\ ok => c - a.since + 1 <= Window,
           k = "hour_sweep_cisd" => /\ HourOf(a.since) = HourOf(c) /\ Mark(old, a.dir) < 2 * HourOf(c) + 1
                                    /\ a.swept[a.dir] = HourOf(c)
    PROVE  /\ Timely(k, Report(v, c), ok)
           /\ New(k, [before |-> old, after |-> v.alert, report |-> Report(v, c)])
<1> DEFINE b == Fire(a, c)
           t == Report(v, c)
<1>1. /\ b \in AlertType /\ b.last = c /\ b.eval = c /\ b.swept = a.swept /\ b.run = FALSE
  BY FireIs
<1>2. t.at = c /\ t.dir = a.dir /\ t.since = a.since /\ t.session = b.session
  BY DEF Report
<1>3. t \in Reports
  BY <1>1 DEF Report, Reports, AlertType
<1>4. v.alert = b
  OBVIOUS
<1>5. /\ c \in Nat /\ old.last \in Nat /\ old.eval \in Nat /\ a.since \in Nat /\ Gap \in Nat
      /\ a.swept \in [Sides -> Nat] /\ HourOf(c) \in Nat
  <2>1. c \in Nat /\ Gap \in Nat
    BY DEF RulesConstants
  <2> QED BY <2>1, HoursGoOn, FieldsAre
<1> HIDE DEF b, t
<1>6. Timely(k, t, ok)
  BY <1>2, <1>3 DEF Timely, Age
<1>7. old.last = 0 \/ c >= old.last + Gap
  BY <1>5 DEF TooSoon
<1>8. ASSUME NEW m \in Counts(k, t) PROVE Mark(old, m) < Place(t, m) /\ Place(t, m) <= Mark(b, m)
  <2>1. CASE m = "eval" \/ m = "last"
    BY <1>1, <1>2, <1>5, <2>1 DEF Mark, Place, Sides
  <2>2. CASE m \in Sides
    <3>1. k = "hour_sweep_cisd" /\ m = a.dir
      BY <1>2, <1>8, <2>2 DEF Counts, MarksOf, Sides
    <3>2. Mark(b, m) = 2 * HourOf(c) + 1
      BY <1>1, <1>5, <2>2, <3>1 DEF Mark, Sides
    <3>3. Place(t, m) = 2 * HourOf(c) + 1
      BY <1>2, <2>2, <3>1 DEF Place, Sides
    <3> QED BY <1>5, <3>1, <3>2, <3>3
  <2>3. m \in {"eval", "last"} \cup Sides
    BY <1>8 DEF Counts, MarksOf, Sides
  <2> QED BY <2>1, <2>2, <2>3
<1>9. New(k, [before |-> old, after |-> b, report |-> t])
  BY <1>2, <1>7, <1>8 DEF New
<1> QED BY <1>4, <1>6, <1>9 DEF t

\* sweep_confirm: what is pending is as many candles old as it counts.
LEMMA SweepConfirmJudged ==
    ASSUME RulesConstants, NEW ok \in BOOLEAN, NEW p \in Nat, NEW c \in 1..LastCandle, c \in {p, p + 1},
           NEW old, GoodAt("sweep_confirm", old, p, ok), old.eval # c,
           ok /\ old.dir # None => old.eval = p,
           NEW x, x.breaks \in {{}, {"bear"}, {"bull"}}, x.level \in [Sides -> Swings \cup {0}],
           NEW v, v = EvalSweepConfirm([old EXCEPT !.eval = c], c, x)
    PROVE  /\ Judgement("sweep_confirm", old, v, c, ok)
           /\ ok /\ v.alert.dir # None => v.alert.eval = c
<1> DEFINE a0 == [old EXCEPT !.eval = c]
           a1 == CountBars(a0, c)
           broken == a1.dir # None /\ Opposite(a1.dir) \in x.breaks
           yes == ~broken /\ Confirmed(a1, x)
           fired == yes /\ ~TooSoon(a1, c)
           a2 == IF broken THEN Cleared(a1) ELSE IF yes THEN Fire(a1, c) ELSE a1
           sides == {d \in Sides : x.level[d] # 0 /\ x.level[d] # a2.swept[d]}
           d == IF "bear" \in sides THEN "bear" ELSE "bull"
           a3 == ArmedBy(a2, d, c, c, x.level[d])
           now == d \in x.breaks \/ x.cisdNew
           Pending(a) == ok /\ a.dir # None => a.at = a.since /\ 1 <= a.at /\ a.at <= c /\ a.bars = c - a.at + 1
           Held(a) == /\ a \in AlertType /\ a.eval = c /\ a.last = old.last /\ a.fired = old.fired
                      /\ a.session = old.session /\ Pending(a)
<1>1. /\ old \in AlertType /\ old.eval \in Nat /\ old.last \in Nat /\ old.last <= old.eval /\ old.eval < c
      /\ c \in Nat /\ c \in 0..LastCandle /\ Window \in Nat /\ Window >= 1 /\ old.fired <= old.session
      /\ old.eval <= p
  <2>1. old \in AlertType /\ old.last <= old.eval /\ old.fired <= old.session /\ old.eval <= p
    BY DEF GoodAt
  <2>2. c \in Nat /\ c \in 0..LastCandle /\ Window \in Nat /\ Window >= 1
    BY DEF RulesConstants
  <2> QED BY <2>1, <2>2, FieldsAre
<1>2. /\ a0 \in AlertType /\ a0.eval = c /\ a0.dir = old.dir /\ a0.run = old.run /\ a0.at = old.at
      /\ a0.since = old.since /\ a0.bars = old.bars /\ a0.last = old.last /\ a0.swept = old.swept
      /\ a0.session = old.session /\ a0.fired = old.fired
  BY <1>1, Evaluated
<1>3. ok /\ old.dir # None => /\ old.at = old.since /\ 1 <= old.at /\ old.at <= p /\ c = p + 1
                              /\ old.bars = p - old.at + 1 /\ old.at \in Nat
  BY <1>1, FieldsAre DEF GoodAt
<1> HIDE DEF a0
<1>4. Held(a1)
  <2>1. CASE a0.dir = None \/ a0.at \in {0, c}
    <3>1. a1 = a0
      BY <2>1 DEF CountBars
    <3>2. ok /\ a0.dir # None => FALSE
      BY <1>1, <1>2, <1>3, <2>1
    <3> QED BY <1>2, <3>1, <3>2
  <2>2. CASE ~(a0.dir = None \/ a0.at \in {0, c}) /\ a0.bars + 1 > Window
    <3>1. a1 = Cleared(a0)
      BY <2>2 DEF CountBars
    <3> QED BY <1>2, <3>1, ClearedIs
  <2>3. CASE ~(a0.dir = None \/ a0.at \in {0, c}) /\ ~(a0.bars + 1 > Window)
    <3>1. a1 = [a0 EXCEPT !.bars = @ + 1]
      BY <2>3 DEF CountBars
    <3>2. a0.bars \in Nat /\ a0.bars + 1 \in 0..Window
      BY <1>1, <1>2, <2>3 DEF AlertType
    <3>3. /\ a1 \in AlertType /\ a1.eval = c /\ a1.last = old.last /\ a1.fired = old.fired /\ a1.session = old.session
          /\ a1.dir = a0.dir /\ a1.at = a0.at /\ a1.since = a0.since /\ a1.bars = a0.bars + 1
      BY <1>2, <3>1, <3>2 DEF AlertType
    <3>4. ok /\ a1.dir # None => a1.bars = c - a1.at + 1 /\ a1.at <= c
      BY <1>1, <1>2, <1>3, <3>3
    <3> QED BY <1>2, <1>3, <3>3, <3>4
  <2> QED BY <2>1, <2>2, <2>3
<1> HIDE DEF a1
<1>5. /\ a2 \in AlertType /\ a2.eval = c /\ a2.fired = old.fired /\ a2.session = old.session /\ Pending(a2)
      /\ a2.last = (IF fired THEN c ELSE old.last)
  <2>1. CASE broken
    BY <1>4, <2>1, ClearedIs
  <2>2. CASE yes
    <3>1. a2 = Fire(a1, c)
      BY <2>2
    <3> QED BY <1>4, <2>2, <3>1, FireIs
  <2>3. CASE ~broken /\ ~yes
    BY <1>4, <2>3
  <2> QED BY <2>1, <2>2, <2>3
<1>6. /\ v = IF sides = {} \/ fired THEN Verdict(a2, fired, a1)
             ELSE Verdict(IF now THEN Fire(a3, c) ELSE a3, now /\ ~TooSoon(a3, c), a3)
      /\ fired \in BOOLEAN /\ now \in BOOLEAN /\ d \in Sides /\ x.level[d] \in Nat
      /\ fired => a2 = Fire(a1, c) /\ ~TooSoon(a1, c) /\ Confirmed(a1, x)
  <2>1. fired \in BOOLEAN /\ d \in Sides
    BY DEF Sides
  <2>2. x.level[d] \in Nat /\ now \in BOOLEAN
    BY <2>1 DEF RulesConstants
  <2>3. fired => a2 = Fire(a1, c) /\ ~TooSoon(a1, c) /\ Confirmed(a1, x)
    OBVIOUS
  <2>4. v = IF sides = {} \/ fired THEN Verdict(a2, fired, a1)
            ELSE Verdict(IF now THEN Fire(a3, c) ELSE a3, now /\ ~TooSoon(a3, c), a3)
    BY DEF EvalSweepConfirm, a0, a1, ArmedBy
  <2> QED BY <2>1, <2>2, <2>3, <2>4
<1> HIDE DEF broken, yes, fired, a2, sides, d, now
\* Confirmed now.
<1>7. CASE fired
  <2>1. v = [alert |-> Fire(a1, c), fired |-> TRUE, dir |-> a1.dir, since |-> a1.since]
    BY <1>6, <1>7 DEF Verdict
  <2>2. a1.dir \in Sides
    <3>1. a1.dir \in Sides \cup {None}
      BY <1>4, FieldsAre
    <3> QED BY <1>6, <1>7, <3>1 DEF Confirmed, Sides, None
  <2>3. ok => c - a1.since + 1 <= Window
    <3>1. a1.bars <= Window /\ a1.dir # None
      BY <1>4, <2>2, FieldsAre DEF Sides, None
    <3> QED BY <1>1, <1>4, <3>1
  <2>4. /\ Timely("sweep_confirm", Report(v, c), ok)
        /\ New("sweep_confirm", [before |-> old, after |-> v.alert, report |-> Report(v, c)])
    BY <1>1, <1>4, <1>6, <1>7, <2>1, <2>2, <2>3, SweepReport
  <2>5. v.alert = a2 /\ a2.last = c
    <3>1. a2 = Fire(a1, c)
      BY <1>6, <1>7
    <3>2. a2.last = c
      BY <1>5, <1>7
    <3> QED BY <2>1, <3>1, <3>2
  <2>6. GoodAt("sweep_confirm", a2, c, ok) /\ Forward("sweep_confirm", old, a2)
    BY <1>1, <1>5, <2>5, ForwardIs DEF GoodAt
  <2> QED BY <1>5, <2>4, <2>5, <2>6 DEF Judgement
\* Nothing more to do.
<1>8. CASE ~fired /\ sides = {}
  <2>1. v.alert = a2 /\ v.fired = FALSE
    BY <1>6, <1>8 DEF Verdict
  <2>2. a2.last = old.last
    BY <1>5, <1>8
  <2>3. GoodAt("sweep_confirm", a2, c, ok) /\ Forward("sweep_confirm", old, a2)
    BY <1>1, <1>5, <2>2, ForwardIs DEF GoodAt
  <2> QED BY <1>5, <2>1, <2>3 DEF Judgement
\* The candle sweeps, and may confirm its own sweep.
<1>9. CASE ~fired /\ sides # {}
  <2>1. v = Verdict(IF now THEN Fire(a3, c) ELSE a3, now /\ ~TooSoon(a3, c), a3)
    BY <1>6, <1>9
  <2>2. a2.last = old.last
    BY <1>5, <1>9
  <2>3. /\ a3 \in AlertType /\ a3.eval = c /\ a3.last = old.last /\ a3.fired = old.fired /\ a3.session = old.session
        /\ a3.dir = d /\ a3.at = c /\ a3.since = c /\ a3.bars = 1
    <3>1. c \in 0..LastCandle /\ a2 \in AlertType /\ d \in Sides /\ x.level[d] \in Nat
      BY <1>1, <1>5, <1>6
    <3>2. a2.eval = c /\ a2.fired = old.fired /\ a2.session = old.session
      BY <1>5
    <3>3. PICK l \in Nat, s \in Sides : l = x.level[d] /\ s = d
      BY <3>1
    <3>4. PICK b : b = ArmedBy(a2, s, c, c, l)
      OBVIOUS
    <3>5. /\ b \in AlertType /\ b.eval = a2.eval /\ b.last = a2.last /\ b.fired = a2.fired
          /\ b.session = a2.session /\ b.dir = s /\ b.at = c /\ b.since = c /\ b.bars = 1
      <4>1. PICK a, r : a = a2 /\ r = ArmedBy(a, s, c, c, l)
        OBVIOUS
      <4>2. a \in AlertType
        BY <3>1, <4>1
      <4>3. /\ r \in AlertType /\ r.eval = a.eval /\ r.last = a.last /\ r.fired = a.fired
            /\ r.session = a.session /\ r.dir = s /\ r.at = c /\ r.since = c /\ r.bars = 1
        <5>1. 1 \in 0..Window
          BY <1>1
        <5>2. a.swept \in [Sides -> Nat] /\ [a.swept EXCEPT ![s] = l] \in [Sides -> Nat]
          BY <4>2 DEF AlertType
        <5> QED BY <3>1, <4>1, <4>2, <5>1, <5>2 DEF ArmedBy, Arm, AlertType
      <4> QED BY <3>4, <4>1, <4>3
    <3>6. a3 = b
      BY <3>3, <3>4
    <3> QED BY <2>2, <3>2, <3>3, <3>5, <3>6
  <2> DEFINE b == Fire(a3, c)
  <2>9. /\ b \in AlertType /\ b.dir = None /\ b.eval = c /\ b.fired = old.fired /\ b.session = old.session
        /\ TooSoon(a3, c) => b.last = old.last
        /\ ~TooSoon(a3, c) => b.last = c
    <3>1. PICK a : a = a3
      OBVIOUS
    <3>2. a \in AlertType
      BY <2>3, <3>1
    <3>3. /\ Fire(a, c) \in AlertType /\ Fire(a, c).dir = None /\ Fire(a, c).eval = a.eval
          /\ Fire(a, c).fired = a.fired /\ Fire(a, c).session = a.session
          /\ TooSoon(a, c) => Fire(a, c).last = a.last
          /\ ~TooSoon(a, c) => Fire(a, c).last = c
      BY <3>2, FireIs
    <3> HIDE DEF a3
    <3> QED BY <2>3, <3>1, <3>3
  <2> HIDE DEF a3, b
  <2>4. CASE now /\ ~TooSoon(a3, c)
    <3>1. v = [alert |-> Fire(a3, c), fired |-> TRUE, dir |-> a3.dir, since |-> a3.since]
      BY <2>1, <2>4 DEF Verdict
    <3>2. c - a3.since + 1 <= Window
      BY <1>1, <2>3
    <3>3. /\ Timely("sweep_confirm", Report(v, c), ok)
          /\ New("sweep_confirm", [before |-> old, after |-> v.alert, report |-> Report(v, c)])
      BY <1>1, <1>6, <2>3, <2>4, <3>1, <3>2, SweepReport
    <3>4. /\ v.alert \in AlertType /\ v.alert.eval = c /\ v.alert.last = c /\ v.alert.dir = None
          /\ v.alert.fired = old.fired /\ v.alert.session = old.session
      <4>1. v.alert = b
        BY <3>1 DEF b
      <4> QED BY <2>4, <2>9, <4>1
    <3>5. GoodAt("sweep_confirm", v.alert, c, ok) /\ Forward("sweep_confirm", old, v.alert)
      BY <1>1, <3>4, ForwardIs DEF GoodAt
    <3> QED BY <3>3, <3>4, <3>5 DEF Judgement
  <2>5. CASE ~(now /\ ~TooSoon(a3, c))
    <3>1. v.alert = (IF now THEN Fire(a3, c) ELSE a3) /\ v.fired = FALSE
      <4>1. (now /\ ~TooSoon(a3, c)) = FALSE
        BY <2>5
      <4>2. v = Verdict(IF now THEN Fire(a3, c) ELSE a3, FALSE, a3)
        BY <2>1, <4>1
      <4> QED BY <4>2 DEF Verdict
    <3>2. /\ v.alert \in AlertType /\ v.alert.eval = c /\ v.alert.last = old.last /\ Pending(v.alert)
          /\ v.alert.fired = old.fired /\ v.alert.session = old.session
      <4>1. CASE now
        <5>1. v.alert = b /\ TooSoon(a3, c)
          BY <2>5, <3>1, <4>1 DEF b
        <5> QED BY <2>9, <5>1
      <4>2. CASE ~now
        BY <1>1, <2>3, <3>1, <4>2
      <4> QED BY <4>1, <4>2
    <3>3. GoodAt("sweep_confirm", v.alert, c, ok) /\ Forward("sweep_confirm", old, v.alert)
      BY <1>1, <3>2, ForwardIs DEF GoodAt
    <3> QED BY <3>1, <3>2, <3>3 DEF Judgement
  <2> QED BY <2>4, <2>5
<1> QED BY <1>7, <1>8, <1>9

\* The mark of a side, and what it is once nothing is pending.
LEMMA SideMark ==
    ASSUME RulesConstants, NEW a \in AlertType, NEW d \in Sides
    PROVE  /\ Mark(a, d) \in Nat /\ a.swept[d] \in Nat
           /\ Mark(a, d) = 2 * a.swept[d] + (IF a.run /\ a.dir = d THEN 0 ELSE 1)
<1>1. a.swept[d] \in Nat
  BY FieldsAre
<1>2. Mark(a, d) = 2 * a.swept[d] + (IF a.run /\ a.dir = d THEN 0 ELSE 1)
  BY DEF Mark, Sides
<1> QED BY <1>1, <1>2

LEMMA SettledMark ==
    ASSUME RulesConstants, NEW a \in AlertType, NEW b \in AlertType, b.swept = a.swept, ~b.run,
           NEW d \in Sides
    PROVE  Mark(a, d) <= Mark(b, d) /\ Mark(b, d) = 2 * a.swept[d] + 1
<1>1. Mark(a, d) = 2 * a.swept[d] + (IF a.run /\ a.dir = d THEN 0 ELSE 1) /\ a.swept[d] \in Nat
  BY SideMark
<1>2. Mark(b, d) = 2 * b.swept[d] + (IF b.run /\ b.dir = d THEN 0 ELSE 1)
  BY SideMark
<1> QED BY <1>1, <1>2

\* hour_sweep_cisd: a side that has been armed in an hour is counted to that hour, and once
\* more when the sweep is used up.
LEMMA HourSweepJudged ==
    ASSUME RulesConstants, NEW ok \in BOOLEAN, NEW p \in Nat, NEW c \in 1..LastCandle, c \in {p, p + 1},
           NEW old, GoodAt("hour_sweep_cisd", old, p, ok), old.eval # c,
           NEW x, x.level \in [Sides -> {0, 1}], x.cisd \in BOOLEAN, x.cisdNew \in BOOLEAN, x.side \in Sides,
           NEW v, v = EvalHourSweep([old EXCEPT !.eval = c], c, x)
    PROVE  Judgement("hour_sweep_cisd", old, v, c, ok)
<1> DEFINE h == HourOf(c)
           a0 == [old EXCEPT !.eval = c]
           a1 == PastHour(a0, h)
           yes == a1.dir # None /\ a1.run /\ x.cisd
           fired == yes /\ ~TooSoon(a1, c)
           a2 == IF yes THEN Fire(a1, c) ELSE a1
           sides == FreshSides(a2, h, x)
           d == IF sides = Sides THEN x.side ELSE IF "bear" \in sides THEN "bear" ELSE "bull"
           a3 == ArmedBy(a2, d, h, c, h)
           Held(a) == /\ a \in AlertType /\ a.eval = c /\ a.fired = old.fired /\ a.session = old.session
                      /\ \A s \in Sides : a.swept[s] <= h /\ Mark(old, s) <= Mark(a, s)
                      /\ a.run => a.dir \in Sides /\ a.at = h /\ a.swept[a.dir] = h /\ HourOf(a.since) = h
<1>1. /\ old \in AlertType /\ old.eval \in Nat /\ old.last \in Nat /\ old.last <= old.eval /\ old.eval < c
      /\ c \in Nat /\ c \in 0..LastCandle /\ old.fired <= old.session /\ old.eval <= p
  <2>1. old \in AlertType /\ old.last <= old.eval /\ old.fired <= old.session /\ old.eval <= p
    BY DEF GoodAt
  <2>2. c \in Nat /\ c \in 0..LastCandle
    BY DEF RulesConstants
  <2> QED BY <2>1, <2>2, FieldsAre
<1>2. /\ a0 \in AlertType /\ a0.eval = c /\ a0.dir = old.dir /\ a0.run = old.run /\ a0.at = old.at
      /\ a0.since = old.since /\ a0.last = old.last /\ a0.swept = old.swept
      /\ a0.session = old.session /\ a0.fired = old.fired
  BY <1>1, Evaluated
<1>3. h \in 1..LastCandle /\ HourOf(p) <= h /\ HourOf(p) \in Nat
  <2>1. p <= c /\ c \in Nat \ {0} /\ c <= LastCandle /\ LastCandle \in Nat
    BY <1>1 DEF RulesConstants
  <2>2. h \in 0..c /\ h # 0 /\ HourOf(p) <= h /\ HourOf(p) \in 0..p
    BY <2>1, HoursGoOn
  <2> HIDE DEF h
  <2> QED BY <2>1, <2>2
<1>4. /\ \A s \in Sides : old.swept[s] \in Nat /\ old.swept[s] <= h
      /\ old.run => old.dir \in Sides /\ old.at # 0 /\ old.at = old.swept[old.dir] /\ old.at = HourOf(old.since)
  <2>1. /\ \A s \in Sides : old.swept[s] <= HourOf(p)
        /\ old.run => old.dir \in Sides /\ old.at # 0 /\ old.at = old.swept[old.dir] /\ old.at = HourOf(old.since)
    BY DEF GoodAt
  <2>2. \A s \in Sides : old.swept[s] \in Nat
    BY <1>1, FieldsAre
  <2> QED BY <1>3, <2>1, <2>2
<1> HIDE DEF a0, h
\* What is pending is of this hour.
<1>5. Held(a1) /\ a1.last = old.last /\ a1.swept = old.swept /\ (a1.run => old.run /\ old.dir = a1.dir)
  <2>1. CASE a0.at \notin {0, h}
    <3>1. a1 = Cleared(a0)
      BY <2>1 DEF PastHour
    <3>2. /\ a1 \in AlertType /\ a1.run = FALSE /\ a1.eval = c /\ a1.swept = old.swept /\ a1.last = old.last
          /\ a1.session = old.session /\ a1.fired = old.fired
      <4>1. /\ Cleared(a0) \in AlertType /\ Cleared(a0).run = FALSE /\ Cleared(a0).eval = a0.eval
            /\ Cleared(a0).swept = a0.swept /\ Cleared(a0).last = a0.last
            /\ Cleared(a0).session = a0.session /\ Cleared(a0).fired = a0.fired
        BY <1>2, ClearedIs
      <4> QED BY <1>2, <3>1, <4>1
    <3>3. \A s \in Sides : Mark(old, s) <= Mark(a1, s)
      BY <1>1, <3>2, SettledMark
    <3> QED BY <1>4, <3>2, <3>3
  <2>2. CASE a0.at \in {0, h}
    <3>1. a1 = a0
      BY <2>2 DEF PastHour
    <3>2. \A s \in Sides : Mark(old, s) = Mark(a1, s) /\ Mark(old, s) \in Nat
      BY <1>1, <1>2, <3>1, SideMark
    <3>3. a1.run => a1.dir \in Sides /\ a1.at = h /\ a1.swept[a1.dir] = h /\ HourOf(a1.since) = h
      BY <1>2, <1>4, <2>2, <3>1
    <3>4. \A s \in Sides : a1.swept[s] <= h /\ Mark(old, s) <= Mark(a1, s)
      BY <1>2, <1>4, <3>1, <3>2
    <3> QED BY <1>2, <3>1, <3>3, <3>4
  <2> QED BY <2>1, <2>2
<1> HIDE DEF a1
<1>6. Held(a2) /\ a2.last = (IF fired THEN c ELSE old.last) /\ a2.swept = old.swept /\ (fired => ~a2.run)
  <2>1. CASE yes
    <3> DEFINE b == Fire(a1, c)
    <3>1. /\ b \in AlertType /\ b.run = FALSE /\ b.eval = c /\ b.swept = a1.swept
          /\ b.session = old.session /\ b.fired = old.fired
          /\ TooSoon(a1, c) => b.last = old.last
          /\ ~TooSoon(a1, c) => b.last = c
      BY <1>5, FireIs
    <3> HIDE DEF b
    <3>2. \A s \in Sides : Mark(old, s) <= Mark(b, s)
      <4>1. \A s \in Sides : Mark(a1, s) <= Mark(b, s) /\ Mark(a1, s) \in Nat /\ Mark(b, s) \in Nat /\ Mark(old, s) \in Nat
        BY <1>1, <1>5, <3>1, SettledMark, SideMark
      <4> QED BY <1>5, <4>1
    <3>3. a2 = b
      BY <2>1 DEF b
    <3>4. Held(b) /\ b.last = (IF fired THEN c ELSE old.last) /\ ~b.run
      BY <1>5, <2>1, <3>1, <3>2
    <3> QED BY <1>5, <3>1, <3>3, <3>4
  <2>2. CASE ~yes
    BY <1>5, <2>2
  <2> QED BY <2>1, <2>2
<1>7. /\ v = IF sides = {} \/ fired THEN Verdict(a2, fired, a1)
             ELSE Verdict(IF x.cisdNew THEN Fire(a3, c) ELSE a3, x.cisdNew /\ ~TooSoon(a3, c), a3)
      /\ fired \in BOOLEAN /\ d \in Sides
      /\ sides # {} => a2.swept[d] # h
      /\ fired => a2 = Fire(a1, c) /\ ~TooSoon(a1, c) /\ a1.run
  <2>1. fired \in BOOLEAN
    OBVIOUS
  <2>2. sides \subseteq Sides /\ \A s \in sides : a2.swept[s] # h
    BY DEF FreshSides
  <2>3. d \in Sides /\ (sides # {} => d \in sides)
    BY <2>2 DEF Sides
  <2>4. fired => a2 = Fire(a1, c) /\ ~TooSoon(a1, c) /\ a1.run
    OBVIOUS
  <2>5. v = IF sides = {} \/ fired THEN Verdict(a2, fired, a1)
            ELSE Verdict(IF x.cisdNew THEN Fire(a3, c) ELSE a3, x.cisdNew /\ ~TooSoon(a3, c), a3)
    BY DEF EvalHourSweep, a0, a1, h, ArmedBy
  <2> QED BY <2>1, <2>2, <2>3, <2>4, <2>5
<1> HIDE DEF yes, fired, a2, sides, d
\* What is held is good.
<1>8. ASSUME NEW a, Held(a), a.last \in {old.last, c}
      PROVE  GoodAt("hour_sweep_cisd", a, c, ok) /\ Forward("hour_sweep_cisd", old, a)
  <2>1. a.last <= c /\ old.last <= a.last
    BY <1>1, <1>8
  <2>2. Forward("hour_sweep_cisd", old, a)
    BY <1>1, <1>8, <2>1, ForwardIs
  <2>3. a.run => a.dir \in Sides /\ a.at # 0 /\ a.at = a.swept[a.dir] /\ a.at = HourOf(a.since)
    BY <1>3, <1>8
  <2>4. a.eval <= c /\ a.fired <= a.session
    BY <1>1, <1>8
  <2> QED BY <1>8, <2>1, <2>2, <2>3, <2>4 DEF GoodAt, h
\* Confirmed now.
<1>9. CASE fired
  <2>1. v = [alert |-> Fire(a1, c), fired |-> TRUE, dir |-> a1.dir, since |-> a1.since]
    BY <1>7, <1>9 DEF Verdict
  <2>2. a1.dir \in Sides /\ HourOf(a1.since) = h /\ a1.swept[a1.dir] = h /\ Mark(old, a1.dir) < 2 * h + 1
    <3>1. a1.dir \in Sides /\ HourOf(a1.since) = h /\ a1.swept[a1.dir] = h /\ old.run /\ old.dir = a1.dir
      BY <1>5, <1>7, <1>9
    <3>2. Mark(old, a1.dir) = 2 * h
      <4>1. PICK s \in Sides : s = a1.dir
        BY <3>1
      <4>2. Mark(old, s) = 2 * old.swept[s] + 0
        BY <1>1, <3>1, <4>1, SideMark
      <4> QED BY <1>3, <1>5, <3>1, <4>1, <4>2
    <3> QED BY <1>3, <3>1, <3>2
  <2>3. /\ Timely("hour_sweep_cisd", Report(v, c), ok)
        /\ New("hour_sweep_cisd", [before |-> old, after |-> v.alert, report |-> Report(v, c)])
    BY <1>1, <1>5, <1>7, <1>9, <2>1, <2>2, SweepReport DEF h
  <2>4. v.alert = a2 /\ a2.last = c /\ ~a2.run
    <3>1. a2 = Fire(a1, c)
      BY <1>7, <1>9
    <3>2. a2.last = c /\ ~a2.run
      BY <1>6, <1>9
    <3> QED BY <2>1, <3>1, <3>2
  <2>5. GoodAt("hour_sweep_cisd", a2, c, ok) /\ Forward("hour_sweep_cisd", old, a2)
    BY <1>6, <1>8, <2>4
  <2> QED BY <1>6, <2>3, <2>4, <2>5 DEF Judgement
\* Nothing more to do.
<1>10. CASE ~fired /\ sides = {}
  <2>1. v.alert = a2 /\ v.fired = FALSE
    BY <1>7, <1>10 DEF Verdict
  <2>2. GoodAt("hour_sweep_cisd", a2, c, ok) /\ Forward("hour_sweep_cisd", old, a2)
    BY <1>6, <1>8, <1>10
  <2> QED BY <1>6, <2>1, <2>2 DEF Judgement
\* A side is armed, and may be confirmed by the same candle.
<1>11. CASE ~fired /\ sides # {}
  <2>1. v = Verdict(IF x.cisdNew THEN Fire(a3, c) ELSE a3, x.cisdNew /\ ~TooSoon(a3, c), a3)
    BY <1>7, <1>11
  <2>2. PICK a, s, r : a = a2 /\ s = d /\ s \in Sides /\ r = ArmedBy(a, s, h, c, h)
    BY <1>7, Zenon
  <2>3. a \in AlertType /\ h \in 0..LastCandle /\ h \in Nat /\ a.last = old.last /\ a.swept[s] # h /\ Held(a)
    BY <1>3, <1>6, <1>7, <1>11, <2>2
  <2>4. /\ r \in AlertType /\ r.eval = c /\ r.last = old.last /\ r.fired = old.fired /\ r.session = old.session
        /\ r.dir = s /\ r.at = h /\ r.since = c /\ r.run = TRUE /\ r.swept = [a.swept EXCEPT ![s] = h]
        /\ a.swept \in [Sides -> Nat]
    <3>1. 1 \in 0..Window
      BY DEF RulesConstants
    <3>2. a.swept \in [Sides -> Nat] /\ [a.swept EXCEPT ![s] = h] \in [Sides -> Nat]
      BY <2>3 DEF AlertType
    <3> QED BY <1>1, <2>2, <2>3, <3>1, <3>2 DEF ArmedBy, Arm, AlertType
  <2>5. Mark(old, s) < 2 * h + 1 /\ Held(r)
    <3>1. \A e \in Sides : /\ r.swept[e] = (IF e = s THEN h ELSE a.swept[e]) /\ r.swept[e] <= h
                           /\ a.swept[e] \in Nat /\ a.swept[e] <= h
      BY <2>3, <2>4
    <3>2. ASSUME NEW e \in Sides PROVE Mark(old, e) <= Mark(r, e) /\ (e = s => Mark(old, e) < 2 * h + 1)
      <4>1. /\ Mark(old, e) \in Nat /\ Mark(old, e) <= Mark(a, e) /\ Mark(a, e) \in Nat
            /\ Mark(a, e) = 2 * a.swept[e] + (IF a.run /\ a.dir = e THEN 0 ELSE 1)
            /\ Mark(r, e) = 2 * r.swept[e] + (IF r.run /\ r.dir = e THEN 0 ELSE 1)
        <5>1. Mark(old, e) <= Mark(a, e)
          BY <2>3
        <5> QED BY <1>1, <2>3, <2>4, <5>1, SideMark
      <4>2. a.swept[e] \in Nat /\ a.swept[e] <= h /\ r.swept[e] = (IF e = s THEN h ELSE a.swept[e])
        BY <3>1
      <4>3. CASE e = s
        <5>1. a.swept[e] < h /\ Mark(r, e) = 2 * h + 0 /\ Mark(a, e) <= 2 * a.swept[e] + 1
          BY <2>3, <2>4, <4>1, <4>2, <4>3
        <5> QED BY <2>3, <4>1, <4>2, <5>1
      <4>4. CASE e # s
        <5>1. Mark(r, e) = 2 * a.swept[e] + 1 /\ Mark(a, e) <= 2 * a.swept[e] + 1
          BY <2>4, <4>1, <4>2, <4>4
        <5> QED BY <4>1, <4>2, <4>4, <5>1
      <4> QED BY <4>3, <4>4
    <3>3. r.dir \in Sides /\ r.at = h /\ r.swept[r.dir] = h /\ HourOf(r.since) = h
      <4>1. h = HourOf(c)
        BY DEF h
      <4>2. r.swept[s] = h
        BY <2>2, <3>1
      <4> QED BY <2>2, <2>4, <4>1, <4>2
    <3> QED BY <2>4, <3>1, <3>2, <3>3
  <2>6. r = a3
    BY <2>2
  <2> DEFINE b == Fire(r, c)
  <2>7. /\ b \in AlertType /\ b.run = FALSE /\ b.eval = c /\ b.swept = r.swept
        /\ b.fired = old.fired /\ b.session = old.session
        /\ TooSoon(r, c) => b.last = old.last
        /\ ~TooSoon(r, c) => b.last = c
    BY <2>4, FireIs
  <2> HIDE DEF a3, b
  <2>8. Held(b)
    <3>1. \A e \in Sides : Mark(r, e) <= Mark(b, e) /\ Mark(r, e) \in Nat /\ Mark(b, e) \in Nat /\ Mark(old, e) \in Nat
      BY <1>1, <2>4, <2>7, SettledMark, SideMark
    <3>2. \A e \in Sides : Mark(old, e) <= Mark(b, e)
      BY <2>5, <3>1
    <3> QED BY <2>5, <2>7, <3>2
  <2>9. CASE x.cisdNew /\ ~TooSoon(r, c)
    <3>1. v = [alert |-> b, fired |-> TRUE, dir |-> r.dir, since |-> r.since]
      BY <2>1, <2>6, <2>9 DEF Verdict, b
    <3>2. HourOf(r.since) = HourOf(c) /\ Mark(old, r.dir) < 2 * HourOf(c) + 1 /\ r.swept[r.dir] = HourOf(c) /\ r.dir \in Sides
      BY <2>4, <2>5 DEF h
    <3>3. /\ Timely("hour_sweep_cisd", Report(v, c), ok)
          /\ New("hour_sweep_cisd", [before |-> old, after |-> v.alert, report |-> Report(v, c)])
      <4>1. v = [alert |-> Fire(r, c), fired |-> TRUE, dir |-> r.dir, since |-> r.since]
        BY <3>1 DEF b
      <4>2. r \in AlertType /\ r.last = old.last /\ r.eval = c /\ ~TooSoon(r, c)
        BY <2>4, <2>9
      <4>3. old \in AlertType /\ old.last <= old.eval /\ old.eval < c
        BY <1>1
      <4>4. PICK k : k = "hour_sweep_cisd"
        OBVIOUS
      <4>5. k \in {"sweep_confirm", "hour_sweep_cisd"} /\ (k = "sweep_confirm" /\ ok => c - r.since + 1 <= Window)
        BY <4>4
      <4>6. /\ Timely(k, Report(v, c), ok)
            /\ New(k, [before |-> old, after |-> v.alert, report |-> Report(v, c)])
        BY <3>2, <4>1, <4>2, <4>3, <4>5, SweepReport, SMTT(60)
      <4> QED BY <4>4, <4>6
    <3>4. GoodAt("hour_sweep_cisd", b, c, ok) /\ Forward("hour_sweep_cisd", old, b)
      BY <1>8, <2>7, <2>8
    <3> QED BY <2>7, <3>1, <3>3, <3>4 DEF Judgement
  <2>10. CASE ~(x.cisdNew /\ ~TooSoon(r, c))
    <3>1. v.alert = (IF x.cisdNew THEN b ELSE r) /\ v.fired = FALSE
      <4>1. (x.cisdNew /\ ~TooSoon(r, c)) = FALSE
        BY <2>10
      <4>2. v = Verdict(IF x.cisdNew THEN b ELSE r, FALSE, r)
        BY <2>1, <2>6, <4>1 DEF b
      <4> QED BY <4>2 DEF Verdict
    <3>2. Held(v.alert) /\ v.alert.last \in {old.last, c}
      BY <2>4, <2>5, <2>7, <2>8, <3>1
    <3>3. GoodAt("hour_sweep_cisd", v.alert, c, ok) /\ Forward("hour_sweep_cisd", old, v.alert)
      BY <1>8, <3>2
    <3> QED BY <3>1, <3>2, <3>3 DEF Judgement
  <2> QED BY <2>6, <2>9, <2>10
<1> QED BY <1>9, <1>10, <1>11

\* structure_session: the session of the trigger is the one its candle began in, and is used
\* up by it.
LEMMA SessionJudged ==
    ASSUME RulesConstants, NEW ok \in BOOLEAN, NEW p \in Nat, NEW c \in 1..LastCandle, c \in {p, p + 1},
           NEW i \in DOMAIN Steps, c % Steps[i] = 0,
           NEW old, GoodAt("structure_session", old, p, ok),
           NEW x, x.match \in BOOLEAN,
           NEW v, v = EvalSession(old, c - Steps[i], i, x)
    PROVE  Judgement("structure_session", old, v, c, ok)
<1> DEFINE start == c - Steps[i]
           s == SessionOf(start)
           a1 == Rolled(old, s)
           last == i = Len(Steps)
           a2 == [a1 EXCEPT !.stepAt = start, !.step = i + 1]
           a3 == IF last THEN [a2 EXCEPT !.fired = a1.session, !.last = start] ELSE a2
           Held(a) == /\ a \in AlertType /\ a.eval = old.eval /\ old.fired <= a.fired /\ a.fired <= a.session
<1>1. /\ old \in AlertType /\ old.eval \in Nat /\ old.fired \in Nat /\ old.session \in Nat /\ old.eval <= p
      /\ old.fired <= old.session /\ c \in Nat /\ c >= 1 /\ c <= LastCandle /\ p <= c
  <2>1. old \in AlertType /\ old.eval <= p /\ old.fired <= old.session
    BY DEF GoodAt
  <2>2. c \in Nat /\ c >= 1 /\ c <= LastCandle
    BY DEF RulesConstants
  <2> QED BY <2>1, <2>2, FieldsAre
<1>2. start \in 0..LastCandle /\ start \in Nat /\ s \in Nat /\ i \in 1..Len(Steps) /\ Len(Steps) \in Nat
  <2>1. i \in 1..Len(Steps) /\ Steps[i] \in Nat \ {0} /\ Len(Steps) \in Nat
    BY DEF RulesConstants
  <2>2. start \in Nat
    BY <1>1, <2>1, ModStart
  <2>3. s \in Nat
    BY <2>2, HoursGoOn
  <2> QED BY <1>1, <2>1, <2>2, <2>3 DEF RulesConstants
<1>3. v = CASE s < old.session -> Verdict(old, FALSE, old)
            [] s >= old.session /\ ~Matches(a1, start, i, x) -> Verdict(a1, FALSE, a1)
            [] s >= old.session /\ Matches(a1, start, i, x) -> Verdict(a3, last, a1)
  BY DEF EvalSession
<1> HIDE DEF start, s
<1>4. Held(a1) /\ a1.fired = old.fired /\ (s >= old.session => a1.session = s)
  <2>1. CASE s > old.session
    <3>1. a1 = [old EXCEPT !.session = s, !.step = 1, !.stepAt = -1]
      BY <2>1 DEF Rolled
    <3>2. 1 \in 1..(Len(Steps) + 1) /\ -1 \in Int
      BY <1>2
    <3>3. /\ a1 \in AlertType /\ a1.session = s /\ a1.fired = old.fired /\ a1.eval = old.eval
      BY <1>1, <1>2, <3>1, <3>2 DEF AlertType
    <3> QED BY <1>1, <1>2, <2>1, <3>3
  <2>2. CASE ~(s > old.session)
    <3>1. a1 = old
      BY <2>2 DEF Rolled
    <3> QED BY <1>1, <1>2, <2>2, <3>1
  <2> QED BY <2>1, <2>2
<1> HIDE DEF a1
<1>5. /\ a3 \in AlertType /\ a3.eval = old.eval /\ a3.session = a1.session
      /\ last => a3.fired = a1.session
      /\ ~last => a3.fired = a1.fired
  <2>1. i + 1 \in 1..(Len(Steps) + 1) /\ start \in Int
    BY <1>2
  <2>2. a2 \in AlertType /\ a2.eval = a1.eval /\ a2.session = a1.session /\ a2.fired = a1.fired
    BY <1>4, <2>1 DEF AlertType
  <2> HIDE DEF a2
  <2>3. a1.session \in Nat
    BY <1>4, FieldsAre
  <2>4. CASE last
    BY <1>2, <1>4, <2>2, <2>3, <2>4 DEF AlertType
  <2>5. CASE ~last
    BY <1>4, <2>2, <2>5
  <2> QED BY <2>4, <2>5
<1> HIDE DEF a3, last
\* What is held is good.
<1>6. ASSUME NEW a, Held(a) PROVE GoodAt("structure_session", a, c, ok) /\ Forward("structure_session", old, a)
  BY <1>1, <1>6, ForwardIs DEF GoodAt
<1>7. Held(old)
  BY <1>1
<1>8. CASE s < old.session
  <2>1. v.alert = old /\ v.fired = FALSE
    BY <1>2, <1>1, <1>3, <1>8 DEF Verdict
  <2> QED BY <1>6, <1>7, <2>1 DEF Judgement
<1>9. CASE s >= old.session /\ ~Matches(a1, start, i, x)
  <2>1. v.alert = a1 /\ v.fired = FALSE
    BY <1>1, <1>2, <1>3, <1>9 DEF Verdict
  <2> QED BY <1>4, <1>6, <2>1 DEF Judgement
<1>10. CASE s >= old.session /\ Matches(a1, start, i, x)
  <2>1. v = [alert |-> a3, fired |-> last, dir |-> a1.dir, since |-> a1.since]
    BY <1>1, <1>2, <1>3, <1>10 DEF Verdict
  <2>2. a1.session = s /\ old.fired < s
    BY <1>1, <1>2, <1>4, <1>10 DEF Matches
  <2>3. Held(a3)
    BY <1>1, <1>2, <1>4, <1>5, <2>2
  <2>4. ASSUME last
        PROVE  /\ Timely("structure_session", Report(v, c), ok)
               /\ New("structure_session", [before |-> old, after |-> a3, report |-> Report(v, c)])
    <3> DEFINE t == Report(v, c)
    <3>1. t.at = c /\ t.dir = a1.dir /\ t.since = a1.since /\ t.session = s
      BY <1>5, <2>1, <2>2 DEF Report
    <3>2. t \in Reports
      <4>1. a1.dir \in Sides \cup {None} /\ a1.since \in 0..LastCandle
        BY <1>4 DEF AlertType
      <4>2. t = [at |-> c, dir |-> a1.dir, since |-> a1.since, session |-> s]
        BY <1>5, <2>1, <2>2 DEF Report
      <4> QED BY <1>2, <4>1, <4>2 DEF Reports
    <3>3. s = SessionOf(c - Steps[Len(Steps)])
      BY <2>4 DEF s, start, last
    <3> HIDE DEF t
    <3>4. Timely("structure_session", t, ok)
      BY <3>1, <3>2, <3>3 DEF Timely
    <3>5. Counts("structure_session", t) \subseteq {"fired"}
      BY DEF Counts, MarksOf
    <3>6. Mark(old, "fired") = old.fired /\ Mark(a3, "fired") = s /\ Place(t, "fired") = s
      BY <1>5, <2>2, <2>4, <3>1 DEF Mark, Place, Sides
    <3>7. New("structure_session", [before |-> old, after |-> a3, report |-> t])
      BY <1>2, <2>2, <3>5, <3>6 DEF New, SweepKinds
    <3> QED BY <3>4, <3>7 DEF t
  <2>5. GoodAt("structure_session", a3, c, ok) /\ Forward("structure_session", old, a3)
    BY <1>6, <2>3
  <2> QED BY <2>1, <2>4, <2>5 DEF Judgement
<1> QED BY <1>1, <1>2, <1>8, <1>9, <1>10

\* candle2_closure: a candle is judged once.
LEMMA ClosureJudged ==
    ASSUME RulesConstants, NEW ok \in BOOLEAN, NEW p \in Nat, NEW c \in 1..LastCandle, c \in {p, p + 1},
           NEW old, GoodAt("candle2_closure", old, p, ok), old.eval # c,
           NEW x, x.match \in BOOLEAN, x.side \in Sides,
           NEW v, v = EvalCandle2([old EXCEPT !.eval = c], c, x)
    PROVE  Judgement("candle2_closure", old, v, c, ok)
<1> DEFINE a == [old EXCEPT !.eval = c]
           b == IF x.match THEN [a EXCEPT !.dir = x.side, !.last = c] ELSE a
           t == Report(v, c)
<1>1. /\ old \in AlertType /\ old.eval \in Nat /\ old.last \in Nat /\ old.last <= old.eval /\ old.eval < c
      /\ c \in Nat /\ c \in 0..LastCandle /\ old.fired <= old.session
  <2>1. old \in AlertType /\ old.last <= old.eval /\ old.fired <= old.session /\ old.eval <= p
    BY DEF GoodAt
  <2>2. c \in Nat /\ c \in 0..LastCandle
    BY DEF RulesConstants
  <2> QED BY <2>1, <2>2, FieldsAre
<1>2. a \in AlertType /\ a.eval = c /\ a.last = old.last /\ a.session = old.session /\ a.fired = old.fired
  BY <1>1, Evaluated
<1>3. v = [alert |-> b, fired |-> x.match, dir |-> a.dir, since |-> a.since]
  BY DEF EvalCandle2, Verdict
<1> HIDE DEF a
<1>4. b \in AlertType /\ b.eval = c /\ b.last <= c /\ b.fired = old.fired /\ b.session = old.session
  <2>1. x.side \in Sides \cup {None}
    OBVIOUS
  <2>2. CASE x.match
    <3>1. b = [a EXCEPT !.dir = x.side, !.last = c]
      BY <2>2
    <3> HIDE DEF b
    <3>2. b \in AlertType /\ b.eval = a.eval /\ b.last = c /\ b.fired = a.fired /\ b.session = a.session
      BY <1>1, <1>2, <2>1, <3>1 DEF AlertType
    <3> QED BY <1>1, <1>2, <3>2
  <2>3. CASE ~x.match
    BY <1>1, <1>2, <2>3
  <2> QED BY <2>2, <2>3
<1> HIDE DEF b
<1>5. GoodAt("candle2_closure", b, c, ok) /\ Forward("candle2_closure", old, b)
  BY <1>1, <1>4, ForwardIs DEF GoodAt
<1>6. t \in Reports /\ t.at = c
  <2>1. a.dir \in Sides \cup {None} /\ a.since \in 0..LastCandle /\ b.session \in Nat
    BY <1>2, <1>4 DEF AlertType
  <2>2. t = [at |-> c, dir |-> a.dir, since |-> a.since, session |-> b.session]
    BY <1>3 DEF Report
  <2> QED BY <2>1, <2>2 DEF Reports
<1> HIDE DEF t
<1>7. Timely("candle2_closure", t, ok)
  BY <1>6 DEF Timely
<1>8. New("candle2_closure", [before |-> old, after |-> b, report |-> t])
  <2>1. Counts("candle2_closure", t) \subseteq {"eval"}
    BY DEF Counts, MarksOf
  <2>2. Mark(old, "eval") = old.eval /\ Mark(b, "eval") = c /\ Place(t, "eval") = c
    BY <1>4, <1>6 DEF Mark, Place, Sides
  <2> QED BY <1>1, <2>1, <2>2 DEF New, SweepKinds
<1> QED BY <1>3, <1>4, <1>5, <1>7, <1>8 DEF Judgement, t

-----------------------------------------------------------------------------
(* The invariant.                                                           *)

\* What is good stays good, as time goes by and when something is held back or lost.
LEMMA GoodLater ==
    ASSUME RulesConstants, NEW k, NEW a, NEW c \in Nat, NEW d \in Nat, c <= d,
           NEW ok \in BOOLEAN, NEW ok2 \in BOOLEAN, ok2 => ok, GoodAt(k, a, c, ok)
    PROVE  GoodAt(k, a, d, ok2)
<1>1. a \in AlertType /\ a.eval <= c /\ a.eval \in Nat /\ \A s \in Sides : a.swept[s] \in Nat
  <2>1. a \in AlertType /\ a.eval <= c
    BY DEF GoodAt
  <2> QED BY <2>1, FieldsAre
<1>2. HourOf(c) <= HourOf(d) /\ HourOf(c) \in Nat /\ HourOf(d) \in Nat
  <2>1. HourOf(c) \in 0..c /\ HourOf(d) \in 0..d /\ HourOf(c) <= HourOf(d)
    BY HoursGoOn
  <2> QED BY <2>1
<1>3. ASSUME k = "hour_sweep_cisd", NEW s \in Sides PROVE a.swept[s] <= HourOf(d)
  <2>1. a.swept[s] <= HourOf(c)
    BY <1>3 DEF GoodAt
  <2> QED BY <1>1, <1>2, <2>1
<1>4. a.eval <= d
  BY <1>1
<1> QED BY <1>3, <1>4 DEF GoodAt

LEMMA WriteLater ==
    ASSUME RulesConstants, NEW k, NEW e, NEW c \in Nat, NEW d \in Nat, c <= d,
           NEW ok \in BOOLEAN, NEW ok2 \in BOOLEAN, ok2 => ok, GoodWrite(k, e, c, ok)
    PROVE  GoodWrite(k, e, d, ok2)
<1>1. GoodAt(k, e.before, c, ok) /\ GoodAt(k, e.after, c, ok)
  BY DEF GoodWrite
<1>2. GoodAt(k, e.before, d, ok2) /\ GoodAt(k, e.after, d, ok2)
  BY <1>1, GoodLater
<1>3. Timely(k, e.report, ok) => Timely(k, e.report, ok2)
  BY DEF Timely
<1> QED BY <1>2, <1>3 DEF GoodWrite

\* Marks are numbers, so that going forward can be put together.
LEMMA MarksAre ==
    ASSUME RulesConstants, NEW k \in FourKinds, NEW m \in MarksOf(k)
    PROVE  /\ m \in {"eval", "last", "fired"} \cup Sides
           /\ \A a \in AlertType : Mark(a, m) \in Nat
           /\ \A t \in Reports : Place(t, m) \in Nat
<1>1. m \in {"eval", "last", "fired"} \cup Sides
  BY DEF FourKinds, MarksOf, Sides
<1>2. CASE m \in Sides
  <2>1. \A a \in AlertType : Mark(a, m) \in Nat
    BY <1>2, SideMark
  <2>2. ASSUME NEW t \in Reports PROVE Place(t, m) \in Nat
    <3>1. t.since \in Nat
      BY DEF Reports, RulesConstants
    <3>2. HourOf(t.since) \in 0..t.since
      BY <3>1, HoursGoOn
    <3>3. Place(t, m) = 2 * HourOf(t.since) + 1
      BY <1>2 DEF Place, Sides
    <3> QED BY <3>1, <3>2, <3>3
  <2> QED BY <1>1, <2>1, <2>2
<1>3. CASE m \in {"eval", "last", "fired"}
  <2>1. ASSUME NEW a \in AlertType PROVE Mark(a, m) \in Nat
    <3>1. a.eval \in Nat /\ a.last \in Nat /\ a.fired \in Nat
      BY FieldsAre
    <3> QED BY <1>3, <3>1 DEF Mark, Sides
  <2>2. ASSUME NEW t \in Reports PROVE Place(t, m) \in Nat
    <3>1. t.at \in Nat /\ t.session \in Nat
      BY DEF Reports, RulesConstants
    <3> QED BY <1>3, <3>1 DEF Place, Sides
  <2> QED BY <1>1, <2>1, <2>2
<1> QED BY <1>1, <1>2, <1>3

LEMMA ForwardOn ==
    ASSUME RulesConstants, NEW k \in FourKinds, NEW a \in AlertType, NEW b \in AlertType
    PROVE  /\ Forward(k, a, a)
           /\ \A e \in AlertType : Forward(k, a, b) /\ Forward(k, b, e) => Forward(k, a, e)
<1>1. ASSUME NEW m \in MarksOf(k), NEW e \in AlertType
      PROVE  /\ Mark(a, m) <= Mark(a, m)
             /\ Mark(a, m) <= Mark(b, m) /\ Mark(b, m) <= Mark(e, m) => Mark(a, m) <= Mark(e, m)
  <2>1. Mark(a, m) \in Nat /\ Mark(b, m) \in Nat /\ Mark(e, m) \in Nat
    BY <1>1, MarksAre
  <2> QED BY <2>1
<1> QED BY <1>1 DEF Forward

\* A trigger that is held back leaves a good alert, which has gone forward.
LEMMA HeldBackIsGood ==
    ASSUME RulesConstants, NEW k \in FourKinds, NEW p \in Nat, NEW c \in Nat, p <= c, NEW ok \in BOOLEAN,
           NEW old, GoodAt(k, old, p, ok), NEW v, Judgement(k, old, v, c, ok), v.fired
    PROVE  GoodAt(k, HoldBack(v.alert, old), c, FALSE) /\ Forward(k, old, HoldBack(v.alert, old))
<1> DEFINE a == v.alert
           b == HoldBack(a, old)
<1>1. GoodAt(k, a, c, ok) /\ Forward(k, old, a) /\ (k = "hour_sweep_cisd" => ~a.run) /\ (k # "structure_session" => a.eval = c)
  BY DEF Judgement
<1>2. /\ old \in AlertType /\ a \in AlertType /\ old.eval <= p /\ (k # "structure_session" => old.last <= old.eval)
      /\ a.eval <= c /\ a.fired <= a.session
  BY <1>1 DEF GoodAt
<1>3. old.eval \in Nat /\ old.last \in Nat
  BY <1>2, FieldsAre
<1>4. /\ b \in AlertType /\ b.last = old.last /\ b.run = a.run /\ b.eval = a.eval /\ b.swept = a.swept
      /\ b.session = a.session /\ b.fired = a.fired
  BY <1>2, HoldBackIs
<1> HIDE DEF a, b
<1>5. k # "structure_session" => b.last <= b.eval
  BY <1>1, <1>2, <1>3, <1>4
<1>6. k = "hour_sweep_cisd" => \A s \in Sides : b.swept[s] <= HourOf(c)
  BY <1>1, <1>4 DEF GoodAt
<1>7. GoodAt(k, b, c, FALSE)
  BY <1>1, <1>2, <1>4, <1>5, <1>6 DEF GoodAt
<1>8. Forward(k, old, b)
  <2>1. CASE k = "hour_sweep_cisd"
    <3>1. old.eval <= a.eval /\ \A s \in Sides : Mark(old, s) <= Mark(a, s)
      BY <1>1, <2>1, ForwardIs
    <3>2. \A s \in Sides : Mark(b, s) = Mark(a, s)
      <4>1. TAKE s \in Sides
      <4>2. /\ Mark(a, s) = 2 * a.swept[s] + (IF a.run /\ a.dir = s THEN 0 ELSE 1)
            /\ Mark(b, s) = 2 * b.swept[s] + (IF b.run /\ b.dir = s THEN 0 ELSE 1)
        BY <1>2, <1>4, SideMark
      <4> QED BY <1>1, <1>4, <2>1, <4>2
    <3> QED BY <1>3, <1>4, <2>1, <3>1, <3>2, ForwardIs
  <2>2. CASE k # "hour_sweep_cisd"
    <3>1. k \in {"sweep_confirm", "structure_session", "candle2_closure"}
      BY <2>2 DEF FourKinds
    <3>2. old.last <= b.last
      BY <1>3, <1>4
    <3> QED BY <1>1, <1>4, <3>1, <3>2, ForwardIs
  <2> QED BY <2>1, <2>2
<1> QED BY <1>7, <1>8 DEF a, b

Kept == ~held /\ ~lost
Writes == [before : AlertType, after : AlertType, report : Reports \cup {Quiet}]

\* The writes on their way lead from the row to the alert.
InOrder ==
    /\ queue = <<>> => Forward(kind, row, alert)
    /\ queue # <<>> => Forward(kind, row, queue[1].before) /\ Forward(kind, queue[Len(queue)].after, alert)
    /\ \A n \in DOMAIN queue : n + 1 \in DOMAIN queue => Forward(kind, queue[n].after, queue[n + 1].before)

\* What has been told is counted in the row, and no two reports are told of the same.
Far(s, t) == s.at >= t.at + Gap \/ t.at >= s.at + Gap
Apart(k, s, t) == /\ k \in SweepKinds => Far(s, t)
                  /\ \A m \in Counts(k, s) \cap Counts(k, t) : Place(s, m) # Place(t, m)
ToldApart ==
    /\ \A t \in told : \A m \in Counts(kind, t) : Place(t, m) <= Mark(row, m)
    /\ \A s, t \in told : s # t => Apart(kind, s, t)

Newest == IF queue = <<>> THEN row ELSE queue[Len(queue)].after
SamePending(a, b) == a.dir = b.dir /\ a.at = b.at /\ a.bars = b.bars

RulesInv ==
    /\ RulesTypeOK /\ queue \in Seq(Writes)
    /\ GoodAt(kind, alert, candle, Kept) /\ GoodAt(kind, row, candle, Kept)
    /\ \A n \in DOMAIN queue : GoodWrite(kind, queue[n], candle, Kept)
    /\ \A t \in told : Timely(kind, t, Kept)
    /\ ~lost => SamePending(Newest, alert)
    /\ kind = "sweep_confirm" /\ Kept /\ alert.dir # None => alert.eval = candle
    /\ ~crossed => InOrder /\ ToldApart

\* Whatever the kind, a candle that is judged gives a verdict as above.
LEMMA EvalJudged ==
    ASSUME RulesConstants, RulesInv, NEW c \in 1..LastCandle, c \in {candle, candle + 1},
           NEW i \in DOMAIN Steps, c % Steps[i] = 0, ~Judged(c), NEW v \in Verdicts(c, i)
    PROVE  /\ Judgement(kind, alert, v, c, Kept)
           /\ kind = "sweep_confirm" /\ Kept /\ v.alert.dir # None => v.alert.eval = c
<1>1. PICK x \in Facts : v = Eval(c, i, x)
  BY DEF Verdicts
<1>2. /\ kind \in FourKinds /\ candle \in Nat /\ Kept \in BOOLEAN /\ GoodAt(kind, alert, candle, Kept)
      /\ kind = "sweep_confirm" /\ Kept /\ alert.dir # None => alert.eval = candle
  <2>1. kind \in FourKinds /\ candle \in Nat
    BY DEF RulesInv, RulesTypeOK, RulesConstants, FourKinds
  <2>2. GoodAt(kind, alert, candle, Kept) /\ (kind = "sweep_confirm" /\ Kept /\ alert.dir # None => alert.eval = candle)
    BY DEF RulesInv
  <2> QED BY <2>1, <2>2 DEF Kept
<1>3. kind # "structure_session" => alert.eval # c
  BY DEF Judged
<1>4. CASE kind = "sweep_confirm"
  <2>1. x.breaks \in {{}, {"bear"}, {"bull"}} /\ x.level \in [Sides -> Swings \cup {0}]
    BY <1>1, <1>4 DEF Facts
  <2>2. v = EvalSweepConfirm([alert EXCEPT !.eval = c], c, x)
    BY <1>1, <1>4 DEF Eval
  <2>3. PICK ok \in BOOLEAN : ok = Kept
    BY <1>2
  <2>4. GoodAt("sweep_confirm", alert, candle, ok) /\ (ok /\ alert.dir # None => alert.eval = candle)
    BY <1>2, <1>4, <2>3
  <2>5. Judgement("sweep_confirm", alert, v, c, ok) /\ (ok /\ v.alert.dir # None => v.alert.eval = c)
    BY <1>2, <1>3, <1>4, <2>1, <2>2, <2>4, SweepConfirmJudged
  <2> QED BY <1>4, <2>3, <2>5
<1>5. CASE kind = "hour_sweep_cisd"
  <2>1. x.level \in [Sides -> {0, 1}] /\ x.cisd \in BOOLEAN /\ x.cisdNew \in BOOLEAN /\ x.side \in Sides
    BY <1>1, <1>5 DEF Facts
  <2>2. v = EvalHourSweep([alert EXCEPT !.eval = c], c, x)
    BY <1>1, <1>5 DEF Eval
  <2>3. Judgement("hour_sweep_cisd", alert, v, c, Kept)
    BY <1>2, <1>3, <1>5, <2>1, <2>2, HourSweepJudged
  <2> QED BY <1>5, <2>3
<1>6. CASE kind = "structure_session"
  <2>1. x.match \in BOOLEAN
    BY <1>1, <1>6 DEF Facts
  <2>2. v = EvalSession(alert, c - Steps[i], i, x)
    BY <1>1, <1>6 DEF Eval
  <2>3. Judgement("structure_session", alert, v, c, Kept)
    BY <1>2, <1>6, <2>1, <2>2, SessionJudged
  <2> QED BY <1>6, <2>3
<1>7. CASE kind = "candle2_closure"
  <2>1. x.match \in BOOLEAN /\ x.side \in Sides
    BY <1>1, <1>7 DEF Facts, Sides
  <2>2. v = EvalCandle2([alert EXCEPT !.eval = c], c, x)
    BY <1>1, <1>7 DEF Eval
  <2>3. Judgement("candle2_closure", alert, v, c, Kept)
    BY <1>2, <1>3, <1>7, <2>1, <2>2, ClosureJudged
  <2> QED BY <1>7, <2>3
<1> QED BY <1>2, <1>4, <1>5, <1>6, <1>7 DEF FourKinds

\* What the invariant says at hand.
LEMMA InvFacts ==
    ASSUME RulesConstants, RulesInv
    PROVE  /\ kind \in FourKinds /\ candle \in Nat /\ candle <= LastCandle /\ Kept \in BOOLEAN
           /\ alert \in AlertType /\ row \in AlertType
           /\ queue \in Seq(Writes) /\ Len(queue) \in Nat /\ DOMAIN queue = 1..Len(queue)
           /\ \A n \in DOMAIN queue : /\ queue[n] \in Writes /\ queue[n].before \in AlertType
                                      /\ queue[n].after \in AlertType /\ queue[n].report \in Reports \cup {Quiet}
           /\ \A t \in told : t \in Reports
<1>1. kind \in FourKinds /\ candle \in Nat /\ candle <= LastCandle
  BY DEF RulesInv, RulesTypeOK, RulesConstants, FourKinds
<1>2. Kept \in BOOLEAN
  BY DEF Kept
<1>3. alert \in AlertType /\ row \in AlertType /\ queue \in Seq(Writes)
  BY DEF RulesInv, RulesTypeOK
<1>4. \A t \in told : t \in Reports
  BY DEF RulesInv, Timely
<1>5. Len(queue) \in Nat /\ DOMAIN queue = 1..Len(queue) /\ \A n \in DOMAIN queue : queue[n] \in Writes
  BY <1>3
<1>6. \A e \in Writes : e.before \in AlertType /\ e.after \in AlertType /\ e.report \in Reports \cup {Quiet}
  BY DEF Writes
<1> QED BY <1>1, <1>2, <1>3, <1>4, <1>5, <1>6

LEMMA RulesStart ==
    ASSUME RulesConstants, RulesInit PROVE RulesInv
<1>1. /\ kind \in FourKinds /\ alert = Fresh /\ row = Fresh /\ queue = <<>> /\ candle = 0 /\ told = {}
      /\ held = FALSE /\ crossed = FALSE /\ lost = FALSE /\ failures = 0 /\ crashes = 0 /\ kind \in Kinds
  BY DEF RulesInit, RulesConstants, FourKinds
<1>2. /\ 0 \in 0..LastCandle /\ 0 \in 0..Window /\ 1 \in 1..(Len(Steps) + 1) /\ -1 \in Int
      /\ 0 \in 0..MaxFailures /\ 0 \in 0..MaxCrashes /\ 0 <= MaxQueue
  <2>1. Len(Steps) \in Nat
    BY DEF RulesConstants
  <2> QED BY <2>1 DEF RulesConstants
<1>3. Fresh \in AlertType
  <2>1. [d \in Sides |-> 0] \in [Sides -> Nat] /\ None \in Sides \cup {None}
    OBVIOUS
  <2> QED BY <1>2, <2>1 DEF Fresh, AlertType
<1>4. HourOf(0) \in 0..0
  BY HoursGoOn
<1>5. GoodAt(kind, Fresh, 0, Kept)
  <2>1. /\ Fresh.eval = 0 /\ Fresh.last = 0 /\ Fresh.fired = 0 /\ Fresh.session = 1 /\ Fresh.run = FALSE
        /\ Fresh.dir = None /\ \A d \in Sides : Fresh.swept[d] = 0
    BY DEF Fresh
  <2> QED BY <1>3, <1>4, <2>1 DEF GoodAt
<1>6. RulesTypeOK
  <2>1. Len(queue) <= MaxQueue /\ DOMAIN queue = {}
    BY <1>1, <1>2
  <2> QED BY <1>1, <1>2, <1>3, <2>1 DEF RulesTypeOK
<1>7. InOrder /\ ToldApart
  <2>1. Forward(kind, Fresh, Fresh)
    BY <1>1, <1>3, ForwardOn
  <2> QED BY <1>1, <2>1 DEF InOrder, ToldApart
<1>8. queue \in Seq(Writes) /\ DOMAIN queue = {}
  BY <1>1
<1>9. SamePending(Newest, alert)
  BY <1>1 DEF Newest, SamePending
<1>10. alert.eval = candle
  BY <1>1 DEF Fresh
<1> QED BY <1>1, <1>5, <1>6, <1>7, <1>8, <1>9, <1>10 DEF RulesInv

\* A report that comes out of a queued write is apart from all that were told.
LEMMA NewIsApart ==
    ASSUME RulesConstants, RulesInv, ToldApart, NEW e \in Writes, GoodWrite(kind, e, candle, Kept),
           Forward(kind, row, e.before), e.report # Quiet
    PROVE  /\ \A t \in told : Apart(kind, t, e.report) /\ Apart(kind, e.report, t)
           /\ \A m \in Counts(kind, e.report) : Place(e.report, m) <= Mark(e.after, m)
           /\ \A t \in told : \A m \in Counts(kind, t) : Place(t, m) <= Mark(e.after, m)
<1> DEFINE r == e.report
<1>1. /\ kind \in FourKinds /\ row \in AlertType /\ e.before \in AlertType /\ e.after \in AlertType
      /\ r \in Reports /\ \A t \in told : t \in Reports
  <2>1. e.before \in AlertType /\ e.after \in AlertType /\ e.report \in Reports \cup {Quiet}
    BY DEF Writes
  <2> QED BY <2>1, InvFacts
<1>2. Forward(kind, e.before, e.after) /\ New(kind, e)
  BY DEF GoodWrite
<1> HIDE DEF r
<1>3. ASSUME NEW m \in Counts(kind, r) PROVE Mark(e.before, m) < Place(r, m) /\ Place(r, m) <= Mark(e.after, m)
  BY <1>2, <1>3 DEF New, r
<1>4. ASSUME NEW t \in told, NEW m \in Counts(kind, t)
      PROVE  Place(t, m) <= Mark(e.before, m) /\ Place(t, m) <= Mark(e.after, m)
  <2>1. m \in MarksOf(kind)
    BY DEF Counts
  <2>2. Place(t, m) <= Mark(row, m)
    BY DEF ToldApart
  <2>3. Mark(row, m) <= Mark(e.before, m) /\ Mark(e.before, m) <= Mark(e.after, m)
    BY <1>2, <2>1 DEF Forward
  <2>4. Place(t, m) \in Nat /\ Mark(row, m) \in Nat /\ Mark(e.before, m) \in Nat /\ Mark(e.after, m) \in Nat
    BY <1>1, <2>1, MarksAre
  <2> QED BY <2>2, <2>3, <2>4
<1>5. ASSUME NEW t \in told, NEW m \in Counts(kind, t) \cap Counts(kind, r) PROVE Place(t, m) # Place(r, m)
  <2>1. m \in MarksOf(kind)
    BY <1>5 DEF Counts
  <2>2. Place(t, m) \in Nat /\ Place(r, m) \in Nat /\ Mark(e.before, m) \in Nat
    BY <1>1, <2>1, MarksAre
  <2> QED BY <1>3, <1>4, <1>5, <2>2
<1>6. ASSUME NEW t \in told, kind \in SweepKinds PROVE r.at >= t.at + Gap
  <2>1. "last" \in Counts(kind, t)
    BY <1>6 DEF Counts, MarksOf, SweepKinds, Sides
  <2>2. t.at <= e.before.last
    <3>1. Place(t, "last") <= Mark(e.before, "last")
      BY <1>4, <2>1
    <3>2. Place(t, "last") = t.at /\ Mark(e.before, "last") = e.before.last
      BY DEF Place, Mark, Sides
    <3> QED BY <3>1, <3>2
  <2>3. e.before.last = 0 \/ r.at >= e.before.last + Gap
    BY <1>2, <1>6 DEF New, r
  <2>4. t.at \in Nat /\ t.at >= 1 /\ r.at \in Nat /\ Gap \in Nat /\ e.before.last \in Nat
    BY <1>1, FieldsAre DEF Reports, RulesConstants
  <2> QED BY <2>2, <2>3, <2>4
<1>7. ASSUME NEW t \in told PROVE Apart(kind, t, r) /\ Apart(kind, r, t)
  BY <1>5, <1>6 DEF Apart, Far
<1> QED BY <1>3, <1>4, <1>7 DEF r

\* Write: the row goes forward along the queue, and what is told is new.
LEMMA WriteKeeps ==
    ASSUME RulesConstants, RulesInv, Write PROVE RulesInv'
<1> DEFINE e == Head(queue)
           q == Tail(queue)
<1>1. /\ queue # <<>> /\ row' = e.after /\ queue' = q
      /\ told' = (IF e.report = Quiet THEN told ELSE told \cup {e.report})
      /\ kind' = kind /\ alert' = alert /\ candle' = candle /\ held' = held /\ crossed' = crossed /\ lost' = lost
      /\ failures' = failures /\ crashes' = crashes
  BY DEF Write
<1>2. /\ Len(queue) \in Nat \ {0} /\ DOMAIN queue = 1..Len(queue) /\ e = queue[1] /\ 1 \in DOMAIN queue
      /\ q \in Seq(Writes) /\ Len(q) = Len(queue) - 1 /\ DOMAIN q = 1..Len(q)
      /\ \A n \in 1..Len(q) : q[n] = queue[n + 1] /\ n + 1 \in DOMAIN queue
      /\ queue \in Seq(Writes) /\ (Len(q) = 0 => Len(queue) = 1)
  <2>1. queue \in Seq(Writes)
    BY DEF RulesInv
  <2> QED BY <1>1, <2>1
<1> HIDE DEF e, q
<1>3. /\ kind \in FourKinds /\ row \in AlertType /\ e \in Writes /\ e.after \in AlertType /\ e.before \in AlertType
      /\ GoodWrite(kind, e, candle, Kept)
  <2>1. e.after \in AlertType /\ e.before \in AlertType /\ e \in Writes
    BY <1>2, InvFacts
  <2>2. GoodWrite(kind, e, candle, Kept)
    BY <1>2 DEF RulesInv
  <2> QED BY <2>1, <2>2, InvFacts
<1>4. Kept' = Kept
  BY <1>1 DEF Kept
<1>5. RulesTypeOK'
  <2>1. /\ Len(queue) <= MaxQueue /\ \A n \in DOMAIN queue : queue[n].before \in AlertType /\ queue[n].after \in AlertType
        /\ kind \in Kinds /\ alert \in AlertType /\ candle \in 0..LastCandle /\ held \in BOOLEAN /\ crossed \in BOOLEAN
        /\ lost \in BOOLEAN /\ failures \in 0..MaxFailures /\ crashes \in 0..MaxCrashes
    BY DEF RulesInv, RulesTypeOK
  <2>2. Len(q) <= MaxQueue
    BY <1>2, <2>1 DEF RulesConstants
  <2>3. \A n \in DOMAIN q : q[n].before \in AlertType /\ q[n].after \in AlertType
    BY <1>2, <2>1
  <2> QED BY <1>1, <1>3, <2>1, <2>2, <2>3 DEF RulesTypeOK
<1>6. /\ GoodAt(kind, alert, candle, Kept) /\ GoodAt(kind, e.after, candle, Kept)
      /\ \A n \in DOMAIN q : GoodWrite(kind, q[n], candle, Kept)
  <2>1. GoodAt(kind, alert, candle, Kept) /\ \A n \in DOMAIN queue : GoodWrite(kind, queue[n], candle, Kept)
    BY DEF RulesInv
  <2>2. GoodAt(kind, e.after, candle, Kept)
    BY <1>3 DEF GoodWrite
  <2> QED BY <1>2, <2>1, <2>2
<1>7. \A t \in told' : Timely(kind, t, Kept)
  <2>1. \A t \in told : Timely(kind, t, Kept)
    BY DEF RulesInv
  <2>2. e.report # Quiet => Timely(kind, e.report, Kept)
    BY <1>3 DEF GoodWrite
  <2> QED BY <1>1, <2>1, <2>2
<1>8. Newest' = Newest
  <2>1. CASE q = <<>>
    <3>1. Len(queue) = 1
      <4>1. Len(q) = 0
        BY <2>1
      <4> QED BY <1>2, <4>1
    <3> QED BY <1>1, <1>2, <2>1, <3>1 DEF Newest
  <2>2. CASE q # <<>>
    <3>1. Len(q) \in 1..Len(q) /\ q[Len(q)] = queue[Len(queue)]
      BY <1>2, <2>2
    <3> QED BY <1>1, <2>2, <3>1 DEF Newest
  <2> QED BY <2>1, <2>2
<1>9. ASSUME ~crossed PROVE InOrder' /\ ToldApart'
  <2>1. InOrder /\ ToldApart
    BY <1>9 DEF RulesInv
  <2>2. /\ Forward(kind, row, e.before) /\ Forward(kind, queue[Len(queue)].after, alert)
        /\ \A n \in DOMAIN queue : n + 1 \in DOMAIN queue => Forward(kind, queue[n].after, queue[n + 1].before)
    BY <1>1, <1>2, <2>1 DEF InOrder
  <2>3. InOrder'
    <3>1. q = <<>> => Forward(kind, e.after, alert)
      <4>1. q = <<>> => Len(queue) = 1
        <5>1. q = <<>> => Len(q) = 0
          OBVIOUS
        <5> QED BY <1>2, <5>1
      <4> QED BY <1>2, <2>2, <4>1
    <3>2. q # <<>> => Forward(kind, e.after, q[1].before) /\ Forward(kind, q[Len(q)].after, alert)
      <4>1. SUFFICES ASSUME q # <<>> PROVE Forward(kind, e.after, q[1].before) /\ Forward(kind, q[Len(q)].after, alert)
        OBVIOUS
      <4>2. 1 \in 1..Len(q) /\ Len(q) \in 1..Len(q)
        BY <1>2, <4>1
      <4>3. q[1] = queue[2] /\ 1 + 1 \in DOMAIN queue /\ q[Len(q)] = queue[Len(queue)]
        BY <1>2, <4>2
      <4>4. Forward(kind, queue[1].after, queue[1 + 1].before)
        BY <1>2, <2>2, <4>3
      <4> QED BY <1>2, <2>2, <4>3, <4>4
    <3>3. ASSUME NEW n \in DOMAIN q, n + 1 \in DOMAIN q PROVE Forward(kind, q[n].after, q[n + 1].before)
      <4>1. q[n] = queue[n + 1] /\ q[n + 1] = queue[(n + 1) + 1] /\ n + 1 \in DOMAIN queue /\ (n + 1) + 1 \in DOMAIN queue
        BY <1>2, <3>3
      <4>2. Forward(kind, queue[n + 1].after, queue[(n + 1) + 1].before)
        BY <2>2, <4>1
      <4> QED BY <4>1, <4>2
    <3> QED BY <1>1, <3>1, <3>2, <3>3 DEF InOrder
  <2>4. CASE e.report = Quiet
    <3>1. told' = told
      BY <1>1, <2>4
    <3>2. ASSUME NEW t \in told, NEW m \in Counts(kind, t) PROVE Place(t, m) <= Mark(e.after, m)
      <4>1. m \in MarksOf(kind)
        BY DEF Counts
      <4>2. Place(t, m) <= Mark(row, m) /\ Mark(row, m) <= Mark(e.before, m) /\ Mark(e.before, m) <= Mark(e.after, m)
        BY <1>3, <2>1, <2>2, <4>1 DEF ToldApart, Forward, GoodWrite
      <4>3. Place(t, m) \in Nat /\ Mark(row, m) \in Nat /\ Mark(e.before, m) \in Nat /\ Mark(e.after, m) \in Nat
        <5>1. t \in Reports
          BY InvFacts
        <5> QED BY <1>3, <4>1, <5>1, MarksAre
      <4> QED BY <4>2, <4>3
    <3>3. ToldApart'
      BY <1>1, <2>1, <3>1, <3>2 DEF ToldApart
    <3> QED BY <2>3, <3>3
  <2>5. CASE e.report # Quiet
    <3>1. told' = told \cup {e.report}
      BY <1>1, <2>5
    <3>2. /\ \A t \in told : Apart(kind, t, e.report) /\ Apart(kind, e.report, t)
          /\ \A m \in Counts(kind, e.report) : Place(e.report, m) <= Mark(e.after, m)
          /\ \A t \in told : \A m \in Counts(kind, t) : Place(t, m) <= Mark(e.after, m)
      BY <1>3, <2>1, <2>2, <2>5, NewIsApart
    <3>3. \A s, t \in told : s # t => Apart(kind, s, t)
      BY <2>1 DEF ToldApart
    <3>4. ToldApart'
      BY <1>1, <3>1, <3>2, <3>3 DEF ToldApart
    <3> QED BY <2>3, <3>4
  <2> QED BY <2>4, <2>5
<1>10. /\ ~lost => SamePending(Newest, alert)
       /\ kind = "sweep_confirm" /\ Kept /\ alert.dir # None => alert.eval = candle
  BY DEF RulesInv
<1> QED BY <1>1, <1>2, <1>4, <1>5, <1>6, <1>7, <1>8, <1>9, <1>10 DEF RulesInv, SamePending

\* Fail: nothing is told, and the alert goes back to where the write on its way began.
LEMMA FailKeeps ==
    ASSUME RulesConstants, RulesInv, Fail PROVE RulesInv'
<1> DEFINE e == Head(queue)
           q == Tail(queue)
<1>1. /\ queue # <<>> /\ row' = row /\ queue' = q /\ alert' = e.before /\ told' = told
      /\ kind' = kind /\ candle' = candle /\ held' = held /\ crossed' = (crossed \/ Len(queue) > 1)
      /\ lost' = TRUE /\ failures' = failures + 1 /\ failures < MaxFailures /\ crashes' = crashes
  BY DEF Fail
<1>2. /\ Len(queue) \in Nat \ {0} /\ DOMAIN queue = 1..Len(queue) /\ e = queue[1] /\ 1 \in DOMAIN queue
      /\ q \in Seq(Writes) /\ Len(q) = Len(queue) - 1 /\ DOMAIN q = 1..Len(q)
      /\ \A n \in 1..Len(q) : q[n] = queue[n + 1] /\ n + 1 \in DOMAIN queue
      /\ queue \in Seq(Writes) /\ (Len(q) = 0 => q = <<>>)
  <2>1. queue \in Seq(Writes)
    BY DEF RulesInv
  <2>2. q \in Seq(Writes)
    BY <1>1, <2>1
  <2>3. Len(q) = 0 => q = <<>>
    BY <2>2, EmptySeq
  <2> QED BY <1>1, <2>1, <2>2, <2>3
<1> HIDE DEF e, q
<1>3. /\ kind \in FourKinds /\ candle \in Nat /\ row \in AlertType /\ e.before \in AlertType /\ Kept \in BOOLEAN
      /\ ~Kept'
  <2>1. e.before \in AlertType
    BY <1>2, InvFacts
  <2>2. ~Kept'
    BY <1>1 DEF Kept
  <2> QED BY <2>1, <2>2, InvFacts
<1>4. RulesTypeOK'
  <2>1. /\ Len(queue) <= MaxQueue /\ \A n \in DOMAIN queue : queue[n].before \in AlertType /\ queue[n].after \in AlertType
        /\ kind \in Kinds /\ candle \in 0..LastCandle /\ held \in BOOLEAN /\ crossed \in BOOLEAN
        /\ failures \in 0..MaxFailures /\ crashes \in 0..MaxCrashes
    BY DEF RulesInv, RulesTypeOK
  <2>2. Len(q) <= MaxQueue
    BY <1>2, <2>1 DEF RulesConstants
  <2>3. \A n \in DOMAIN q : q[n].before \in AlertType /\ q[n].after \in AlertType
    BY <1>2, <2>1
  <2>4. failures + 1 \in 0..MaxFailures
    BY <1>1, <2>1 DEF RulesConstants
  <2> QED BY <1>1, <1>3, <2>1, <2>2, <2>3, <2>4 DEF RulesTypeOK
<1>5. /\ GoodAt(kind, e.before, candle, FALSE) /\ GoodAt(kind, row, candle, FALSE)
      /\ \A n \in DOMAIN q : GoodWrite(kind, q[n], candle, FALSE)
  <2>1. GoodAt(kind, row, candle, Kept) /\ \A n \in DOMAIN queue : GoodWrite(kind, queue[n], candle, Kept)
    BY DEF RulesInv
  <2>2. GoodAt(kind, e.before, candle, Kept)
    BY <1>2, <2>1 DEF GoodWrite
  <2>3. \A n \in DOMAIN q : GoodWrite(kind, q[n], candle, Kept)
    BY <1>2, <2>1
  <2>4. candle <= candle
    BY <1>3
  <2>5. GoodAt(kind, e.before, candle, FALSE) /\ GoodAt(kind, row, candle, FALSE)
    BY <1>3, <2>1, <2>2, <2>4, GoodLater
  <2>6. \A n \in DOMAIN q : GoodWrite(kind, q[n], candle, FALSE)
    BY <1>3, <2>3, <2>4, WriteLater
  <2> QED BY <2>5, <2>6
<1>6. \A t \in told : Timely(kind, t, FALSE)
  BY DEF RulesInv, Timely
<1>7. ASSUME ~crossed' PROVE InOrder' /\ ToldApart'
  <2>1. ~crossed /\ q = <<>>
    <3>1. ~crossed /\ ~(Len(queue) > 1)
      BY <1>1, <1>7
    <3>2. Len(q) = 0
      BY <1>2, <3>1
    <3> QED BY <1>2, <3>1, <3>2
  <2>2. InOrder /\ ToldApart
    BY <2>1 DEF RulesInv
  <2>3. Forward(kind, row, e.before)
    BY <1>1, <1>2, <2>2 DEF InOrder
  <2>4. DOMAIN q = {}
    BY <2>1
  <2>5. InOrder'
    BY <1>1, <2>1, <2>3, <2>4 DEF InOrder
  <2>6. ToldApart'
    BY <1>1, <2>2 DEF ToldApart
  <2> QED BY <2>5, <2>6
<1>8. Kept' = FALSE
  BY <1>1 DEF Kept
<1> QED BY <1>1, <1>2, <1>4, <1>5, <1>6, <1>7, <1>8 DEF RulesInv

\* Restart: the alert is the row.
LEMMA RestartKeeps ==
    ASSUME RulesConstants, RulesInv, Restart PROVE RulesInv'
<1>1. /\ row' = row /\ queue' = <<>> /\ alert' = row /\ told' = told /\ kind' = kind /\ candle' = candle
      /\ held' = held /\ crossed' = crossed /\ lost' = (lost \/ queue # <<>>)
      /\ failures' = failures /\ crashes' = crashes + 1 /\ crashes < MaxCrashes
  BY DEF Restart
<1>2. kind \in FourKinds /\ candle \in Nat /\ row \in AlertType /\ alert \in AlertType /\ Kept \in BOOLEAN
  BY InvFacts
<1>3. Kept' \in BOOLEAN /\ (Kept' => Kept /\ queue = <<>>) /\ (~lost' => queue = <<>>)
  BY <1>1 DEF Kept, RulesInv, RulesTypeOK
<1>4. RulesTypeOK'
  <2>1. /\ kind \in Kinds /\ candle \in 0..LastCandle /\ held \in BOOLEAN /\ crossed \in BOOLEAN /\ lost \in BOOLEAN
        /\ failures \in 0..MaxFailures /\ crashes \in 0..MaxCrashes
    BY DEF RulesInv, RulesTypeOK
  <2>2. Len(<<>>) <= MaxQueue /\ DOMAIN <<>> = {}
    BY DEF RulesConstants
  <2>3. crashes + 1 \in 0..MaxCrashes
    BY <1>1, <2>1 DEF RulesConstants
  <2> QED BY <1>1, <1>2, <2>1, <2>2, <2>3 DEF RulesTypeOK
<1>5. GoodAt(kind, row, candle, Kept')
  <2>1. GoodAt(kind, row, candle, Kept)
    BY DEF RulesInv
  <2>2. candle <= candle
    BY <1>2
  <2>3. PICK ok, ok2 \in BOOLEAN : ok = Kept /\ ok2 = Kept'
    BY <1>2, <1>3
  <2>4. GoodAt(kind, row, candle, ok2)
    BY <1>2, <1>3, <2>1, <2>2, <2>3, GoodLater
  <2> QED BY <2>3, <2>4
<1>6. \A t \in told : Timely(kind, t, Kept')
  BY <1>3 DEF RulesInv, Timely
\* The row counts as many candles as the alert: it is as new.
<1>7. ASSUME kind = "sweep_confirm", Kept', row.dir # None PROVE row.eval = candle
  <2>1. Kept /\ Newest = row /\ SamePending(Newest, alert)
    BY <1>3, <1>7 DEF Newest, RulesInv, Kept
  <2>2. alert.dir # None /\ alert.at = row.at /\ alert.bars = row.bars
    BY <1>7, <2>1 DEF SamePending
  <2>3. alert.eval = candle
    BY <1>7, <2>1, <2>2 DEF RulesInv
  <2>4. GoodAt(kind, alert, candle, Kept) /\ GoodAt(kind, row, candle, Kept)
    BY DEF RulesInv
  <2>5. alert.bars = alert.eval - alert.at + 1 /\ row.bars = row.eval - row.at + 1
    BY <1>7, <2>1, <2>2, <2>4 DEF GoodAt
  <2>6. alert.eval \in Nat /\ row.eval \in Nat /\ row.at \in Nat
    BY <1>2, FieldsAre
  <2>7. alert.eval - row.at + 1 = row.eval - row.at + 1
    BY <2>2, <2>5
  <2> QED BY <2>3, <2>6, <2>7
<1>8. ASSUME ~crossed PROVE InOrder' /\ ToldApart'
  <2>1. ToldApart
    BY <1>8 DEF RulesInv
  <2>2. Forward(kind, row, row)
    BY <1>2, ForwardOn
  <2>3. DOMAIN <<>> = {}
    OBVIOUS
  <2> QED BY <1>1, <2>1, <2>2, <2>3 DEF InOrder, ToldApart
<1>9. SamePending(Newest', alert') /\ queue' \in Seq(Writes) /\ DOMAIN queue' = {}
  BY <1>1 DEF Newest, SamePending
<1> QED BY <1>1, <1>4, <1>5, <1>6, <1>7, <1>8, <1>9 DEF RulesInv, SamePending

\* A candle keeps what it does not touch good.
LEMMA CandleKeepsOthers ==
    ASSUME RulesConstants, RulesInv, NEW c \in Nat, candle <= c, NEW ok \in BOOLEAN, ok => Kept
    PROVE  /\ GoodAt(kind, alert, c, ok) /\ GoodAt(kind, row, c, ok)
           /\ \A n \in DOMAIN queue : GoodWrite(kind, queue[n], c, ok)
           /\ \A t \in told : Timely(kind, t, ok)
<1>1. candle \in Nat /\ Kept \in BOOLEAN
  BY InvFacts
<1>2. /\ GoodAt(kind, alert, candle, Kept) /\ GoodAt(kind, row, candle, Kept)
      /\ \A n \in DOMAIN queue : GoodWrite(kind, queue[n], candle, Kept)
      /\ \A t \in told : Timely(kind, t, Kept)
  BY DEF RulesInv
<1>3. GoodAt(kind, alert, c, ok) /\ GoodAt(kind, row, c, ok)
  BY <1>1, <1>2, GoodLater
<1>4. \A n \in DOMAIN queue : GoodWrite(kind, queue[n], c, ok)
  BY <1>1, <1>2, WriteLater
<1>5. \A t \in told : Timely(kind, t, ok)
  BY <1>2 DEF Timely
<1> QED BY <1>3, <1>4, <1>5

\* A candle that was judged before changes nothing but the time.
LEMMA JudgedKeeps ==
    ASSUME RulesConstants, RulesInv, NEW c \in 1..LastCandle, c \in {candle, candle + 1}, Judged(c),
           candle' = c, UNCHANGED <<alert, queue, held, kind, row, told, crossed, lost, failures, crashes>>
    PROVE  RulesInv'
<1>1. c \in Nat /\ candle <= c /\ c \in 0..LastCandle /\ Kept \in BOOLEAN
  <2>1. c \in Nat /\ c \in 0..LastCandle
    BY DEF RulesConstants
  <2> QED BY <2>1, InvFacts
<1>2. /\ GoodAt(kind, alert, c, Kept) /\ GoodAt(kind, row, c, Kept)
      /\ \A n \in DOMAIN queue : GoodWrite(kind, queue[n], c, Kept)
      /\ \A t \in told : Timely(kind, t, Kept)
  BY <1>1, CandleKeepsOthers
<1>3. Kept' = Kept /\ Newest' = Newest
  BY DEF Kept, Newest
<1>4. RulesTypeOK'
  <2>1. RulesTypeOK
    BY DEF RulesInv
  <2> QED BY <1>1, <2>1 DEF RulesTypeOK
<1>5. (InOrder /\ ToldApart) => (InOrder' /\ ToldApart')
  BY DEF InOrder, ToldApart
<1>6. alert.eval = c
  BY DEF Judged
<1> QED BY <1>2, <1>3, <1>4, <1>5, <1>6 DEF RulesInv

\* A candle that is judged, whether its trigger is held back or not.
After(v, allowed) == IF allowed THEN v.alert ELSE HoldBack(v.alert, alert)
Unwritten(after) == [after EXCEPT !.eval = alert.eval] = alert /\ kind # "candle2_closure"
WriteOf(v, allowed, c) == [before |-> alert, after |-> After(v, allowed),
                           report |-> IF v.fired /\ allowed THEN Report(v, c) ELSE Quiet]

LEMMA VerdictIsGood ==
    ASSUME RulesConstants, RulesInv, NEW c \in 1..LastCandle, c \in {candle, candle + 1},
           NEW i \in DOMAIN Steps, c % Steps[i] = 0, ~Judged(c), NEW v \in Verdicts(c, i),
           NEW allowed \in BOOLEAN, v.fired \/ allowed
    PROVE  /\ After(v, allowed) \in AlertType
           /\ GoodAt(kind, After(v, allowed), c, Kept /\ allowed)
           /\ Forward(kind, alert, After(v, allowed))
           /\ kind = "sweep_confirm" /\ Kept /\ allowed /\ After(v, allowed).dir # None => After(v, allowed).eval = c
           /\ WriteOf(v, allowed, c) \in Writes
           /\ GoodWrite(kind, WriteOf(v, allowed, c), c, Kept /\ allowed)
<1> DEFINE a == After(v, allowed)
           e == WriteOf(v, allowed, c)
<1>1. /\ Judgement(kind, alert, v, c, Kept)
      /\ kind = "sweep_confirm" /\ Kept /\ v.alert.dir # None => v.alert.eval = c
  BY EvalJudged
<1>2. /\ kind \in FourKinds /\ candle \in Nat /\ c \in Nat /\ candle <= c /\ Kept \in BOOLEAN /\ alert \in AlertType
      /\ (Kept /\ allowed) \in BOOLEAN
  <2>1. c \in Nat
    BY DEF RulesConstants
  <2> QED BY <2>1, InvFacts
<1>3. GoodAt(kind, alert, candle, Kept)
  BY DEF RulesInv
<1>4. GoodAt(kind, a, c, Kept /\ allowed) /\ Forward(kind, alert, a)
  <2>1. CASE allowed
    <3>1. a = v.alert /\ (Kept /\ allowed) = Kept
      BY <1>2, <2>1 DEF After
    <3> QED BY <1>1, <3>1 DEF Judgement
  <2>2. CASE ~allowed
    <3>1. a = HoldBack(v.alert, alert) /\ (Kept /\ allowed) = FALSE /\ v.fired
      BY <2>2 DEF After
    <3> QED BY <1>1, <1>2, <1>3, <3>1, HeldBackIsGood
  <2> QED BY <2>1, <2>2
<1>5. a \in AlertType
  BY <1>4 DEF GoodAt
<1>6. kind = "sweep_confirm" /\ Kept /\ allowed /\ a.dir # None => a.eval = c
  BY <1>1 DEF After
<1>7. /\ e.before = alert /\ e.after = a /\ e.report = (IF v.fired /\ allowed THEN Report(v, c) ELSE Quiet)
      /\ e = [before |-> alert, after |-> a, report |-> e.report]
  BY DEF WriteOf
<1> HIDE DEF a, e
<1>8. e.report # Quiet => /\ v.fired /\ allowed /\ a = v.alert /\ e.report = Report(v, c)
                          /\ e = [before |-> alert, after |-> v.alert, report |-> Report(v, c)]
  BY <1>7 DEF a, After
<1>9. e.report # Quiet => Timely(kind, e.report, Kept) /\ New(kind, e)
  BY <1>1, <1>8 DEF Judgement
<1>10. e.report # Quiet => Timely(kind, e.report, Kept /\ allowed)
  BY <1>9 DEF Timely
<1>11. e \in Writes
  <2>1. e.report \in Reports \cup {Quiet}
    BY <1>9 DEF Timely
  <2> QED BY <1>2, <1>5, <1>7, <2>1 DEF Writes
<1>12. GoodAt(kind, alert, c, Kept /\ allowed)
  <2>1. PICK ok, ok2 \in BOOLEAN : ok = Kept /\ ok2 = (Kept /\ allowed)
    BY <1>2
  <2>2. GoodAt(kind, alert, c, ok2)
    BY <1>2, <1>3, <2>1, GoodLater
  <2> QED BY <2>1, <2>2
<1>13. GoodWrite(kind, e, c, Kept /\ allowed)
  BY <1>4, <1>7, <1>9, <1>10, <1>12 DEF GoodWrite
<1> QED BY <1>4, <1>5, <1>6, <1>11, <1>13 DEF a, e

LEMMA CandleKeeps ==
    ASSUME RulesConstants, RulesInv, NEW c \in 1..LastCandle, NEW i \in DOMAIN Steps, CheckCandle(c, i)
    PROVE  RulesInv'
<1>1. /\ c \in {candle, candle + 1} /\ c % Steps[i] = 0 /\ Len(queue) < MaxQueue /\ candle' = c
      /\ kind' = kind /\ row' = row /\ told' = told /\ crossed' = crossed /\ lost' = lost
      /\ failures' = failures /\ crashes' = crashes
  BY DEF CheckCandle
<1>2. CASE Judged(c)
  <2>1. UNCHANGED <<alert, queue, held>>
    BY <1>2 DEF CheckCandle
  <2> QED BY <1>1, <1>2, <2>1, JudgedKeeps
<1>3. CASE ~Judged(c)
  <2>1. PICK v \in Verdicts(c, i), allowed \in BOOLEAN :
            /\ v.fired \/ allowed
            /\ alert' = After(v, allowed)
            /\ queue' = IF Unwritten(After(v, allowed)) THEN queue ELSE Append(queue, WriteOf(v, allowed, c))
            /\ held' = (held \/ ~allowed)
    BY <1>3 DEF CheckCandle, After, Unwritten, WriteOf
  <2> DEFINE a == After(v, allowed)
             e == WriteOf(v, allowed, c)
  <2>2. /\ a \in AlertType /\ GoodAt(kind, a, c, Kept /\ allowed) /\ Forward(kind, alert, a)
        /\ kind = "sweep_confirm" /\ Kept /\ allowed /\ a.dir # None => a.eval = c
        /\ e \in Writes /\ GoodWrite(kind, e, c, Kept /\ allowed)
    BY <1>1, <1>3, <2>1, VerdictIsGood
  <2>3. e.before = alert /\ e.after = a
    BY DEF WriteOf
  <2>4. /\ alert' = a /\ queue' = (IF Unwritten(a) THEN queue ELSE Append(queue, e)) /\ held' = (held \/ ~allowed)
    BY <2>1
  <2> HIDE DEF a, e
  <2>5. /\ kind \in FourKinds /\ c \in Nat /\ candle <= c /\ c \in 0..LastCandle /\ alert \in AlertType /\ row \in AlertType
        /\ queue \in Seq(Writes) /\ Len(queue) \in Nat /\ DOMAIN queue = 1..Len(queue)
        /\ \A n \in DOMAIN queue : queue[n].before \in AlertType /\ queue[n].after \in AlertType
    <3>1. c \in Nat /\ c \in 0..LastCandle
      BY DEF RulesConstants
    <3> QED BY <1>1, <3>1, InvFacts
  <2>6. Kept' = (Kept /\ allowed) /\ (Kept /\ allowed) \in BOOLEAN
    BY <1>1, <2>4 DEF Kept
  <2>7. /\ GoodAt(kind, row, c, Kept /\ allowed)
        /\ \A n \in DOMAIN queue : GoodWrite(kind, queue[n], c, Kept /\ allowed)
        /\ \A t \in told : Timely(kind, t, Kept /\ allowed)
    <3>1. PICK ok \in BOOLEAN : ok = (Kept /\ allowed)
      BY <2>6
    <3>2. /\ GoodAt(kind, row, c, ok) /\ \A n \in DOMAIN queue : GoodWrite(kind, queue[n], c, ok)
          /\ \A t \in told : Timely(kind, t, ok)
      BY <2>5, <3>1, CandleKeepsOthers
    <3> QED BY <3>1, <3>2
  <2>8. /\ kind \in Kinds /\ row \in AlertType /\ Len(queue) <= MaxQueue /\ crossed \in BOOLEAN /\ lost \in BOOLEAN
        /\ held' \in BOOLEAN /\ failures \in 0..MaxFailures /\ crashes \in 0..MaxCrashes
        /\ Len(queue) + 1 <= MaxQueue
    <3>1. /\ kind \in Kinds /\ row \in AlertType /\ Len(queue) <= MaxQueue /\ crossed \in BOOLEAN /\ lost \in BOOLEAN
          /\ held \in BOOLEAN /\ failures \in 0..MaxFailures /\ crashes \in 0..MaxCrashes
      BY DEF RulesInv, RulesTypeOK
    <3>2. Len(queue) + 1 <= MaxQueue
      BY <1>1, <2>5 DEF RulesConstants
    <3> QED BY <2>4, <3>1, <3>2
  <2>9. ~crossed => InOrder /\ ToldApart
    BY DEF RulesInv
  <2>10. ~crossed => ToldApart'
    BY <1>1, <2>9 DEF ToldApart
  \* Nothing to write.
  <2>11. CASE Unwritten(a)
    <3>1. queue' = queue
      BY <2>4, <2>11
    <3>2. RulesTypeOK'
      BY <1>1, <2>2, <2>4, <2>5, <2>8, <3>1 DEF RulesTypeOK
    <3>3. ~lost => SamePending(Newest', a)
      <4>1. a.dir = alert.dir /\ a.at = alert.at /\ a.bars = alert.bars
        <5>1. [a EXCEPT !.eval = alert.eval] = alert
          BY <2>11 DEF Unwritten
        <5>2. /\ [a EXCEPT !.eval = alert.eval].dir = a.dir
              /\ [a EXCEPT !.eval = alert.eval].at = a.at
              /\ [a EXCEPT !.eval = alert.eval].bars = a.bars
          BY <2>2 DEF AlertType
        <5> QED BY <5>1, <5>2
      <4>2. ~lost => SamePending(Newest, alert)
        BY DEF RulesInv
      <4>3. Newest' = Newest
        BY <1>1, <3>1 DEF Newest
      <4> QED BY <4>1, <4>2, <4>3 DEF SamePending
    <3>4. ~crossed => InOrder'
      <4>1. SUFFICES ASSUME ~crossed PROVE InOrder'
        OBVIOUS
      <4>2. /\ queue = <<>> => Forward(kind, row, alert)
            /\ queue # <<>> => Forward(kind, row, queue[1].before) /\ Forward(kind, queue[Len(queue)].after, alert)
            /\ \A n \in DOMAIN queue : n + 1 \in DOMAIN queue => Forward(kind, queue[n].after, queue[n + 1].before)
        BY <2>9, <4>1 DEF InOrder
      <4>3. queue = <<>> => Forward(kind, row, a)
        BY <2>2, <2>5, <4>2, ForwardOn
      <4>4. queue # <<>> => Forward(kind, queue[Len(queue)].after, a)
        <5>1. SUFFICES ASSUME queue # <<>> PROVE Forward(kind, queue[Len(queue)].after, a)
          OBVIOUS
        <5>2. Len(queue) \in DOMAIN queue
          BY <2>5, <5>1
        <5>3. queue[Len(queue)].after \in AlertType
          BY <2>5, <5>2
        <5> QED BY <2>2, <2>5, <4>2, <5>1, <5>3, ForwardOn
      <4> QED BY <1>1, <2>4, <3>1, <4>2, <4>3, <4>4 DEF InOrder
    <3>5. kind = "sweep_confirm" /\ Kept' /\ a.dir # None => a.eval = c
      BY <2>2, <2>6
    <3> QED BY <1>1, <2>2, <2>4, <2>5, <2>6, <2>7, <2>10, <3>1, <3>2, <3>3, <3>4, <3>5 DEF RulesInv, SamePending
  \* The alert as it was and as it is now is written.
  <2>12. CASE ~Unwritten(a)
    <3> DEFINE q == Append(queue, e)
    <3>1. queue' = q
      BY <2>4, <2>12
    <3>2. /\ q \in Seq(Writes) /\ Len(q) = Len(queue) + 1 /\ DOMAIN q = 1..(Len(queue) + 1) /\ q # <<>>
          /\ q[Len(queue) + 1] = e /\ \A n \in DOMAIN queue : q[n] = queue[n]
      BY <2>2, <2>5
    <3> HIDE DEF q
    <3>3. \A n \in DOMAIN q : n \in DOMAIN queue \/ n = Len(queue) + 1
      BY <2>5, <3>2
    <3>4. \A n \in DOMAIN q : q[n].before \in AlertType /\ q[n].after \in AlertType
      BY <2>2, <2>3, <2>5, <3>2, <3>3
    <3>5. \A n \in DOMAIN q : GoodWrite(kind, q[n], c, Kept /\ allowed)
      BY <2>2, <2>7, <3>2, <3>3
    <3>6. RulesTypeOK'
      BY <1>1, <2>2, <2>4, <2>5, <2>8, <3>1, <3>2, <3>4 DEF RulesTypeOK
    <3>7. Newest' = a
      BY <2>3, <3>1, <3>2 DEF Newest
    <3>8. ~crossed => InOrder'
      <4>1. SUFFICES ASSUME ~crossed PROVE InOrder'
        OBVIOUS
      <4>2. /\ queue = <<>> => Forward(kind, row, alert)
            /\ queue # <<>> => Forward(kind, row, queue[1].before) /\ Forward(kind, queue[Len(queue)].after, alert)
            /\ \A n \in DOMAIN queue : n + 1 \in DOMAIN queue => Forward(kind, queue[n].after, queue[n + 1].before)
        BY <2>9, <4>1 DEF InOrder
      <4>3. Forward(kind, a, a)
        BY <2>2, <2>5, ForwardOn
      <4>4. Forward(kind, q[Len(q)].after, a)
        BY <2>3, <3>2, <4>3
      <4>5. Forward(kind, row, q[1].before)
        <5>1. CASE queue = <<>>
          <6>1. Len(queue) = 0
            BY <5>1
          <6>2. q[1] = e
            BY <3>2, <6>1
          <6> QED BY <2>3, <4>2, <5>1, <6>2
        <5>2. CASE queue # <<>>
          <6>1. 1 \in DOMAIN queue
            BY <2>5, <5>2
          <6> QED BY <3>2, <4>2, <5>2, <6>1
        <5> QED BY <5>1, <5>2
      <4>6. ASSUME NEW n \in DOMAIN q, n + 1 \in DOMAIN q PROVE Forward(kind, q[n].after, q[n + 1].before)
        <5>1. n \in DOMAIN queue /\ (n + 1 \in DOMAIN queue \/ n = Len(queue))
          BY <2>5, <3>2, <4>6
        <5>2. CASE n + 1 \in DOMAIN queue
          BY <3>2, <4>2, <5>1, <5>2
        <5>3. CASE n = Len(queue)
          <6>1. queue # <<>> /\ q[n] = queue[Len(queue)] /\ q[n + 1] = e
            BY <3>2, <5>1, <5>3
          <6> QED BY <2>3, <4>2, <6>1
        <5> QED BY <5>1, <5>2, <5>3
      <4> QED BY <1>1, <2>4, <3>1, <3>2, <4>4, <4>5, <4>6 DEF InOrder
    <3>9. kind = "sweep_confirm" /\ Kept' /\ a.dir # None => a.eval = c
      BY <2>2, <2>6
    <3> QED BY <1>1, <2>2, <2>4, <2>6, <2>7, <2>10, <3>1, <3>2, <3>5, <3>6, <3>7, <3>8, <3>9 DEF RulesInv, SamePending
  <2> QED BY <2>11, <2>12
<1> QED BY <1>2, <1>3

-----------------------------------------------------------------------------
(* What follows.                                                            *)

LEMMA RulesInvariant ==
    ASSUME RulesConstants PROVE RulesSpec => []RulesInv
<1>1. RulesInit => RulesInv
  BY RulesStart
<1>2. ASSUME RulesInv, [RulesNext]_rules PROVE RulesInv'
  <2>1. CASE Write
    BY <1>2, <2>1, WriteKeeps
  <2>2. CASE Fail
    BY <1>2, <2>2, FailKeeps
  <2>3. CASE Restart
    BY <1>2, <2>3, RestartKeeps
  <2>4. ASSUME NEW c \in 1..LastCandle, NEW i \in DOMAIN Steps, CheckCandle(c, i) PROVE RulesInv'
    BY <1>2, <2>4, CandleKeeps
  <2>5. CASE UNCHANGED rules
    BY <1>2, <2>5 DEF rules, RulesInv, RulesTypeOK, Kept, Newest, InOrder, ToldApart
  <2> QED BY <1>2, <2>1, <2>2, <2>3, <2>4, <2>5 DEF RulesNext
<1> QED BY <1>1, <1>2, PTL DEF RulesSpec

\* Reports that stand at different places are reports of different things.
LEMMA ReportsAreInTime ==
    ASSUME RulesConstants, RulesInv PROVE ReportsInTime /\ ReportsOnce
<1>1. /\ RulesTypeOK /\ kind \in FourKinds /\ \A t \in told : Timely(kind, t, Kept) /\ t \in Reports
      /\ ~crossed => \A s, t \in told : s # t => Apart(kind, s, t)
  <2>1. \A t \in told : Timely(kind, t, Kept)
    BY DEF RulesInv
  <2>2. ~crossed => \A s, t \in told : s # t => Apart(kind, s, t)
    BY DEF RulesInv, ToldApart
  <2>3. RulesTypeOK
    BY DEF RulesInv
  <2> QED BY <2>1, <2>2, <2>3, InvFacts
<1>2. GapKept
  BY <1>1 DEF GapKept, Apart, Far
<1>3. InWindow
  BY <1>1 DEF InWindow, Timely, Kept
<1>4. InItsHour
  BY <1>1 DEF InItsHour, Timely
<1>5. ASSUME ~crossed, NEW s \in told, NEW t \in told, NEW m \in Counts(kind, s) \cap Counts(kind, t),
             Place(s, m) = Place(t, m)
      PROVE  s = t
  BY <1>1, <1>5 DEF Apart
<1>6. SideOnce
  <2>1. SUFFICES ASSUME kind = "hour_sweep_cisd", ~crossed, NEW s \in told, NEW t \in told,
                        HourOf(s.since) = HourOf(t.since), s.dir = t.dir
                 PROVE  s = t
    BY DEF SideOnce
  <2>2. PICK d \in Sides : s.dir = d /\ t.dir = d
    BY <1>1, <2>1 DEF Timely
  <2>3. d \in Counts(kind, s) \cap Counts(kind, t)
    BY <2>1, <2>2 DEF Counts, MarksOf, Sides
  <2>4. Place(s, d) = Place(t, d)
    BY <2>1 DEF Place, Sides
  <2> QED BY <1>5, <2>1, <2>3, <2>4
<1>7. ASSUME kind = "structure_session", ~crossed, NEW s \in told, NEW t \in told, s.session = t.session PROVE s = t
  <2>1. "fired" \in Counts(kind, s) \cap Counts(kind, t)
    BY <1>7 DEF Counts, MarksOf, Sides
  <2>2. Place(s, "fired") = Place(t, "fired")
    BY <1>7 DEF Place, Sides
  <2> QED BY <1>5, <1>7, <2>1, <2>2
<1>8. CandleOnce
  <2>1. SUFFICES ASSUME ~crossed, NEW s \in told, NEW t \in told, s.at = t.at PROVE s = t
    BY DEF CandleOnce
  <2>2. CASE kind = "structure_session"
    <3>1. s.session = t.session
      BY <1>1, <2>1, <2>2 DEF Timely
    <3> QED BY <1>7, <2>1, <2>2, <3>1
  <2>3. CASE kind # "structure_session"
    <3>1. "eval" \in Counts(kind, s) \cap Counts(kind, t)
      BY <1>1, <2>3 DEF FourKinds, Counts, MarksOf, Sides
    <3>2. Place(s, "eval") = Place(t, "eval")
      BY <2>1 DEF Place, Sides
    <3> QED BY <1>5, <2>1, <3>1, <3>2
  <2> QED BY <2>2, <2>3
<1> QED BY <1>1, <1>2, <1>3, <1>4, <1>6, <1>7, <1>8 DEF ReportsInTime, ReportsOnce, SessionOnce

\* No report comes within the gap, after the window of its sweep or in another hour, from
\* whatever candles and through restarts (checkCandleAlerts, evalSweepConfirmLocked,
\* evalHourSweepCisdLocked).
THEOREM ReportsComeInTime ==
    ASSUME RulesConstants PROVE RulesSpec => []ReportsInTime
<1>1. RulesInv => ReportsInTime
  BY ReportsAreInTime
<1> QED BY <1>1, RulesInvariant, PTL

\* A side of an hour, a session and a candle are reported once, although candles come again
\* and writes fail (checkCandleAlerts, evalStructureSessionLocked, persistAlertThen).
THEOREM ReportsComeOnce ==
    ASSUME RulesConstants PROVE RulesSpec => []ReportsOnce
<1>1. RulesInv => ReportsOnce
  BY ReportsAreInTime
<1> QED BY <1>1, RulesInvariant, PTL
=============================================================================
