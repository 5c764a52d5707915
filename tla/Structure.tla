------------------------------ MODULE Structure ------------------------------
(***************************************************************************)
(* The candles AlertManager keeps for one pair and interval, and the       *)
(* market structure it reads off them: StructureTrack, the incremental     *)
(* engine of StructureEngine.cc, and the history that a warm-up puts in    *)
(* the place of the candles.                                               *)
(*                                                                         *)
(* The market makes candles of a few shapes.  A closed candle reaches the  *)
(* track in time, late or never; a warm-up brings all candles of the last  *)
(* hours up to the moment it was asked.  Swings are not filtered by size   *)
(* (minSwingAtr 0, the default) and the buffer beyond a level, breakK      *)
(* times the average range, is a constant.                                 *)
(***************************************************************************)
EXTENDS Integers, Sequences, SequencesExt

CONSTANTS
    Shapes,         \* shapes of candles: [high, low, close]
    Buffer,         \* how far a close must be beyond a level to break it
    Window,         \* kStructureWindow
    Enough,         \* candles it takes to look for structure
    LastCandle, MaxHistories, MaxBehind   \* bounds

\* What the proofs assume of them.  The buffer may be below zero: nothing checks break_k.
StructureConstants ==
    /\ Shapes \subseteq [high : Int, low : Int, close : Int] /\ Buffer \in Int
    /\ Window \in Nat /\ LastCandle \in Nat /\ MaxHistories \in Nat /\ MaxBehind \in Nat

VARIABLES
    market,         \* the candles the market has made
    track,          \* StructureTrack::candles
    engine,         \* StructureTrack::engines, one of them; NoEngine when there is none
    asked,          \* candles made when a warm-up asked; 0 when none is on its way
    histories,
    behind          \* times the market made a candle before the track had the last one

structure == <<market, track, engine, asked, histories, behind>>

-----------------------------------------------------------------------------
(* IncrementalStructure *)

NoPivot == [at |-> 0, price |-> 0, broken |-> FALSE, swept |-> FALSE]
NoEngine == [applied |-> -1]
Reset == [applied |-> 0, last |-> <<>>, high |-> NoPivot, low |-> NoPivot, trend |-> "none", events |-> <<>>]

Event(kind, dir, level, bar) == [kind |-> kind, dir |-> dir, from |-> level.at, at |-> bar.at]
BrokenNot(pivot) == pivot                                 \* mutant: what is broken breaks again
Broken(pivot) == [pivot EXCEPT !.broken = TRUE]
SweptOf(pivot) == [pivot EXCEPT !.swept = TRUE]
Reversed(trend, against) == IF trend = against THEN "choch" ELSE "bos"

\* Engine::onBar: the last high first, the last low after it, in the trend the high left.
SweepsHigh(bar, p) == bar.high > p.price /\ bar.close < p.price /\ ~p.swept
AgainstHigh(e, bar) ==
    LET p == e.high
    IN IF p = NoPivot \/ p.broken THEN e
       ELSE IF bar.close > p.price + Buffer
            THEN [e EXCEPT !.high = Broken(p), !.trend = "up",
                           !.events = Append(@, Event(Reversed(e.trend, "down"), "bull", p, bar))]
       ELSE IF SweepsHigh(bar, p)
            THEN [e EXCEPT !.high = SweptOf(p), !.events = Append(@, Event("sweep", "bear", p, bar))]
       ELSE e
AgainstLow(e, bar) ==
    LET p == e.low
    IN IF p = NoPivot \/ p.broken THEN e
       ELSE IF bar.close < p.price - Buffer
            THEN [e EXCEPT !.low = Broken(p), !.trend = "down",
                           !.events = Append(@, Event(Reversed(e.trend, "up"), "bear", p, bar))]
       ELSE IF bar.low < p.price /\ bar.close > p.price /\ ~p.swept
            THEN [e EXCEPT !.low = SweptOf(p), !.events = Append(@, Event("sweep", "bull", p, bar))]
       ELSE e

\* FractalPivotDetector::update and Engine::onPivot: the candle before this one may be a high
\* or, when it is not, a low.
IsHigh(a, b, c) == b.high > a.high /\ b.high > c.high
IsLow(a, b, c) == b.low < a.low /\ b.low < c.low
Pivot(at, price) == [NoPivot EXCEPT !.at = at, !.price = price]
OnPivot(e, bar) ==
    IF Len(e.last) < 2 THEN e
    ELSE LET a == e.last[1]
             b == e.last[2]
         IN IF IsHigh(a, b, bar) THEN [e EXCEPT !.high = Pivot(b.at, b.high)]
            ELSE IF IsLow(a, b, bar) THEN [e EXCEPT !.low = Pivot(b.at, b.low)]
            ELSE e

\* IncrementalStructure::append: the candle is held against the levels before it makes one.
Judge(e, bar) == OnPivot(AgainstLow(AgainstHigh(e, bar), bar), bar)
Take(e, bar) ==
    LET j == Judge(e, bar)
        kept == IF Len(e.last) = 2 THEN <<e.last[2], bar>> ELSE Append(e.last, bar)
    IN [j EXCEPT !.applied = @ + 1, !.last = kept]
Applied(bars) == LET read[n \in 0..Len(bars)] == IF n = 0 THEN Reset ELSE Take(read[n - 1], bars[n])
                 IN read[Len(bars)]

-----------------------------------------------------------------------------
(* The track *)

Newest == IF track = <<>> THEN 0 ELSE Last(track).at
LastOf(s, n) == IF Len(s) > n THEN SubSeq(s, Len(s) - n + 1, Len(s)) ELSE s

StructureInit == market = <<>> /\ track = <<>> /\ engine = NoEngine /\ asked = 0 /\ histories = 0
                 /\ behind = 0

\* A candle closes.
Candle(n, s) == [at |-> n, high |-> s.high, low |-> s.low, close |-> s.close]
Close == /\ Len(market) < LastCandle
         /\ behind' = behind + (IF Newest < Len(market) THEN 1 ELSE 0) /\ behind' <= MaxBehind
         /\ \E s \in Shapes : market' = Append(market, Candle(Len(market) + 1, s))
         /\ UNCHANGED <<track, engine, asked, histories>>

\* appendStructureCandle: what is not newer than the last candle is dropped; a track that is
\* full loses its first candle, and what was read off it.  A candle is at most one late.
AppendCandle(n) ==
    LET bars == Append(track, market[n])
        full == Len(bars) > Window
    IN /\ n \in {Len(market) - 1, Len(market)} /\ n > Newest
       /\ track' = LastOf(bars, Window)
       /\ engine' = IF engine = NoEngine THEN engine
                    ELSE IF full THEN Applied(LastOf(bars, Window))
                    ELSE Take(engine, market[n])
       /\ UNCHANGED <<market, asked, histories, behind>>

\* structureEngine: made when first asked for, and again when candles came without it.
Stale == engine = NoEngine \/ engine.applied # Len(track)
Look == /\ Len(track) >= Enough /\ Stale
        /\ engine' = Applied(track)
        /\ UNCHANGED <<market, track, asked, histories, behind>>

\* A warm-up asks for history, and ingestStructureHistory takes the answer: candles already
\* tracked are kept when they are newer than the answer.
AskHistory == /\ asked = 0 /\ market # <<>> /\ histories < MaxHistories
              /\ asked' = Len(market) /\ histories' = histories + 1
              /\ UNCHANGED <<market, track, engine, behind>>
Newer(bars) ==
    LET kept[n \in 0..Len(track)] == IF n = 0 THEN <<>>
                                     ELSE IF track[n].at > Last(bars).at THEN Append(kept[n - 1], track[n])
                                     ELSE kept[n - 1]
    IN kept[Len(track)]
Kept(bars) == Newer(bars)
Ingest == /\ asked > 0
          /\ \E first \in {1, asked} :                    \* as much history as there is, or one candle
                LET bars == SubSeq(market, first, asked)
                IN track' = LastOf(bars \o Kept(bars), Window)
          /\ engine' = NoEngine /\ asked' = 0
          /\ UNCHANGED <<market, histories, behind>>

StructureNext == Close \/ Look \/ AskHistory \/ Ingest \/ \E n \in 1..LastCandle : AppendCandle(n)
StructureSpec == StructureInit /\ [][StructureNext]_structure

-----------------------------------------------------------------------------
(* The reference: what a high, a break and a sweep are, said of the whole track at once *)

Highs(b) == {j \in 2..Len(b) - 1 : IsHigh(b[j - 1], b[j], b[j + 1])}
Lows(b) == {j \in 2..Len(b) - 1 : IsLow(b[j - 1], b[j], b[j + 1])} \ Highs(b)
\* The level in force at candle i: the latest one confirmed by an earlier candle.
InForce(js, i) == {j \in js : j < i - 1 /\ \A k \in js : k < i - 1 => k <= j}
BrokeHigh(b, j, i) == b[i].close > b[j].high + Buffer
BrokeLow(b, j, i) == b[i].close < b[j].low - Buffer
DippedHigh(b, j, i) == b[i].high > b[j].high /\ b[i].close < b[j].high /\ ~BrokeHigh(b, j, i)
DippedLow(b, j, i) == b[i].low < b[j].low /\ b[i].close > b[j].low /\ ~BrokeLow(b, j, i)
\* The candles i and levels j such that i is the first to do something to the level in force,
\* unbroken until then.
Firsts(b, js, Does(_, _, _), Breaks(_, _, _)) ==
    {p \in (DOMAIN b) \X js :
        /\ p[2] \in InForce(js, p[1]) /\ Does(b, p[2], p[1])
        /\ \A k \in p[2] + 2..p[1] - 1 : ~Does(b, p[2], k) /\ ~Breaks(b, p[2], k)}
Bulls(b) == Firsts(b, Highs(b), BrokeHigh, BrokeHigh)
Bears(b) == Firsts(b, Lows(b), BrokeLow, BrokeLow)
At(pairs) == {p[1] : p \in pairs}
\* Of the candles ks and ls, those before i: the last one is of ks.
LastIsOf(ks, ls, i) == \E k \in ks : k < i /\ \A l \in ls : l < i => l <= k
\* A candle that breaks both sides is read as a bull and then as a bear.
Character(reverses) == IF reverses THEN "choch" ELSE "bos"
Meaning(b) ==
    LET up == At(Bulls(b))
        down == At(Bears(b))
        Of(kind, dir, p) == Event(kind, dir, b[p[2]], b[p[1]])
    IN {Of(Character(LastIsOf(down, up, p[1])), "bull", p) : p \in Bulls(b)}
       \cup {Of(Character(p[1] \in up \/ (LastIsOf(up, down, p[1]) /\ ~LastIsOf(down, up, p[1]))), "bear", p) :
                p \in Bears(b)}
       \cup {Of("sweep", "bear", p) : p \in Firsts(b, Highs(b), DippedHigh, BrokeHigh)}
       \cup {Of("sweep", "bull", p) : p \in Firsts(b, Lows(b), DippedLow, BrokeLow)}

-----------------------------------------------------------------------------
(* Properties *)

\* Every variable keeps its type.
StructureTypeOK ==
    /\ Len(market) <= LastCandle /\ Len(track) <= Window
    /\ ToSet(track) \subseteq ToSet(market)
    /\ engine = NoEngine \/ engine.applied \in 0..Len(track)
    /\ asked \in 0..Len(market) /\ histories \in 0..MaxHistories /\ behind \in 0..MaxBehind

\* The candles of a track are in order and none is there twice, whatever warm-ups and late
\* candles were mixed.
TrackInOrder == \A m, n \in DOMAIN track : m < n => track[m].at < track[n].at

\* What an engine has read off candle by candle, reset or not, is what the candles of its
\* track mean taken together: an alert fires on no event that a second look would not show.
ReadsTheTrack == engine # NoEngine /\ ~Stale => ToSet(engine.events) = Meaning(track)

\* A level is broken at most once and swept at most once, and never swept when it is broken.
LevelsSpent ==
    engine # NoEngine =>
        \A m, n \in DOMAIN engine.events :
            LET a == engine.events[m]
                z == engine.events[n]
                sameLevel == a.from = z.from /\ ((a.kind = "sweep") # (a.dir = "bull"))
                                              = ((z.kind = "sweep") # (z.dir = "bull"))
            IN m < n /\ sameLevel => a.kind = "sweep" /\ z.kind # "sweep"

\* The track is the market's, and what was read off it is what it says.
TrackKept == StructureTypeOK /\ TrackInOrder /\ ReadsTheTrack /\ LevelsSpent
=============================================================================
