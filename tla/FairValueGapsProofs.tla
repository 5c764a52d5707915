------------------------- MODULE FairValueGapsProofs --------------------------
(***************************************************************************)
(* That the gap pipeline takes only whole bars for whole, keeps no filled  *)
(* gap, reports each gap once and only such as there are, for any course   *)
(* of the price, any size of the bars and of the queue, and any number of  *)
(* restarts, lost connections and failed requests.                         *)
(*                                                                         *)
(* A bar is whole because everything that has been closed is in it: the    *)
(* running bar has the quotes before Seen, the running minute those since, *)
(* an answer those up to the moment it was made in, and bar and minute the *)
(* ones that came after.  The one minute that may lack quotes is the one   *)
(* the process joined, and the bar it began is let go as joined.  That two *)
(* bars are neighbours is said of the Line, the detector's bars and those  *)
(* that wait behind them: no bar of the broker lies between two of them,   *)
(* or between the last and the running bar.                                *)
(***************************************************************************)
EXTENDS FairValueGaps, SequenceTheorems, FiniteSetTheorems, WellFoundedInduction, TLAPS

\* Every variable keeps its type.
BarSet == [at : Int, low : Nat, high : Nat, partial : BOOLEAN]
LineBar == [at : Int, low : Nat, high : Nat, partial : BOOLEAN, warmup : BOOLEAN]
MinuteSet == [at : Nat, low : Nat, high : Nat]
\* What begins with a minute.
Full(m) == \E k \in Int : m = k * Minute
ZoneSet == [at : Int, bottom : Nat, top : Nat, bull : BOOLEAN]
GapsTyped ==
    /\ tape \in Tapes /\ base \in Offsets /\ clock \in 0..Len(tape) /\ online \in BOOLEAN
    /\ m1 \in {NoM1} \cup MinuteSet
    /\ m1 # NoM1 => m1.at <= clock /\ Full(m1.at)
    /\ bar \in {NoBar} \cup BarSet /\ offset \in {0, base}
    /\ queue \in Seq(LineBar) /\ Len(queue) <= MaxQueue
    /\ series \in Seq(LineBar) /\ Len(series) <= 3
    /\ zones \in SUBSET ZoneSet /\ IsFiniteSet(zones) /\ Cardinality(zones) <= MaxZones
    /\ history \in {"cold", "asked", "done"}
    /\ answer \in Seq(BarSet) /\ \A n \in DOMAIN answer : ~answer[n].partial
    /\ m1 = NoM1 /\ bar # NoBar => offset = base /\ ~bar.partial /\ history = "done"
    /\ told \in Seq([zone : ZoneSet, lost : BOOLEAN])
    /\ joined \in BOOLEAN /\ (joined => m1 # NoM1)
    /\ lost \in BOOLEAN /\ faults \in 0..MaxFaults

\* The detector's bars are whole and in order.
SeriesGrows == /\ \A n \in DOMAIN series : ~series[n].partial
               /\ \A m, n \in DOMAIN series : m < n => series[m].at < series[n].at

\* A quote of the broker, and what the aggregator has closed: all before Seen.
Quote(n) == n \in 1..clock /\ tape[n] # 0
Seen == IF m1 = NoM1 THEN clock + 1 ELSE m1.at

\* The running minute is the broker's last, its prices are, and what it lacks is in the bar,
\* unless it is the one that was joined.
InMinute(price) == \E n \in 1..clock : Quote(n) /\ m1.at <= n /\ tape[n] = price
BarHas(n) == bar # NoBar /\ offset = base /\ StartFor(m1.at, base) = bar.at /\ tape[n] \in bar.low..bar.high
Held(n) == tape[n] \in m1.low..m1.high \/ BarHas(n)
AllHeld == \A n \in 1..clock : Quote(n) /\ m1.at <= n => Held(n)
LastIsSeen == m1 # NoM1 => /\ \A n \in 1..clock : Quote(n) => n < m1.at + Minute
                           /\ InMinute(m1.low) /\ InMinute(m1.high)
                           /\ AllHeld \/ (joined /\ bar = NoBar)

\* The running bar is one of the broker's, its prices are, no later minute has been closed, and
\* if it is not partial or joined it has them all.
Occurs(price, start) == \E n \in 1..clock : Quote(n) /\ tape[n] = price /\ start <= n /\ n < start + Size
Within(b, from) == \A n \in 1..clock :
                      Quote(n) /\ from < n /\ b.at <= n /\ n < Seen => tape[n] \in b.low..b.high
BarIsCurrent ==
    bar # NoBar /\ offset = base =>
        /\ bar.at \in Starts(quotes) /\ Occurs(bar.low, bar.at) /\ Occurs(bar.high, bar.at)
        /\ \A n \in 1..clock : Quote(n) /\ n < Seen => n < bar.at + Size
        /\ ~bar.partial /\ ~joined => Within(bar, 0)

\* The answer is of some moment, and bar and minute have what came after it.
MadeAt(t) == /\ answer = BrokerBars(SubSeq(tape, 1, t))
             /\ bar = NoBar => \A n \in 1..clock : Quote(n) /\ t < n => n >= Seen
             /\ bar # NoBar /\ offset = base => Within(bar, t)
             /\ m1 # NoM1 => \A n \in 1..clock : Quote(n) /\ t < n /\ m1.at <= n
                               => tape[n] \in m1.low..m1.high
AnswerIsCurrent == history = "asked" => \E t \in 0..clock : MadeAt(t)

\* What is in the line or in the series and not partial is the broker's, and over.
WholeIn(s) == \A n \in DOMAIN s :
    ~s[n].partial => /\ s[n] = Tagged(BarOf(s[n].at, quotes), s[n].warmup)
                     /\ s[n].at \in Starts(quotes) /\ OverBy(s[n].at)

\* Nothing is left out: a bar follows every earlier one of the broker, unless the series starts
\* with it.
Reaches(s, n, x) == \E m \in 1..(n - 1) : (\A k \in m..(n - 1) : ~s[k].partial) /\ x <= s[m].at
Follows(s, n, at) == \A x \in Starts(quotes) : x < at => Reaches(s, n, x)
Continues(s, n) == n > 1 /\ ~s[n - 1].partial
Gapless(s) == \A n \in DOMAIN s : Continues(s, n) /\ ~s[n].partial => Follows(s, n, s[n].at)
Line == series \o queue
NextFollows ==
    Continues(Line, Len(Line) + 1) =>
        /\ bar # NoBar /\ offset = base /\ ~bar.partial => Follows(Line, Len(Line) + 1, bar.at)
        /\ bar = NoBar => \A n \in 1..clock : Quote(n) /\ n < Seen
                              => Reaches(Line, Len(Line) + 1, StartFor(n, base))

\* With nothing running only history is in the line.
OnlyHistory == bar = NoBar => /\ \A n \in DOMAIN queue : queue[n].warmup /\ ~queue[n].partial
                              /\ \A n \in DOMAIN series : series[n].warmup
                              /\ Line # <<>> => history = "done"

NothingMissed == ~lost => /\ LastIsSeen /\ BarIsCurrent /\ AnswerIsCurrent
                          /\ WholeIn(series) /\ WholeIn(queue) /\ Gapless(Line) /\ NextFollows

\* A bar made of ticks is not partial if one was before, and none is before the restart at r.
NoMorePartials == bar # NoBar /\ ~bar.partial /\ \A n \in DOMAIN queue : ~queue[n].partial
PartialFirst == \A n \in DOMAIN queue :
    /\ ~queue[n].warmup /\ ~queue[n].partial
         => ~bar.partial /\ \A m \in DOMAIN queue : n < m => ~queue[m].partial
    /\ queue[n].partial => ~queue[n].warmup
ToldBefore(r) ==
    /\ m1 # NoM1 => m1.at + Minute > r
    /\ bar # NoBar => bar.at + Size > r
    /\ \A n \in DOMAIN queue : ~queue[n].warmup => queue[n].at + Size > r
    /\ \A n \in DOMAIN told : ~told[n].lost =>
          /\ OverBy(told[n].zone.at)
          /\ \/ told[n].zone.at + Size <= r
             \/ series # <<>> /\ told[n].zone.at <= Last(series).at /\ NoMorePartials
ToldInTime == \E r \in 0..clock : ToldBefore(r)

GapsInv == /\ GapsTyped /\ SeriesGrows /\ OnlyHistory /\ NothingMissed
           /\ ZonesAreOpen /\ PartialFirst /\ ToldInTime /\ ReportedOnce

\* A set of naturals that is not empty has a least number.
LEMMA LeastOfSet ==
    ASSUME NEW T \in SUBSET Nat, T # {}
    PROVE  \E m \in T : \A k \in T : m <= k
<1> DEFINE R == OpToRel(<, Nat)
<1>1. IsWellFoundedOn(R, Nat)
  BY NatLessThanWellFounded
<1>2. \A x, y \in Nat : x < y => <<x, y>> \in R
  BY DEF OpToRel
<1> HIDE DEF R
<1>3. \E m \in T : \A k \in T : ~(<<k, m>> \in R)
  BY <1>1, WFMin
<1>4. PICK m \in T : \A k \in T : ~(<<k, m>> \in R)
  BY <1>3
<1>5. ASSUME NEW k \in T PROVE m <= k
  <2>1. k \in Nat /\ m \in Nat
    OBVIOUS
  <2>2. ~(k < m)
    BY <1>2, <1>4, <2>1
  <2> QED BY <2>1, <2>2
<1> QED BY <1>5

\* Induction over the naturals, said of a set.
LEMMA Induct ==
    ASSUME NEW S, 0 \in S, \A n \in Nat : n \in S => n + 1 \in S
    PROVE  \A n \in Nat : n \in S
<1> DEFINE T == Nat \ S
<1> SUFFICES ASSUME T # {} PROVE FALSE
  OBVIOUS
<1>1. PICK m \in T : \A k \in T : m <= k
  BY LeastOfSet
<1>2. m \in Nat /\ m # 0 /\ m \notin S
  OBVIOUS
<1>3. m - 1 \in Nat /\ m - 1 \notin T
  BY <1>1, <1>2
<1>4. (m - 1) + 1 \in S
  BY <1>3
<1>5. (m - 1) + 1 = m
  BY <1>2
<1> QED BY <1>2, <1>4, <1>5

-----------------------------------------------------------------------------
(* Buckets *)

\* A product keeps the order of the naturals it is taken of.
LEMMA Scaled == ASSUME NEW S \in Nat \ {0}, NEW i \in Int, NEW j \in Int, i < j
                PROVE  i * S + S <= j * S
<1>1. i * S + S = (i + 1) * S
  BY SMT
<1>2. (j - (i + 1)) * S >= 0
  BY SMT
<1>3. j * S = (j - (i + 1)) * S + (i + 1) * S
  BY SMT
<1> QED BY <1>1, <1>2, <1>3, SMT

\* A moment is in its bucket,
LEMMA InBucket == ASSUME GapsConstants, NEW m \in Int, NEW off \in Int
                  PROVE  StartFor(m, off) \in Int /\ StartFor(m, off) <= m /\ m < StartFor(m, off) + Size
<1>1. Size \in Nat \ {0}
  BY DEF GapsConstants
<1>2. (m - off) \div Size \in Int /\ (m - off) % Size \in 0..(Size - 1)
  BY <1>1, SMT
<1>3. m - off = Size * ((m - off) \div Size) + ((m - off) % Size)
  BY <1>1, SMT
<1> DEFINE k == (m - off) \div Size
<1>4. k * Size \in Int /\ Size * k = k * Size
  BY <1>1, <1>2, SMT
<1> QED BY <1>1, <1>2, <1>3, <1>4 DEF StartFor

\* and two buckets are apart.
LEMMA BucketsApart ==
    ASSUME GapsConstants, NEW m \in Int, NEW n \in Int, NEW off \in Int,
           StartFor(m, off) < StartFor(n, off)
    PROVE  StartFor(m, off) + Size <= StartFor(n, off) /\ m < n
<1>1. Size \in Nat \ {0}
  BY DEF GapsConstants
<1> DEFINE i == (m - off) \div Size
           j == (n - off) \div Size
<1>2. i \in Int /\ j \in Int
  BY <1>1, SMT
<1>3. i * Size \in Int /\ j * Size \in Int
  BY <1>1, <1>2, SMT
<1>4. StartFor(m, off) = i * Size + off /\ StartFor(n, off) = j * Size + off
  BY DEF StartFor
<1> HIDE DEF i, j
<1>5. i < j
  <2>1. CASE i = j
    BY <2>1, <1>4, <1>3
  <2>2. CASE j < i
    <3>1. j * Size + Size <= i * Size
      BY <2>2, <1>1, <1>2, Scaled
    <3> QED BY <3>1, <1>1, <1>3, <1>4
  <2> QED BY <2>1, <2>2, <1>2
<1>6. i * Size + Size <= j * Size
  BY <1>1, <1>2, <1>5, Scaled
<1>7. StartFor(m, off) + Size <= StartFor(n, off)
  BY <1>1, <1>3, <1>4, <1>6
<1>8. StartFor(m, off) \in Int /\ m < StartFor(m, off) + Size
  BY InBucket, Zenon
<1>9. StartFor(n, off) \in Int /\ StartFor(n, off) <= n
  BY InBucket, Zenon
<1> QED BY <1>1, <1>7, <1>8, <1>9

\* Later moments are in later buckets, or in the same.
LEMMA BucketsGrow ==
    ASSUME GapsConstants, NEW m \in Int, NEW n \in Int, NEW off \in Int, m <= n
    PROVE  StartFor(m, off) <= StartFor(n, off)
<1>1. StartFor(m, off) \in Int /\ StartFor(n, off) \in Int
  BY InBucket
<1> QED BY <1>1, BucketsApart

\* Two minutes are apart.
LEMMA MinutesApart ==
    ASSUME GapsConstants, NEW m \in Int, NEW n \in Int, Full(m), Full(n), m < n + Minute, m # n
    PROVE  m + Minute <= n
<1>1. Minute \in Nat \ {0}
  BY DEF GapsConstants
<1>2. PICK i \in Int : m = i * Minute
  BY DEF Full
<1>3. PICK j \in Int : n = j * Minute
  BY DEF Full
<1>4. CASE i < j
  BY <1>1, <1>2, <1>3, <1>4, Scaled
<1>5. CASE j < i
  <2>1. j * Minute + Minute <= i * Minute
    BY <1>1, <1>5, Scaled
  <2> QED BY <1>1, <1>2, <1>3, <2>1
<1>6. i # j
  BY <1>2, <1>3
<1> QED BY <1>4, <1>5, <1>6

\* The minute of a moment.
LEMMA MinuteIs ==
    ASSUME GapsConstants, NEW n \in Nat
    PROVE  MinuteOf(n) \in Nat /\ MinuteOf(n) <= n /\ n < MinuteOf(n) + Minute /\ Full(MinuteOf(n))
<1>1. Minute \in Nat \ {0}
  BY DEF GapsConstants
<1>2. n \div Minute \in Nat /\ n % Minute \in 0..(Minute - 1)
  BY <1>1, SMT
<1>3. n = Minute * (n \div Minute) + (n % Minute)
  BY <1>1, SMT
<1> DEFINE k == n \div Minute
<1>4. k * Minute \in Nat /\ Minute * k = k * Minute
  BY <1>1, <1>2, SMT
<1>5. Full(MinuteOf(n))
  BY <1>2 DEF Full, MinuteOf
<1> QED BY <1>1, <1>2, <1>3, <1>4, <1>5 DEF MinuteOf

\* Buckets are of whole minutes: all moments of a minute are in the bucket it begins in.
LEMMA MinuteInBucket ==
    ASSUME GapsConstants, NEW m \in Int, NEW off \in Int, Full(m), Full(off),
           NEW n \in Int, m <= n, n < m + Minute
    PROVE  StartFor(n, off) = StartFor(m, off) /\ m + Minute <= StartFor(m, off) + Size
<1>1. Size \in Nat \ {0} /\ Minute \in Nat \ {0}
  BY DEF GapsConstants
<1>2. PICK k \in Int : Size = k * Minute
  BY DEF GapsConstants
<1>3. PICK j \in Int : off = j * Minute
  BY DEF Full
<1> DEFINE q == (m - off) \div Size
           s == StartFor(m, off)
<1>4. q \in Int
  BY <1>1, SMT
<1>5. s \in Int /\ s <= m /\ m < s + Size
  BY InBucket
<1>6. s = q * Size + off
  BY DEF StartFor
<1> HIDE DEF q, s
<1>7. Full(s + Size)
  <2>1. q * (k * Minute) = (q * k) * Minute
    BY <1>1, <1>4
  <2>2. (q * k) * Minute + j * Minute + k * Minute = (q * k + j + k) * Minute
    BY <1>1, <1>4
  <2>3. q * k + j + k \in Int
    BY <1>4
  <2>4. s + Size = (q * k + j + k) * Minute
    BY <1>2, <1>3, <1>6, <2>1, <2>2
  <2> QED BY <2>3, <2>4 DEF Full
<1>8. m + Minute <= s + Size
  <2>1. s + Size \in Int /\ m < (s + Size) + Minute /\ m # s + Size
    BY <1>1, <1>5
  <2> QED BY <1>7, <2>1, MinutesApart
<1>9. StartFor(n, off) \in Int /\ StartFor(n, off) <= n /\ s <= StartFor(n, off)
  BY InBucket, BucketsGrow DEF s
<1>10. ~(s < StartFor(n, off))
  <2>1. s < StartFor(n, off) => s + Size <= StartFor(n, off)
    BY BucketsApart DEF s
  <2> QED BY <1>1, <1>5, <1>8, <1>9, <2>1
<1>11. StartFor(n, off) = s
  BY <1>5, <1>9, <1>10
<1> QED BY <1>8, <1>11 DEF s

-----------------------------------------------------------------------------
(* The bars of the broker *)

\* Prices have a bound, so a set of them has a highest one, and a lowest one.
LEMMA PricesAreBounded == ASSUME NEW q \in Seq(Nat) PROVE \E c \in Nat : \A n \in DOMAIN q : q[n] <= c
<1> DEFINE S == {k \in Nat : k <= Len(q) => \E c \in Nat : \A n \in 1..k : q[n] <= c}
<1>1. 0 \in S
  OBVIOUS
<1>2. ASSUME NEW k \in Nat, k \in S PROVE k + 1 \in S
  <2> SUFFICES ASSUME k + 1 <= Len(q) PROVE \E c \in Nat : \A n \in 1..(k + 1) : q[n] <= c
    OBVIOUS
  <2>1. PICK c \in Nat : \A n \in 1..k : q[n] <= c
    BY <1>2
  <2>2. q[k + 1] \in Nat
    OBVIOUS
  <2>3. \A n \in 1..(k + 1) : q[n] <= c + q[k + 1]
    <3> SUFFICES ASSUME NEW n \in 1..(k + 1) PROVE q[n] <= c + q[k + 1]
      OBVIOUS
    <3>1. CASE n = k + 1
      BY <3>1, <2>2
    <3>2. CASE n \in 1..k
      <4>1. q[n] \in Nat /\ q[n] <= c
        BY <3>2, <2>1
      <4> QED BY <4>1, <2>2
    <3> QED BY <3>1, <3>2
  <2>4. c + q[k + 1] \in Nat
    BY <2>2
  <2> QED BY <2>3, <2>4
<1> HIDE DEF S
<1>3. Len(q) \in S
  BY <1>1, <1>2, Induct, SMTT(30)
<1>4. Len(q) \in Nat /\ DOMAIN q = 1..Len(q)
  OBVIOUS
<1>5. \E c \in Nat : \A n \in 1..Len(q) : q[n] <= c
  BY <1>3, <1>4 DEF S
<1> QED BY <1>4, <1>5

\* The least of a set of prices,
LEMMA MinOfPrices == ASSUME NEW P \in SUBSET Nat, P # {}
                     PROVE  Min(P) \in P /\ \A x \in P : Min(P) <= x
<1>1. \E m \in P : \A k \in P : m <= k
  BY LeastOfSet
<1> QED BY <1>1 DEF Min

\* and the greatest, are among them.
LEMMA MaxOfPrices == ASSUME NEW P \in SUBSET Nat, P # {}, NEW c \in Nat, \A x \in P : x <= c
                     PROVE  Max(P) \in P /\ \A x \in P : Max(P) >= x
<1> DEFINE T == {c - x : x \in P}
<1>1. T \in SUBSET Nat /\ T # {}
  <2>1. \A x \in P : c - x \in Nat
    OBVIOUS
  <2> QED BY <2>1
<1>2. PICK m \in T : \A k \in T : m <= k
  BY <1>1, LeastOfSet
<1>3. PICK y \in P : m = c - y
  BY <1>2
<1>4. ASSUME NEW x \in P PROVE y >= x
  <2>1. c - x \in T
    OBVIOUS
  <2>2. c - y <= c - x
    BY <2>1, <1>2, <1>3
  <2>3. x \in Nat /\ y \in Nat
    OBVIOUS
  <2> QED BY <2>2, <2>3
<1>5. \E z \in P : \A x \in P : z >= x
  BY <1>4
<1> QED BY <1>5 DEF Max

\* The broker's bar of a bucket with a quote has the lowest and the highest of its prices.
LEMMA BarOfIs ==
    ASSUME GapsConstants, NEW q \in Seq(Nat), NEW start \in Int, In(start, q) # {}
    PROVE  /\ BarOf(start, q) \in BarSet /\ BarOf(start, q).at = start /\ ~BarOf(start, q).partial
           /\ BarOf(start, q).low \in In(start, q) /\ BarOf(start, q).high \in In(start, q)
           /\ \A x \in In(start, q) : BarOf(start, q).low <= x /\ x <= BarOf(start, q).high
<1>1. In(start, q) \in SUBSET Nat
  BY DEF In
<1>2. PICK c \in Nat : \A n \in DOMAIN q : q[n] <= c
  BY PricesAreBounded
<1>3. \A x \in In(start, q) : x <= c
  BY <1>2 DEF In
<1>4. Min(In(start, q)) \in In(start, q) /\ \A x \in In(start, q) : Min(In(start, q)) <= x
  BY <1>1, MinOfPrices
<1>5. Max(In(start, q)) \in In(start, q) /\ \A x \in In(start, q) : Max(In(start, q)) >= x
  BY <1>1, <1>3, MaxOfPrices
<1>6. Min(In(start, q)) \in Nat /\ Max(In(start, q)) \in Nat
  BY <1>1, <1>4, <1>5
<1> QED BY <1>1, <1>4, <1>5, <1>6 DEF BarOf, BarSet

\* A bar with the prices of a bucket, and no other, is the broker's.
LEMMA BarOfOnly ==
    ASSUME GapsConstants, NEW q \in Seq(Nat), NEW start \in Int, NEW lo \in In(start, q), NEW hi \in In(start, q),
           \A x \in In(start, q) : lo <= x /\ x <= hi
    PROVE  BarOf(start, q) = [at |-> start, low |-> lo, high |-> hi, partial |-> FALSE]
<1>1. In(start, q) \in SUBSET Nat
  BY DEF In
<1>2. /\ BarOf(start, q).low \in In(start, q) /\ BarOf(start, q).high \in In(start, q)
      /\ \A x \in In(start, q) : BarOf(start, q).low <= x /\ x <= BarOf(start, q).high
  BY BarOfIs
<1>3. BarOf(start, q).low = lo /\ BarOf(start, q).high = hi
  <2>1. BarOf(start, q).low <= lo /\ lo <= BarOf(start, q).low /\ BarOf(start, q).high <= hi /\ hi <= BarOf(start, q).high
    BY <1>2
  <2> QED BY <2>1, <1>1, <1>2
<1>4. BarOf(start, q).low = Min(In(start, q)) /\ BarOf(start, q).high = Max(In(start, q))
  BY DEF BarOf
<1> QED BY <1>3, <1>4 DEF BarOf

\* BrokerBars, said of any function that goes through the moments one by one.
MadeStep(g, q, m) == IF m = 0 THEN <<>>
                     ELSE IF Opens(m, q) THEN Append(g[m - 1], BarOf(StartFor(m, base), q))
                     ELSE g[m - 1]
IsMaking(g, q, n) == g = [m \in 0..n |-> MadeStep(g, q, m)]

\* There is such a function.
LEMMA MakingExists == ASSUME NEW q, NEW n \in Nat PROVE \E g : IsMaking(g, q, n)
<1> DEFINE S == {k \in Nat : \E g : IsMaking(g, q, k)}
<1>1. 0 \in S
  <2> DEFINE h == [m \in 0..0 |-> <<>>]
  <2>1. h = [m \in 0..0 |-> MadeStep(h, q, m)]
    BY DEF MadeStep
  <2>2. IsMaking(h, q, 0)
    BY <2>1 DEF IsMaking
  <2> QED BY <2>2
<1>2. ASSUME NEW k \in Nat, k \in S PROVE k + 1 \in S
  <2>1. PICK g : IsMaking(g, q, k)
    BY <1>2
  <2> DEFINE h == [m \in 0..k + 1 |-> IF m = k + 1 THEN MadeStep(g, q, k + 1) ELSE g[m]]
  <2>3. ASSUME NEW m \in 0..k + 1 PROVE h[m] = MadeStep(h, q, m)
    <3>1. CASE m = k + 1
      <4>1. h[m] = MadeStep(g, q, m) /\ m - 1 = k /\ m # 0
        BY <3>1
      <4>2. h[m - 1] = g[m - 1]
        BY <3>1
      <4> HIDE DEF h
      <4> QED BY <4>1, <4>2 DEF MadeStep
    <3>2. CASE m \in 0..k
      <4>1. h[m] = g[m] /\ g[m] = MadeStep(g, q, m)
        BY <2>1, <3>2 DEF IsMaking
      <4>2. m # 0 => h[m - 1] = g[m - 1]
        BY <3>2
      <4> HIDE DEF h
      <4> QED BY <4>1, <4>2 DEF MadeStep
    <3> QED BY <3>1, <3>2
  <2>4. h = [m \in 0..k + 1 |-> h[m]]
    OBVIOUS
  <2> HIDE DEF h
  <2>5. h = [m \in 0..k + 1 |-> MadeStep(h, q, m)]
    BY <2>3, <2>4, Zenon
  <2>6. IsMaking(h, q, k + 1)
    BY <2>5 DEF IsMaking
  <2> QED BY <2>6
<1> HIDE DEF S
<1>3. n \in S
  BY <1>1, <1>2, Induct
<1> QED BY <1>3 DEF S

\* BrokerBars is the last value of such a function.
LEMMA BrokerBarsMakes ==
    ASSUME NEW q, Len(q) \in Nat
    PROVE  \E g : IsMaking(g, q, Len(q)) /\ BrokerBars(q) = g[Len(q)]
<1> DEFINE made == CHOOSE g : IsMaking(g, q, Len(q))
<1>1. IsMaking(made, q, Len(q))
  BY MakingExists
<1>2. BrokerBars(q) = made[Len(q)]
  BY DEF BrokerBars, IsMaking, MadeStep
<1> QED BY <1>1, <1>2

\* The bars s of the quotes q up to moment m: the broker's, in order, one for each bucket.
AreBarsOf(s, q, m) ==
    /\ s \in Seq(BarSet)
    /\ \A n \in DOMAIN s : /\ s[n] = BarOf(s[n].at, q) /\ ~s[n].partial
                           /\ \E k \in 1..m : q[k] # 0 /\ s[n].at = StartFor(k, base)
    /\ \A i, j \in DOMAIN s : i < j => s[i].at < s[j].at
    /\ \A k \in 1..m : q[k] # 0 => \E n \in DOMAIN s : s[n].at = StartFor(k, base)

\* A further moment makes a bar if it is the first of its bucket.
LEMMA BarsOfGrow ==
    ASSUME GapsConstants, base \in Int, NEW q \in Seq(Nat), NEW m \in 1..Len(q), NEW s, AreBarsOf(s, q, m - 1)
    PROVE  AreBarsOf(IF Opens(m, q) THEN Append(s, BarOf(StartFor(m, base), q)) ELSE s, q, m)
<1> DEFINE at == StartFor(m, base)
           b == BarOf(at, q)
<1>1. m \in Int /\ at \in Int /\ at <= m /\ m < at + Size /\ Size \in Nat \ {0}
  <2>1. m \in Int
    OBVIOUS
  <2>2. Size \in Nat \ {0}
    BY DEF GapsConstants
  <2> QED BY <2>1, <2>2, InBucket
<1>2. CASE ~Opens(m, q)
  <2>1. q[m] # 0 => \E n \in 1..(m - 1) : q[n] # 0 /\ StartFor(n, base) = at
    BY <1>2 DEF Opens
  <2>2. \A k \in 1..m : q[k] # 0 => \E n \in DOMAIN s : s[n].at = StartFor(k, base)
    <3> SUFFICES ASSUME NEW k \in 1..m, q[k] # 0 PROVE \E n \in DOMAIN s : s[n].at = StartFor(k, base)
      OBVIOUS
    <3>1. CASE k \in 1..(m - 1)
      BY <3>1 DEF AreBarsOf
    <3>2. CASE k = m
      <4>1. PICK n \in 1..(m - 1) : q[n] # 0 /\ StartFor(n, base) = at
        BY <2>1, <3>2
      <4> QED BY <4>1, <3>2 DEF AreBarsOf
    <3> QED BY <3>1, <3>2
  <2>3. \A k \in 1..(m - 1) : k \in 1..m
    OBVIOUS
  <2> QED BY <1>2, <2>2, <2>3 DEF AreBarsOf
<1>3. CASE Opens(m, q)
  <2> DEFINE t == Append(s, b)
  <2>0. q[m] # 0 /\ \A n \in 1..(m - 1) : q[n] # 0 => StartFor(n, base) # at
    BY <1>3 DEF Opens
  <2>1. In(at, q) # {}
    <3>1. m \in DOMAIN q /\ q[m] # 0 /\ at <= m /\ m < at + Size
      BY <1>1, <2>0
    <3>2. q[m] \in In(at, q)
      BY <3>1 DEF In
    <3> QED BY <3>2
  <2>2. b \in BarSet /\ b.at = at /\ ~b.partial
    BY <1>1, <2>1, BarOfIs
  <2>3. s \in Seq(BarSet)
    BY DEF AreBarsOf
  <2> HIDE DEF b, at
  <2>4. t \in Seq(BarSet) /\ Len(t) = Len(s) + 1 /\ t[Len(s) + 1] = b /\ \A n \in DOMAIN s : t[n] = s[n]
    BY <2>2, <2>3
  <2>5. DOMAIN t = 1..(Len(s) + 1) /\ DOMAIN s = 1..Len(s) /\ Len(s) \in Nat
    BY <2>3, <2>4
  <2> HIDE DEF t
  <2>6. ASSUME NEW n \in DOMAIN s
        PROVE  s[n].at \in Int /\ s[n].at < at
    <3>1. PICK k \in 1..(m - 1) : q[k] # 0 /\ s[n].at = StartFor(k, base)
      BY DEF AreBarsOf
    <3>2. StartFor(k, base) # at
      BY <2>0, <3>1
    <3>3. k \in Int /\ k <= m /\ m \in Int
      OBVIOUS
    <3>4. StartFor(k, base) <= at /\ StartFor(k, base) \in Int
      BY <3>3, BucketsGrow, InBucket DEF at
    <3> QED BY <3>1, <3>2, <3>4, <1>1 DEF at
  <2>7. \A n \in DOMAIN t : /\ t[n] = BarOf(t[n].at, q) /\ ~t[n].partial
                            /\ \E k \in 1..m : q[k] # 0 /\ t[n].at = StartFor(k, base)
    <3> SUFFICES ASSUME NEW n \in DOMAIN t
                 PROVE  /\ t[n] = BarOf(t[n].at, q) /\ ~t[n].partial
                        /\ \E k \in 1..m : q[k] # 0 /\ t[n].at = StartFor(k, base)
      OBVIOUS
    <3>1. CASE n = Len(s) + 1
      <4>1. t[n] = b /\ t[n].at = at
        BY <3>1, <2>2, <2>4
      <4>2. m \in 1..m
        OBVIOUS
      <4> QED BY <4>1, <4>2, <2>0, <2>2 DEF at, b
    <3>2. CASE n \in DOMAIN s
      <4>1. t[n] = s[n]
        BY <3>2, <2>4
      <4>2. \A k \in 1..(m - 1) : k \in 1..m
        OBVIOUS
      <4> QED BY <3>2, <4>1, <4>2 DEF AreBarsOf
    <3> QED BY <3>1, <3>2, <2>5, SMTT(30)
  <2>8. \A i, j \in DOMAIN t : i < j => t[i].at < t[j].at
    <3> SUFFICES ASSUME NEW i \in DOMAIN t, NEW j \in DOMAIN t, i < j PROVE t[i].at < t[j].at
      OBVIOUS
    <3>1. i \in DOMAIN s /\ t[i] = s[i]
      BY <2>4, <2>5
    <3>2. CASE j = Len(s) + 1
      BY <3>1, <3>2, <2>2, <2>4, <2>6
    <3>3. CASE j \in DOMAIN s
      BY <3>1, <3>3, <2>4 DEF AreBarsOf
    <3> QED BY <3>2, <3>3, <2>5
  <2>9. \A k \in 1..m : q[k] # 0 => \E n \in DOMAIN t : t[n].at = StartFor(k, base)
    <3> SUFFICES ASSUME NEW k \in 1..m, q[k] # 0 PROVE \E n \in DOMAIN t : t[n].at = StartFor(k, base)
      OBVIOUS
    <3>1. CASE k \in 1..(m - 1)
      <4>1. PICK n \in DOMAIN s : s[n].at = StartFor(k, base)
        BY <3>1 DEF AreBarsOf
      <4>2. n \in DOMAIN t /\ t[n] = s[n]
        BY <2>4, <2>5
      <4> QED BY <4>1, <4>2
    <3>2. CASE k = m
      <4>1. Len(s) + 1 \in DOMAIN t /\ t[Len(s) + 1].at = at
        BY <2>2, <2>4, <2>5
      <4> QED BY <4>1, <3>2 DEF at
    <3> QED BY <3>1, <3>2
  <2>10. AreBarsOf(t, q, m)
    BY <2>4, <2>7, <2>8, <2>9 DEF AreBarsOf
  <2> QED BY <1>3, <2>10 DEF t, b, at
<1> QED BY <1>2, <1>3

\* BrokerBars are the bars of its quotes.
LEMMA BrokerBarsAre ==
    ASSUME GapsConstants, base \in Int, NEW q \in Seq(Nat)
    PROVE  AreBarsOf(BrokerBars(q), q, Len(q))
<1>0. Len(q) \in Nat
  OBVIOUS
<1>1. PICK g : IsMaking(g, q, Len(q)) /\ BrokerBars(q) = g[Len(q)]
  BY <1>0, BrokerBarsMakes
<1>2. ASSUME NEW k \in 0..Len(q) PROVE g[k] = MadeStep(g, q, k)
  BY <1>1 DEF IsMaking
<1> DEFINE S == {k \in Nat : k <= Len(q) => AreBarsOf(g[k], q, k)}
<1>3. 0 \in S
  <2>1. g[0] = <<>>
    <3>1. 0 \in 0..Len(q)
      BY <1>0
    <3> QED BY <1>2, <3>1 DEF MadeStep
  <2>2. AreBarsOf(<<>>, q, 0)
    BY DEF AreBarsOf
  <2> QED BY <2>1, <2>2
<1>4. ASSUME NEW k \in Nat, k \in S PROVE k + 1 \in S
  <2> SUFFICES ASSUME k + 1 <= Len(q) PROVE AreBarsOf(g[k + 1], q, k + 1)
    OBVIOUS
  <2>1. AreBarsOf(g[k], q, k) /\ k + 1 \in 1..Len(q) /\ k + 1 \in 0..Len(q) /\ (k + 1) - 1 = k /\ k + 1 # 0
    BY <1>4, <1>0
  <2>2. g[k + 1] = IF Opens(k + 1, q) THEN Append(g[k], BarOf(StartFor(k + 1, base), q)) ELSE g[k]
    BY <1>2, <2>1 DEF MadeStep
  <2> DEFINE m == k + 1
  <2>3. m \in 1..Len(q) /\ AreBarsOf(g[k], q, m - 1)
    BY <2>1
  <2> HIDE DEF m
  <2>4. AreBarsOf(IF Opens(m, q) THEN Append(g[k], BarOf(StartFor(m, base), q)) ELSE g[k], q, m)
    BY <2>3, BarsOfGrow
  <2> QED BY <2>2, <2>4 DEF m
<1> HIDE DEF S
<1>5. Len(q) \in S
  BY <1>0, <1>3, <1>4, Induct
<1>6. AreBarsOf(g[Len(q)], q, Len(q))
  BY <1>5 DEF S
<1> QED BY <1>1, <1>6

-----------------------------------------------------------------------------
(* What the broker has seen at a moment *)

\* The quotes up to a moment.
LEMMA QuotesAre ==
    ASSUME NEW tp \in Seq(Nat), NEW k \in 0..Len(tp)
    PROVE  /\ SubSeq(tp, 1, k) \in Seq(Nat) /\ Len(SubSeq(tp, 1, k)) = k /\ DOMAIN SubSeq(tp, 1, k) = 1..k
           /\ \A n \in 1..k : SubSeq(tp, 1, k)[n] = tp[n] /\ tp[n] \in Nat
<1>1. Len(tp) \in Nat /\ DOMAIN tp = 1..Len(tp)
  OBVIOUS
<1>2. SubSeq(tp, 1, k) \in Seq(Nat) /\ Len(SubSeq(tp, 1, k)) = k
  BY <1>1, SMT
<1>3. DOMAIN SubSeq(tp, 1, k) = 1..k
  BY <1>2
<1>4. \A n \in 1..k : SubSeq(tp, 1, k)[n] = tp[n] /\ tp[n] \in Nat
  BY <1>1
<1> QED BY <1>2, <1>3, <1>4

\* The prices of a bucket are those of its quotes.
LEMMA InIs ==
    ASSUME NEW tp \in Seq(Nat), NEW k \in 0..Len(tp), NEW start, NEW x
    PROVE  x \in In(start, SubSeq(tp, 1, k))
             <=> \E n \in 1..k : tp[n] # 0 /\ start <= n /\ n < start + Size /\ tp[n] = x
<1> DEFINE q == SubSeq(tp, 1, k)
<1>1. DOMAIN q = 1..k /\ \A n \in 1..k : q[n] = tp[n]
  BY QuotesAre
<1> HIDE DEF q
<1>2. x \in In(start, q) <=> \E n \in 1..k : tp[n] # 0 /\ start <= n /\ n < start + Size /\ tp[n] = x
  BY <1>1 DEF In
<1> QED BY <1>2 DEF q

\* The buckets of the broker are those with a quote.
LEMMA StartsAre ==
    ASSUME NEW tp \in Seq(Nat), NEW k \in 0..Len(tp), NEW x
    PROVE  x \in Starts(SubSeq(tp, 1, k)) <=> \E n \in 1..k : tp[n] # 0 /\ x = StartFor(n, base)
<1> DEFINE q == SubSeq(tp, 1, k)
<1>1. DOMAIN q = 1..k /\ \A n \in 1..k : q[n] = tp[n]
  BY QuotesAre
<1> HIDE DEF q
<1>2. x \in Starts(q) <=> \E n \in 1..k : tp[n] # 0 /\ x = StartFor(n, base)
  BY <1>1 DEF Starts
<1> QED BY <1>2 DEF q

\* A bar that is over stays what it is.
LEMMA OverIsFinal ==
    ASSUME GapsConstants, NEW tp \in Seq(Nat), NEW k \in 0..Len(tp), NEW l \in 0..Len(tp), k <= l,
           NEW start \in Int, start + Size <= k + 1
    PROVE  BarOf(start, SubSeq(tp, 1, l)) = BarOf(start, SubSeq(tp, 1, k))
<1>1. ASSUME NEW x PROVE x \in In(start, SubSeq(tp, 1, l)) <=> x \in In(start, SubSeq(tp, 1, k))
  <2>1. Size \in Nat /\ Len(tp) \in Nat
    BY DEF GapsConstants
  <2>2. \A n \in 1..l : n < start + Size => n \in 1..k
    BY <2>1
  <2>3. \A n \in 1..k : n \in 1..l
    BY <2>1
  <2> QED BY <2>2, <2>3, InIs, SMTT(30)
<1>2. In(start, SubSeq(tp, 1, l)) = In(start, SubSeq(tp, 1, k))
  BY <1>1
<1> QED BY <1>2 DEF BarOf

\* A start among the quotes is the bucket of one, and its bar has low and high.
LEMMA StartHasBar ==
    ASSUME GapsConstants, base \in Int, NEW tp \in Seq(Nat), NEW k \in 0..Len(tp),
           NEW x \in Starts(SubSeq(tp, 1, k))
    PROVE  /\ x \in Int /\ x <= k /\ In(x, SubSeq(tp, 1, k)) # {}
           /\ BarOf(x, SubSeq(tp, 1, k)) \in BarSet /\ BarOf(x, SubSeq(tp, 1, k)).at = x
<1>1. PICK n \in 1..k : tp[n] # 0 /\ x = StartFor(n, base)
  BY StartsAre
<1>2. n \in Int /\ n <= k /\ k \in Int
  OBVIOUS
<1>3. x \in Int /\ x <= n /\ n < x + Size
  BY <1>1, <1>2, InBucket
<1>4. tp[n] \in In(x, SubSeq(tp, 1, k))
  BY <1>1, <1>3, InIs
<1>5. SubSeq(tp, 1, k) \in Seq(Nat)
  BY QuotesAre
<1>6. BarOf(x, SubSeq(tp, 1, k)) \in BarSet /\ BarOf(x, SubSeq(tp, 1, k)).at = x
  BY <1>3, <1>4, <1>5, BarOfIs
<1>7. x <= k
  BY <1>2, <1>3
<1> QED BY <1>3, <1>4, <1>6, <1>7

-----------------------------------------------------------------------------
(* Types *)

\* Bars are queued behind those that wait, unless they do not fit, which is a loss.
LEMMA Enqueued ==
    ASSUME GapsConstants, queue \in Seq(LineBar), Len(queue) <= MaxQueue, lost \in BOOLEAN,
           NEW bars \in Seq(LineBar), NEW miss \in BOOLEAN, EnqueueBars(bars, miss)
    PROVE  /\ queue' \in Seq(LineBar) /\ Len(queue') <= MaxQueue /\ lost' \in BOOLEAN
           /\ Len(queue) <= Len(queue') /\ Len(queue') <= Len(queue) + Len(bars)
           /\ \A n \in DOMAIN queue : queue'[n] = queue[n]
           /\ \A n \in DOMAIN queue' : n \notin DOMAIN queue =>
                 n - Len(queue) \in DOMAIN bars /\ queue'[n] = bars[n - Len(queue)]
           /\ ~lost' => ~lost /\ ~miss /\ queue' = queue \o bars
<1> DEFINE all == queue \o bars
<1>1. MaxQueue \in Nat
  BY DEF GapsConstants
<1>2. all \in Seq(LineBar) /\ Len(all) = Len(queue) + Len(bars)
  OBVIOUS
<1>3. /\ \A n \in DOMAIN queue : all[n] = queue[n]
      /\ \A n \in 1..(Len(queue) + Len(bars)) : n \notin DOMAIN queue =>
            n - Len(queue) \in DOMAIN bars /\ all[n] = bars[n - Len(queue)]
  OBVIOUS
<1>4. /\ queue' = IF Len(all) > MaxQueue THEN SubSeq(all, 1, MaxQueue) ELSE all
      /\ lost' = (lost \/ miss \/ Len(all) > MaxQueue)
  BY DEF EnqueueBars
<1> HIDE DEF all
<1>5. Len(queue) \in Nat /\ Len(bars) \in Nat /\ DOMAIN queue = 1..Len(queue)
  OBVIOUS
<1>6. CASE Len(all) > MaxQueue
  <2>1. queue' = SubSeq(all, 1, MaxQueue) /\ lost' = TRUE
    BY <1>4, <1>6
  <2>2. queue' \in Seq(LineBar) /\ Len(queue') = MaxQueue /\ \A n \in 1..MaxQueue : queue'[n] = all[n]
    BY <1>1, <1>2, <1>5, <1>6, <2>1
  <2>3. DOMAIN queue' = 1..MaxQueue
    BY <2>2
  <2>4. \A n \in 1..MaxQueue : n \in 1..(Len(queue) + Len(bars))
    BY <1>1, <1>2, <1>5, <1>6
  <2>5. \A n \in DOMAIN queue : n \in 1..MaxQueue
    BY <1>1, <1>5
  <2>6. MaxQueue <= Len(queue) + Len(bars)
    BY <1>1, <1>2, <1>5, <1>6
  <2>7. \A n \in DOMAIN queue : queue'[n] = queue[n]
    BY <1>3, <2>2, <2>5
  <2>8. \A n \in DOMAIN queue' : n \notin DOMAIN queue =>
           n - Len(queue) \in DOMAIN bars /\ queue'[n] = bars[n - Len(queue)]
    BY <1>3, <2>2, <2>3, <2>4
  <2> QED BY <2>1, <2>2, <2>6, <2>7, <2>8, <1>1
<1>7. CASE ~(Len(all) > MaxQueue)
  <2>1. queue' = all /\ lost' = (lost \/ miss)
    BY <1>4, <1>7
  <2>2. Len(all) <= MaxQueue
    BY <1>1, <1>2, <1>5, <1>7
  <2>3. DOMAIN queue' = 1..(Len(queue) + Len(bars))
    BY <2>1, <1>2
  <2>4. \A n \in DOMAIN queue' : n \notin DOMAIN queue =>
           n - Len(queue) \in DOMAIN bars /\ queue'[n] = bars[n - Len(queue)]
    BY <2>1, <2>3, <1>3
  <2>5. \A n \in DOMAIN queue : queue'[n] = queue[n]
    BY <2>1, <1>3
  <2> QED BY <2>1, <2>2, <2>4, <2>5, <1>2, <1>5 DEF all
<1> QED BY <1>6, <1>7

\* What a moment does, case by case.
MomentFrame == /\ clock < Len(tape) /\ clock' = clock + 1
               /\ UNCHANGED <<tape, base, online, offset, series, zones, history, answer, told, faults>>
Price == tape[clock + 1]
New == OneTick(Price)
NoTick == Price = 0 /\ UNCHANGED <<m1, bar, queue, joined, lost>>
MissedTick == Price # 0 /\ ~online /\ lost' = (lost \/ Begun) /\ UNCHANGED <<m1, bar, queue, joined>>
Tick == Price # 0 /\ online
FirstTick == /\ Tick /\ m1 = NoM1 /\ m1' = New /\ UNCHANGED <<bar, queue, lost>>
             /\ joined' = (bar = NoBar /\ \E n \in DOMAIN quotes : New.at <= n /\ quotes[n] # 0)
OneMore == /\ Tick /\ m1 # NoM1 /\ m1.at = New.at /\ m1' = Merged(m1, New)
           /\ UNCHANGED <<bar, queue, joined, lost>>
EndsMinute == Tick /\ m1 # NoM1 /\ m1.at # New.at /\ m1' = New
Bucket == StartFor(m1.at, offset)
StartsBar == /\ EndsMinute /\ bar = NoBar /\ bar' = Started(Bucket, m1, Partial(Bucket, m1.at))
             /\ UNCHANGED <<queue, joined, lost>>
MergesBar == /\ EndsMinute /\ bar # NoBar /\ bar.at = Bucket /\ bar' = Merged(bar, m1)
             /\ UNCHANGED <<queue, joined, lost>>
EndsBar == /\ EndsMinute /\ bar # NoBar /\ bar.at # Bucket /\ bar' = Started(Bucket, m1, FALSE)
           /\ joined' = FALSE
           /\ EnqueueBars(<<Tagged(bar, FALSE)>>, (offset # base \/ joined) /\ ~bar.partial)
AnyCase == NoTick \/ MissedTick \/ FirstTick \/ OneMore \/ StartsBar \/ MergesBar \/ EndsBar
\* A moment does one of seven things.
LEMMA MomentCases ==
    ASSUME Moment
    PROVE  MomentFrame /\ AnyCase
<1>1. MomentFrame
  BY DEF Moment, MomentFrame
<1> SUFFICES AnyCase
  BY <1>1
<1>2. CASE Price = 0
  BY <1>2 DEF Moment, NoTick, Price, AnyCase
<1>3. CASE Price # 0 /\ ~online
  BY <1>3 DEF Moment, MissedTick, Price, AnyCase
<1>4. CASE Price # 0 /\ online
  <2>1. OnTick(New)
    BY <1>4 DEF Moment, Price, New
  <2>2. CASE m1 = NoM1
    BY <1>4, <2>1, <2>2 DEF OnTick, FirstTick, Tick, AnyCase
  <2>3. CASE m1 # NoM1 /\ m1.at = New.at
    BY <1>4, <2>1, <2>3 DEF OnTick, OneMore, Tick, AnyCase
  <2>4. CASE m1 # NoM1 /\ m1.at # New.at
    <3>1. EndsMinute /\ MinuteClosed(m1)
      BY <1>4, <2>1, <2>4 DEF OnTick, EndsMinute, Tick
    <3>2. CASE bar = NoBar
      BY <3>1, <3>2 DEF MinuteClosed, StartsBar, Bucket, AnyCase
    <3>3. CASE bar # NoBar /\ bar.at = Bucket
      BY <3>1, <3>3 DEF MinuteClosed, MergesBar, Bucket, AnyCase
    <3>4. CASE bar # NoBar /\ bar.at # Bucket
      BY <3>1, <3>4 DEF MinuteClosed, EndsBar, Bucket, AnyCase
    <3> QED BY <3>2, <3>3, <3>4
  <2> QED BY <2>2, <2>3, <2>4
<1> QED BY <1>2, <1>3, <1>4

\* The types that most steps need.
LEMMA TypedFacts ==
    ASSUME GapsConstants, GapsTyped
    PROVE  /\ tape \in Seq(Nat) /\ Len(tape) \in Nat /\ clock \in Nat /\ base \in Int /\ base >= 0 /\ base < Size
           /\ offset \in Int /\ Size \in Nat \ {0} /\ quotes = SubSeq(tape, 1, clock)
           /\ m1 # NoM1 => m1 \in MinuteSet /\ m1.at \in 0..clock /\ Full(m1.at)
           /\ bar # NoBar => bar \in BarSet
           /\ clock \in 0..Len(tape)
           /\ Full(base) /\ Full(offset) /\ Minute \in Nat \ {0}
<1>1. m1 # NoM1 => m1 \in MinuteSet /\ m1.at \in 0..clock /\ Full(m1.at)
  BY DEF GapsTyped, MinuteSet
<1>2. Full(base)
  <2>1. base \in Offsets /\ base \in Int /\ \A off \in Offsets : \E k \in 0..off : off = k * Minute
    BY DEF GapsConstants, GapsTyped
  <2>2. PICK k \in 0..base : base = k * Minute
    BY <2>1
  <2>3. k \in Int
    BY <2>1
  <2> QED BY <2>2, <2>3 DEF Full
<1>3. Full(0) /\ Minute \in Nat \ {0}
  <2>1. Minute \in Nat \ {0}
    BY DEF GapsConstants
  <2>2. 0 = 0 * Minute
    BY <2>1
  <2> QED BY <2>1, <2>2 DEF Full
<1>4. Full(offset)
  BY <1>2, <1>3 DEF GapsTyped
<1> QED BY <1>1, <1>2, <1>3, <1>4 DEF GapsConstants, GapsTyped, quotes

\* The minute of the next tick: no earlier than the running one.
LEMMA NewIs ==
    ASSUME GapsConstants, GapsTyped, clock < Len(tape)
    PROVE  /\ Price \in Nat /\ New \in MinuteSet /\ New # NoM1 /\ New.low = Price /\ New.high = Price
           /\ New.at \in 0..(clock + 1) /\ clock + 1 < New.at + Minute /\ Full(New.at)
           /\ m1 # NoM1 /\ m1.at # New.at => m1.at + Minute <= New.at
<1>1. clock \in Nat /\ Len(tape) \in Nat /\ tape \in Seq(Nat) /\ Minute \in Nat \ {0}
  BY TypedFacts
<1>2. clock + 1 \in 1..Len(tape) /\ clock + 1 \in Nat
  BY <1>1
<1>3. Price \in Nat
  BY <1>1, <1>2 DEF Price
<1>4. /\ MinuteOf(clock + 1) \in Nat /\ MinuteOf(clock + 1) <= clock + 1
      /\ clock + 1 < MinuteOf(clock + 1) + Minute /\ Full(MinuteOf(clock + 1))
  BY <1>2, MinuteIs
<1>5. New.at = MinuteOf(clock + 1) /\ New.low = Price /\ New.high = Price
  BY DEF New, OneTick
<1>6. New \in MinuteSet /\ New # NoM1
  BY <1>3, <1>4 DEF New, OneTick, MinuteSet, NoM1
<1>7. ASSUME m1 # NoM1, m1.at # New.at PROVE m1.at + Minute <= New.at
  <2>1. m1.at \in 0..clock /\ Full(m1.at)
    BY <1>7, TypedFacts
  <2>2. m1.at \in Int /\ New.at \in Int /\ m1.at < New.at + Minute
    BY <1>1, <1>4, <1>5, <2>1
  <2> QED BY <1>4, <1>5, <1>7, <2>1, <2>2, MinutesApart
<1> QED BY <1>1, <1>3, <1>4, <1>5, <1>6, <1>7

\* The bars of ticks are bars.
LEMMA StartedIs ==
    ASSUME GapsConstants, GapsTyped, m1 # NoM1, NEW p \in BOOLEAN
    PROVE  /\ Bucket \in Int /\ Bucket <= m1.at /\ m1.at < Bucket + Size /\ m1.at \in 0..clock
           /\ m1.low \in Nat /\ m1.high \in Nat /\ m1.at + Minute <= Bucket + Size
           /\ Started(Bucket, m1, p) \in BarSet /\ Started(Bucket, m1, p) # NoBar
           /\ Started(Bucket, m1, p).at = Bucket /\ Started(Bucket, m1, p).partial = p
           /\ Started(Bucket, m1, p).low = m1.low /\ Started(Bucket, m1, p).high = m1.high
<1>1. /\ m1.at \in Int /\ m1.at \in 0..clock /\ m1.low \in Nat /\ m1.high \in Nat /\ offset \in Int /\ clock \in Nat
      /\ Full(m1.at) /\ Full(offset) /\ Minute \in Nat \ {0}
  BY TypedFacts DEF MinuteSet
<1>2. Bucket \in Int /\ Bucket <= m1.at /\ m1.at < Bucket + Size
  BY <1>1, InBucket DEF Bucket
<1>3. Started(Bucket, m1, p) \in BarSet /\ Started(Bucket, m1, p) # NoBar
  BY <1>1, <1>2 DEF Started, BarSet, NoBar
<1>4. m1.at + Minute <= Bucket + Size
  <2>1. m1.at <= m1.at /\ m1.at < m1.at + Minute
    BY <1>1
  <2> QED BY <1>1, <2>1, MinuteInBucket DEF Bucket
<1> QED BY <1>1, <1>2, <1>3, <1>4 DEF Started

\* A minute joins a bar, and a tick a minute.
LEMMA MergedIs ==
    ASSUME NEW b \in BarSet, NEW m, m.low \in Nat, m.high \in Nat
    PROVE  /\ Merged(b, m) \in BarSet /\ Merged(b, m) # NoBar /\ Merged(b, m).at = b.at
           /\ Merged(b, m).partial = b.partial
           /\ Merged(b, m).low = Least(b.low, m.low) /\ Merged(b, m).high = Most(b.high, m.high)
<1> QED BY DEF Merged, BarSet, Least, Most, NoBar
LEMMA TickMerged ==
    ASSUME NEW b \in MinuteSet, NEW m, m.low \in Nat, m.high \in Nat
    PROVE  /\ Merged(b, m) \in MinuteSet /\ Merged(b, m) # NoM1 /\ Merged(b, m).at = b.at
           /\ Merged(b, m).low = Least(b.low, m.low) /\ Merged(b, m).high = Most(b.high, m.high)
<1> QED BY DEF Merged, MinuteSet, Least, Most, NoM1

\* The merged prices reach over both.
LEMMA MergedReach ==
    ASSUME NEW a \in Nat, NEW b \in Nat, NEW c \in Nat, NEW d \in Nat, NEW x \in Nat,
           x \in a..b \/ x \in c..d
    PROVE  x \in Least(a, c)..Most(b, d)
<1> QED BY DEF Least, Most

\* A bar on its way to the worker is what it was.
LEMMA TaggedIs ==
    ASSUME NEW b \in BarSet, NEW w \in BOOLEAN
    PROVE  /\ Tagged(b, w) \in LineBar /\ Tagged(b, w).at = b.at /\ Tagged(b, w).partial = b.partial
           /\ Tagged(b, w).warmup = w
<1> QED BY DEF Tagged, BarSet, LineBar

\* A line of one bar.
LEMMA OneBar == ASSUME NEW b \in LineBar
                PROVE  <<b>> \in Seq(LineBar) /\ Len(<<b>>) = 1 /\ <<b>>[1] = b /\ DOMAIN <<b>> = {1}
<1> QED OBVIOUS

\* A moment keeps the types (onTick, process1mClosedBarLocked).
LEMMA MomentTyped == ASSUME GapsConstants, GapsTyped, Moment PROVE GapsTyped'
<1>1. MomentFrame /\ AnyCase
  BY MomentCases
<1>2. tape \in Seq(Nat) /\ Len(tape) \in Nat /\ clock \in Nat /\ offset \in Int
  BY TypedFacts
<1>3. clock' \in 0..Len(tape') /\ clock < Len(tape) /\ clock' = clock + 1
  BY <1>1, <1>2 DEF MomentFrame
<1>4. New \in MinuteSet /\ New # NoM1 /\ New.at <= clock + 1 /\ Full(New.at) /\ New.low \in Nat /\ New.high \in Nat
  <2>1. New \in MinuteSet /\ New # NoM1 /\ New.at \in 0..(clock + 1) /\ Full(New.at)
    BY <1>3, NewIs
  <2> QED BY <1>2, <2>1 DEF MinuteSet
<1>5. m1' \in {NoM1} \cup MinuteSet /\ (m1' # NoM1 => m1'.at <= clock + 1 /\ Full(m1'.at)) /\ (m1 # NoM1 => m1' # NoM1)
  <2>1. CASE m1' = m1
    <3>1. m1 # NoM1 => m1.at \in 0..clock /\ Full(m1.at)
      BY TypedFacts
    <3>2. m1 # NoM1 => m1.at <= clock + 1
      BY <1>2, <3>1
    <3> QED BY <2>1, <3>1, <3>2 DEF GapsTyped
  <2>2. CASE m1' = New
    BY <1>4, <2>2
  <2>3. CASE OneMore
    <3>1. m1 \in MinuteSet /\ m1.at = New.at /\ m1' = Merged(m1, New)
      BY <2>3, TypedFacts DEF OneMore
    <3>2. m1' \in MinuteSet /\ m1' # NoM1 /\ m1'.at = New.at
      BY <1>4, <3>1, TickMerged
    <3> QED BY <1>4, <3>2
  <2> QED BY <1>1, <2>1, <2>2, <2>3
          DEF AnyCase, NoTick, MissedTick, FirstTick, StartsBar, MergesBar, EndsBar, EndsMinute
<1>6. bar' \in {NoBar} \cup BarSet
  <2>1. CASE bar' = bar
    BY <2>1 DEF GapsTyped
  <2>2. CASE StartsBar
    <3>1. Partial(Bucket, m1.at) \in BOOLEAN
      BY DEF Partial
    <3> QED BY <2>2, <3>1, StartedIs DEF StartsBar, EndsMinute
  <2>3. CASE MergesBar
    <3>1. bar \in BarSet /\ m1.low \in Nat /\ m1.high \in Nat
      BY <2>3, TypedFacts DEF MergesBar, EndsMinute, MinuteSet
    <3> QED BY <2>3, <3>1, MergedIs DEF MergesBar
  <2>4. CASE EndsBar
    BY <2>4, StartedIs DEF EndsBar, EndsMinute
  <2> QED BY <1>1, <2>1, <2>2, <2>3, <2>4 DEF AnyCase, NoTick, MissedTick, FirstTick, OneMore
<1>7. queue' \in Seq(LineBar) /\ Len(queue') <= MaxQueue /\ lost' \in BOOLEAN
  <2>1. CASE queue' = queue /\ lost' \in BOOLEAN
    BY <2>1 DEF GapsTyped
  <2>2. CASE EndsBar
    <3>1. bar \in BarSet
      BY <2>2, TypedFacts DEF EndsBar
    <3>2. <<Tagged(bar, FALSE)>> \in Seq(LineBar)
      <4>1. Tagged(bar, FALSE) \in LineBar
        BY <3>1, TaggedIs
      <4> QED BY <4>1, OneBar
    <3>3. ((offset # base \/ joined) /\ ~bar.partial) \in BOOLEAN
      OBVIOUS
    <3> QED BY <2>2, <3>2, <3>3, Enqueued DEF EndsBar, GapsTyped
  <2>3. lost \in BOOLEAN /\ (lost \/ Begun) \in BOOLEAN
    BY DEF GapsTyped
  <2> QED BY <1>1, <2>1, <2>2, <2>3 DEF AnyCase, NoTick, MissedTick, FirstTick, OneMore, StartsBar, MergesBar
<1>8. m1' = NoM1 => m1 = NoM1 /\ bar' = bar /\ joined' = joined
  BY <1>1, <1>4, <1>5
     DEF AnyCase, NoTick, MissedTick, FirstTick, OneMore, StartsBar, MergesBar, EndsBar, EndsMinute
<1>9. m1' = NoM1 /\ bar' # NoBar => offset' = base' /\ ~bar'.partial /\ history' = "done"
  BY <1>1, <1>8 DEF GapsTyped, MomentFrame
<1>10. joined' \in BOOLEAN
  BY <1>1 DEF GapsTyped, AnyCase, NoTick, MissedTick, FirstTick, OneMore, StartsBar, MergesBar, EndsBar
<1>11. joined' => m1' # NoM1
  BY <1>8 DEF GapsTyped
<1> QED BY <1>1, <1>3, <1>5, <1>6, <1>7, <1>9, <1>10, <1>11 DEF GapsTyped, MomentFrame

\* The answer without the bar that forms.
LEMMA OverIs ==
    ASSUME NEW bars \in Seq(BarSet)
    PROVE  /\ Ended(bars) \in Seq(BarSet) /\ Len(Ended(bars)) <= Len(bars)
           /\ DOMAIN Ended(bars) = 1..Len(Ended(bars))
           /\ \A n \in DOMAIN Ended(bars) : n \in DOMAIN bars /\ Ended(bars)[n] = bars[n]
           /\ Forms(bars) => /\ Len(bars) \in DOMAIN bars /\ Last(bars) = bars[Len(bars)] /\ Last(bars) \in BarSet
                             /\ Len(Ended(bars)) = Len(bars) - 1
           /\ ~Forms(bars) => Ended(bars) = bars
<1>1. CASE Forms(bars)
  <2>1. bars # <<>>
    BY <1>1 DEF Forms
  <2>2. Len(bars) \in Nat \ {0} /\ Len(bars) \in DOMAIN bars /\ DOMAIN bars = 1..Len(bars)
    BY <2>1
  <2>3. Last(bars) = bars[Len(bars)] /\ Last(bars) \in BarSet
    BY <2>2 DEF Last
  <2>4. Ended(bars) = SubSeq(bars, 1, Len(bars) - 1)
    BY <1>1 DEF Ended, Front
  <2>5. /\ Ended(bars) \in Seq(BarSet) /\ Len(Ended(bars)) = Len(bars) - 1
        /\ \A n \in 1..(Len(bars) - 1) : Ended(bars)[n] = bars[n]
    BY <2>2, <2>4
  <2>6. DOMAIN Ended(bars) = 1..(Len(bars) - 1)
    BY <2>5
  <2> QED BY <1>1, <2>2, <2>3, <2>5, <2>6
<1>2. CASE ~Forms(bars)
  <2>1. Ended(bars) = bars
    BY <1>2 DEF Ended
  <2> QED BY <1>2, <2>1
<1> QED BY <1>1, <1>2

\* What is over of the bars of some moment, by now.
LEMMA OverAre ==
    ASSUME GapsConstants, GapsTyped, NEW t \in 0..clock, NEW s, AreBarsOf(s, SubSeq(tape, 1, t), t)
    PROVE  /\ \A n \in DOMAIN Ended(s) : OverBy(Ended(s)[n].at)
           /\ \A k \in 1..t : tape[k] # 0 /\ OverBy(StartFor(k, base))
                 => \E n \in DOMAIN Ended(s) : Ended(s)[n].at = StartFor(k, base)
           /\ \A i \in DOMAIN Ended(s) : Forms(s) => Ended(s)[i].at < Last(s).at
<1> DEFINE q == SubSeq(tape, 1, t)
<1>0. /\ tape \in Seq(Nat) /\ Len(tape) \in Nat /\ clock \in Nat /\ base \in Int /\ Size \in Nat \ {0}
      /\ clock \in 0..Len(tape)
  BY TypedFacts
<1>1. t \in 0..Len(tape) /\ t \in Nat /\ t <= clock
  BY <1>0
<1>2. \A k \in 1..t : q[k] = tape[k]
  BY <1>0, <1>1, QuotesAre
<1>3. s \in Seq(BarSet)
  BY DEF AreBarsOf
<1> HIDE DEF q
<1>4. ASSUME NEW i \in DOMAIN s, NEW j \in DOMAIN s, i < j
      PROVE  s[i].at \in Int /\ s[j].at \in Int /\ s[i].at < s[j].at /\ s[i].at + Size <= s[j].at /\ s[j].at <= clock
  <2>1. PICK k \in 1..t : s[i].at = StartFor(k, base)
    BY DEF AreBarsOf
  <2>2. PICK l \in 1..t : s[j].at = StartFor(l, base)
    BY DEF AreBarsOf
  <2>3. s[i].at < s[j].at
    BY <1>4 DEF AreBarsOf
  <2>4. k \in Int /\ l \in Int /\ l <= clock
    BY <1>0, <1>1
  <2>5. StartFor(k, base) + Size <= StartFor(l, base)
    BY <1>0, <2>1, <2>2, <2>3, <2>4, BucketsApart
  <2>6. StartFor(k, base) \in Int /\ StartFor(l, base) \in Int /\ StartFor(l, base) <= l
    BY <1>0, <2>4, InBucket
  <2> QED BY <2>1, <2>2, <2>3, <2>4, <2>5, <2>6, <1>0
<1>5. /\ Len(Ended(s)) <= Len(s) /\ DOMAIN Ended(s) = 1..Len(Ended(s)) /\ Len(Ended(s)) \in Nat
      /\ \A n \in DOMAIN Ended(s) : n \in DOMAIN s /\ Ended(s)[n] = s[n]
      /\ Forms(s) => Len(s) \in DOMAIN s /\ Last(s) = s[Len(s)] /\ Len(Ended(s)) = Len(s) - 1
      /\ ~Forms(s) => Ended(s) = s
  BY <1>3, OverIs
<1>6. DOMAIN s = 1..Len(s) /\ Len(s) \in Nat
  BY <1>3
<1>7. CASE Forms(s)
  <2>1. \A n \in DOMAIN Ended(s) : n \in DOMAIN s /\ n < Len(s) /\ Ended(s)[n] = s[n]
    BY <1>5, <1>6, <1>7
  <2>2. \A n \in DOMAIN Ended(s) : OverBy(Ended(s)[n].at) /\ Ended(s)[n].at < Last(s).at
    <3> SUFFICES ASSUME NEW n \in DOMAIN Ended(s)
                 PROVE  OverBy(Ended(s)[n].at) /\ Ended(s)[n].at < Last(s).at
      OBVIOUS
    <3>1. s[n].at \in Int /\ s[n].at < s[Len(s)].at /\ s[n].at + Size <= s[Len(s)].at /\ s[Len(s)].at <= clock
          /\ s[Len(s)].at \in Int
      BY <2>1, <1>5, <1>7, <1>4
    <3> QED BY <3>1, <2>1, <1>0, <1>5, <1>7 DEF OverBy
  <2>3. \A k \in 1..t : tape[k] # 0 /\ OverBy(StartFor(k, base))
                 => \E n \in DOMAIN Ended(s) : Ended(s)[n].at = StartFor(k, base)
    <3> SUFFICES ASSUME NEW k \in 1..t, tape[k] # 0, OverBy(StartFor(k, base))
                 PROVE  \E n \in DOMAIN Ended(s) : Ended(s)[n].at = StartFor(k, base)
      OBVIOUS
    <3>1. PICK n \in DOMAIN s : s[n].at = StartFor(k, base)
      BY <1>2 DEF AreBarsOf, q
    <3>2. n # Len(s)
      BY <3>1, <1>5, <1>7 DEF Forms
    <3>3. n \in DOMAIN Ended(s)
      BY <3>2, <1>5, <1>6, <1>7
    <3> QED BY <3>1, <3>3, <2>1
  <2> QED BY <2>2, <2>3
<1>8. CASE ~Forms(s)
  <2>1. Ended(s) = s
    BY <1>5, <1>8
  <2>2. \A n \in DOMAIN s : OverBy(s[n].at)
    <3> SUFFICES ASSUME NEW n \in DOMAIN s PROVE OverBy(s[n].at)
      OBVIOUS
    <3>1. s # <<>> /\ Len(s) \in DOMAIN s
      BY <1>6
    <3>2. OverBy(s[Len(s)].at)
      BY <3>1, <1>8 DEF Forms, Last
    <3>3. CASE n = Len(s)
      BY <3>2, <3>3
    <3>4. CASE n < Len(s)
      <4>1. s[n].at \in Int /\ s[n].at < s[Len(s)].at /\ s[Len(s)].at \in Int
        BY <3>1, <3>4, <1>4
      <4> QED BY <4>1, <3>2, <1>0 DEF OverBy
    <3> QED BY <3>3, <3>4, <1>6
  <2>3. \A k \in 1..t : tape[k] # 0 => \E n \in DOMAIN s : s[n].at = StartFor(k, base)
    BY <1>2 DEF AreBarsOf, q
  <2> QED BY <2>1, <2>2, <2>3, <1>8, SMTT(30)
<1> QED BY <1>7, <1>8

\* The seed takes the place of an older bar, and completes one of its bucket.
LEMMA SeededIs ==
    ASSUME NEW b \in BarSet, NEW old \in {NoBar} \cup BarSet
    PROVE  /\ Seeded(b, old) \in BarSet /\ Seeded(b, old) # NoBar
           /\ old = NoBar => Seeded(b, old) = b
           /\ old # NoBar /\ old.at < b.at => Seeded(b, old) = b
           /\ old # NoBar /\ old.at > b.at => Seeded(b, old) = old
           /\ old # NoBar /\ old.at = b.at =>
                 /\ Seeded(b, old).at = b.at /\ ~Seeded(b, old).partial
                 /\ Seeded(b, old).low = Least(old.low, b.low) /\ Seeded(b, old).high = Most(old.high, b.high)
<1>1. b # NoBar /\ \A x \in BarSet : x # NoBar
  BY DEF BarSet, NoBar
<1>2. CASE old = NoBar
  BY <1>1, <1>2 DEF Seeded
<1>3. CASE old # NoBar /\ old.at < b.at
  BY <1>1, <1>3 DEF Seeded, BarSet
<1>4. CASE old # NoBar /\ old.at > b.at
  BY <1>1, <1>4 DEF Seeded, BarSet
<1>5. CASE old # NoBar /\ old.at = b.at
  <2>1. Seeded(b, old) = [old EXCEPT !.low = Least(@, b.low), !.high = Most(@, b.high), !.partial = FALSE]
    BY <1>1, <1>5 DEF Seeded, Merged, BarSet
  <2>2. Least(old.low, b.low) \in Nat /\ Most(old.high, b.high) \in Nat
    BY <1>5 DEF Least, Most, BarSet
  <2>3. /\ Seeded(b, old) \in BarSet /\ Seeded(b, old).at = b.at /\ ~Seeded(b, old).partial
        /\ Seeded(b, old).low = Least(old.low, b.low) /\ Seeded(b, old).high = Most(old.high, b.high)
    BY <1>5, <2>1, <2>2 DEF BarSet
  <2> QED BY <1>1, <1>5, <2>3 DEF BarSet
<1>6. old # NoBar => old.at < b.at \/ old.at > b.at \/ old.at = b.at
  BY DEF BarSet
<1> QED BY <1>2, <1>3, <1>4, <1>5, <1>6

\* A function on 1..n is a sequence.
LEMMA FunctionIsSeq == ASSUME NEW S, NEW n \in Nat, NEW f \in [1..n -> S] PROVE f \in Seq(S) /\ Len(f) = n
<1> QED OBVIOUS

\* The bars of an answer, on their way to the worker.
HistoryBars == [n \in DOMAIN Ended(answer) |-> Tagged(Ended(answer)[n], TRUE)]
\* They are the bars of the answer that are over, marked as history.
LEMMA HistoryBarsAre ==
    ASSUME GapsTyped
    PROVE  /\ HistoryBars \in Seq(LineBar) /\ Len(HistoryBars) = Len(Ended(answer))
           /\ DOMAIN HistoryBars = DOMAIN Ended(answer)
           /\ \A n \in DOMAIN HistoryBars : /\ HistoryBars[n] = Tagged(Ended(answer)[n], TRUE)
                                            /\ HistoryBars[n].at = Ended(answer)[n].at
                                            /\ HistoryBars[n].partial = Ended(answer)[n].partial
                                            /\ HistoryBars[n].warmup
<1>1. answer \in Seq(BarSet)
  BY DEF GapsTyped
<1>2. Ended(answer) \in Seq(BarSet) /\ DOMAIN Ended(answer) = 1..Len(Ended(answer)) /\ Len(Ended(answer)) \in Nat
  BY <1>1, OverIs
<1>3. \A n \in DOMAIN Ended(answer) : Ended(answer)[n] \in BarSet
  BY <1>2
<1>4. \A n \in DOMAIN Ended(answer) :
         /\ Tagged(Ended(answer)[n], TRUE) \in LineBar /\ Tagged(Ended(answer)[n], TRUE).at = Ended(answer)[n].at
         /\ Tagged(Ended(answer)[n], TRUE).partial = Ended(answer)[n].partial /\ Tagged(Ended(answer)[n], TRUE).warmup
  BY <1>3, TaggedIs
<1>5. HistoryBars = [n \in 1..Len(Ended(answer)) |-> Tagged(Ended(answer)[n], TRUE)]
  BY <1>2 DEF HistoryBars
<1>6. HistoryBars \in [1..Len(Ended(answer)) -> LineBar]
  BY <1>2, <1>4, <1>5, Zenon
<1>7. HistoryBars \in Seq(LineBar) /\ Len(HistoryBars) = Len(Ended(answer))
  BY <1>2, <1>6, FunctionIsSeq
<1> QED BY <1>2, <1>4, <1>5, <1>7

\* A finite set of gaps has an oldest one.
LEMMA OldestOfFinite ==
    ASSUME NEW T \in SUBSET ZoneSet, IsFiniteSet(T), T # {}
    PROVE  \E m \in T : \A k \in T : m.at <= k.at
<1>0. \A z \in ZoneSet : z.at \in Int
  BY DEF ZoneSet
<1> DEFINE Has(U) == U # {} => \E m \in U : \A k \in U : m.at <= k.at
           S == {n \in Nat : \A U \in SUBSET ZoneSet : IsFiniteSet(U) /\ Cardinality(U) = n => Has(U)}
<1>1. 0 \in S
  <2>1. \A U \in SUBSET ZoneSet : IsFiniteSet(U) /\ Cardinality(U) = 0 => U = {}
    BY FS_EmptySet
  <2> QED BY <2>1
<1>2. ASSUME NEW n \in Nat, n \in S PROVE n + 1 \in S
  <2> SUFFICES ASSUME NEW U \in SUBSET ZoneSet, IsFiniteSet(U), Cardinality(U) = n + 1, U # {}
               PROVE  \E m \in U : \A k \in U : m.at <= k.at
    OBVIOUS
  <2>1. PICK x \in U : TRUE
    OBVIOUS
  <2> DEFINE V == U \ {x}
  <2>2. IsFiniteSet(V) /\ Cardinality(V) = n
    <3>1. IsFiniteSet(V) /\ Cardinality(V) = Cardinality(U) - 1
      BY <2>1, FS_RemoveElement
    <3> QED BY <3>1
  <2>3. V \in SUBSET ZoneSet /\ x \in ZoneSet /\ x.at \in Int
    BY <2>1, <1>0
  <2>4. V # {} => \E m \in V : \A k \in V : m.at <= k.at
    BY <1>2, <2>2, <2>3
  <2>5. CASE V = {}
    BY <2>1, <2>3, <2>5
  <2>6. CASE V # {}
    <3>1. PICK m \in V : \A k \in V : m.at <= k.at
      BY <2>4, <2>6
    <3>2. \A k \in U : k = x \/ k \in V
      OBVIOUS
    <3>3. m \in U /\ m.at \in Int
      BY <2>3, <1>0
    <3>4. CASE m.at <= x.at
      BY <3>1, <3>2, <3>3, <3>4
    <3>5. CASE ~(m.at <= x.at)
      <4>1. \A k \in V : x.at <= k.at
        <5> SUFFICES ASSUME NEW k \in V PROVE x.at <= k.at
          OBVIOUS
        <5>1. k.at \in Int /\ m.at <= k.at
          BY <3>1, <2>3, <1>0
        <5> HIDE DEF V
        <5> QED BY <5>1, <3>3, <3>5, <2>3
      <4>2. x.at <= x.at
        BY <2>3
      <4> QED BY <2>1, <3>2, <4>1, <4>2
    <3> QED BY <3>4, <3>5
  <2> QED BY <2>5, <2>6
<1> HIDE DEF S
<1>3. Cardinality(T) \in Nat
  BY FS_CardinalityType
<1>4. Cardinality(T) \in S
  BY <1>1, <1>2, <1>3, Induct
<1>5. Has(T)
  BY <1>4 DEF S
<1> QED BY <1>5

\* Pruning drops the oldest.
LEMMA NewestIs ==
    ASSUME GapsConstants, NEW Z \in SUBSET ZoneSet, IsFiniteSet(Z), Cardinality(Z) <= MaxZones + 1
    PROVE  Newest(Z) \in SUBSET Z /\ IsFiniteSet(Newest(Z)) /\ Cardinality(Newest(Z)) <= MaxZones
<1>1. MaxZones \in Nat /\ Cardinality(Z) \in Nat
  BY FS_CardinalityType DEF GapsConstants
<1>2. Newest(Z) \in SUBSET Z
  BY DEF Newest
<1>3. IsFiniteSet(Newest(Z)) /\ Cardinality(Newest(Z)) <= Cardinality(Z) /\ Cardinality(Newest(Z)) \in Nat
  BY <1>2, FS_Subset, FS_CardinalityType
<1>4. CASE Cardinality(Z) > MaxZones
  <2>1. Z # {}
    <3>1. Cardinality(Z) # 0
      BY <1>1, <1>4
    <3> QED BY <3>1, FS_EmptySet
  <2>2. \A z \in Z : z.at \in Int
    BY DEF ZoneSet
  <2>3. PICK z \in Z : \A y \in Z : z.at <= y.at
    BY <2>1, OldestOfFinite
  <2>5. z \notin Newest(Z)
    <3>1. ~\E y \in Z : y.at < z.at
      BY <2>2, <2>3
    <3> QED BY <1>4, <3>1 DEF Newest
  <2>6. Cardinality(Newest(Z)) < Cardinality(Z)
    <3>1. Newest(Z) # Z
      BY <2>3, <2>5
    <3>2. Cardinality(Newest(Z)) # Cardinality(Z)
      BY <1>2, <3>1, FS_Subset
    <3> QED BY <1>1, <1>3, <3>2
  <2> QED BY <1>1, <1>2, <1>3, <2>6
<1>5. CASE ~(Cardinality(Z) > MaxZones)
  BY <1>1, <1>2, <1>3, <1>5
<1> QED BY <1>4, <1>5

-----------------------------------------------------------------------------
(* The worker *)

\* The head of the queue is a bar, and the rest moves up.
LEMMA HeadOfQueue ==
    ASSUME GapsTyped, queue # <<>>
    PROVE  /\ Len(queue) \in Nat \ {0} /\ 1 \in DOMAIN queue /\ Head(queue) = queue[1] /\ Head(queue) \in LineBar
           /\ Tail(queue) \in Seq(LineBar) /\ Len(Tail(queue)) = Len(queue) - 1
           /\ \A n \in DOMAIN Tail(queue) : n + 1 \in DOMAIN queue /\ Tail(queue)[n] = queue[n + 1]
<1>1. queue \in Seq(LineBar)
  BY DEF GapsTyped
<1>2. Len(queue) \in Nat \ {0} /\ DOMAIN queue = 1..Len(queue)
  BY <1>1
<1>3. Head(queue) = queue[1] /\ queue[1] \in LineBar
  BY <1>1, <1>2
<1>4. Tail(queue) \in Seq(LineBar) /\ Len(Tail(queue)) = Len(queue) - 1
  BY <1>1, <1>2
<1>5. \A n \in 1..(Len(queue) - 1) : Tail(queue)[n] = queue[n + 1]
  BY <1>1, <1>2
<1> QED BY <1>2, <1>3, <1>4, <1>5

\* Sequences and their tails.
LEMMA SeqFacts == ASSUME NEW S, NEW s \in Seq(S)
                  PROVE  /\ Len(s) \in Nat /\ DOMAIN s = 1..Len(s) /\ (s = <<>> <=> Len(s) = 0)
                         /\ \A n \in 1..Len(s) : s[n] \in S
<1> QED OBVIOUS

\* What is left without the first element.
LEMMA TailFacts == ASSUME NEW S, NEW s \in Seq(S), s # <<>>
                   PROVE  /\ Tail(s) \in Seq(S) /\ Len(Tail(s)) = Len(s) - 1
                          /\ \A n \in 1..(Len(s) - 1) : Tail(s)[n] = s[n + 1]
<1> QED OBVIOUS

\* What there is with one more.
LEMMA AppendFacts == ASSUME NEW S, NEW s \in Seq(S), NEW x \in S
                     PROVE  /\ Append(s, x) \in Seq(S) /\ Len(Append(s, x)) = Len(s) + 1
                            /\ \A n \in 1..(Len(s) + 1) : Append(s, x)[n] = IF n = Len(s) + 1 THEN x ELSE s[n]
<1> QED OBVIOUS

\* A bar that is not newer changes nothing, one that is partial begins anew, and another comes
\* behind the last two.
Stays(b) == /\ ~b.partial /\ series # <<>> /\ b.at <= series[Len(series)].at /\ SeriesWith(b) = series
            /\ \A s : Found(b, s) = {}
Clears(b) == b.partial /\ SeriesWith(b) = <<>> /\ \A s : Found(b, s) = {}
Extends(b, d) == /\ ~b.partial /\ (series # <<>> => b.at > series[Len(series)].at)
                 /\ Len(SeriesWith(b)) = Len(series) + 1 - d
                 /\ \A n \in 1..(Len(series) + 1 - d) :
                       SeriesWith(b)[n] = IF n + d = Len(series) + 1 THEN b ELSE series[n + d]
\* What the detector does with a bar is one of three things.
LEMMA SeriesIs ==
    ASSUME GapsTyped, NEW b \in LineBar
    PROVE  /\ SeriesWith(b) \in Seq(LineBar) /\ Len(SeriesWith(b)) <= 3
           /\ Stays(b) \/ Clears(b) \/ \E d \in {0, 1} : Extends(b, d) /\ (d = 1 <=> Len(series) = 3)
<1>1. series \in Seq(LineBar) /\ Len(series) \in Nat /\ Len(series) <= 3
  <2>1. series \in Seq(LineBar) /\ Len(series) <= 3
    BY DEF GapsTyped
  <2>2. Len(series) \in Nat
    BY <2>1
  <2> QED BY <2>1, <2>2
<1>2. b.at \in Int /\ b.partial \in BOOLEAN
  BY DEF LineBar
<1>3. series # <<>> => /\ Last(series) = series[Len(series)] /\ series[Len(series)] \in LineBar
                       /\ series[Len(series)].at \in Int
  <2> SUFFICES ASSUME series # <<>>
               PROVE  /\ Last(series) = series[Len(series)] /\ series[Len(series)] \in LineBar
                      /\ series[Len(series)].at \in Int
    OBVIOUS
  <2>2. series[Len(series)] \in LineBar
    BY <1>1
  <2> QED BY <2>2 DEF Last, LineBar
<1>4. CASE b.partial
  <2>1. SeriesWith(b) = <<>> /\ \A s : Found(b, s) = {}
    BY <1>4 DEF SeriesWith, Found, Fits
  <2>2. SeriesWith(b) \in Seq(LineBar) /\ Len(SeriesWith(b)) <= 3
    BY <2>1
  <2> QED BY <1>4, <2>1, <2>2 DEF Clears
<1>5. CASE ~b.partial /\ series # <<>> /\ b.at <= series[Len(series)].at
  <2>1. ~Fits(b)
    BY <1>2, <1>3, <1>5 DEF Fits
  <2>2. SeriesWith(b) = series /\ \A s : Found(b, s) = {}
    BY <1>5, <2>1 DEF SeriesWith, Found
  <2> QED BY <1>1, <1>5, <2>2 DEF Stays
<1>6. CASE ~b.partial /\ (series # <<>> => b.at > series[Len(series)].at)
  <2>1. Fits(b)
    BY <1>3, <1>6 DEF Fits
  <2> DEFINE t == Append(series, b)
  <2>2. /\ t \in Seq(LineBar) /\ Len(t) = Len(series) + 1
        /\ \A n \in 1..(Len(series) + 1) : t[n] = IF n = Len(series) + 1 THEN b ELSE series[n]
    BY <1>1, AppendFacts
  <2>3. SeriesWith(b) = IF Len(t) > 3 THEN Tail(t) ELSE t
    BY <1>6, <2>1 DEF SeriesWith, LastThree
  <2> HIDE DEF t
  <2>4. CASE Len(series) = 3
    <3>0. Len(t) = 4 /\ t \in Seq(LineBar) /\ \A n \in 1..4 : t[n] = IF n = 4 THEN b ELSE series[n]
      BY <2>2, <2>4
    <3>1. SeriesWith(b) = Tail(t)
      BY <3>0, <2>3
    <3>2. Tail(t) \in Seq(LineBar) /\ Len(Tail(t)) = 3 /\ \A n \in 1..3 : Tail(t)[n] = t[n + 1]
      <4>0. Len(t) = 0 <=> t = <<>>
        BY <3>0, SeqFacts
      <4>1. t # <<>>
        <5>1. Len(t) = 4
          BY <3>0
        <5>2. Len(t) # 0
          BY <5>1
        <5> QED BY <4>0, <5>2
      <4>2. Tail(t) \in Seq(LineBar) /\ Len(Tail(t)) = Len(t) - 1 /\ \A n \in 1..(Len(t) - 1) : Tail(t)[n] = t[n + 1]
        BY <3>0, <4>1, TailFacts
      <4> QED BY <3>0, <4>2, SMTT(30)
    <3>3. ASSUME NEW n \in 1..3 PROVE SeriesWith(b)[n] = IF n + 1 = Len(series) + 1 THEN b ELSE series[n + 1]
      <4>1. n + 1 \in 1..4 /\ (n + 1 = 4 <=> n + 1 = Len(series) + 1)
        BY <2>4
      <4>2. t[n + 1] = IF n + 1 = 4 THEN b ELSE series[n + 1]
        BY <3>0, <4>1
      <4> QED BY <3>1, <3>2, <4>1, <4>2
    <3>4. Len(SeriesWith(b)) = 3 /\ Len(SeriesWith(b)) = Len(series) + 1 - 1 /\ 3 = Len(series) + 1 - 1
      BY <2>4, <3>1, <3>2
    <3>5. Extends(b, 1)
      <4>1. \A n \in 1..(Len(series) + 1 - 1) : n \in 1..3
        BY <2>4
      <4> QED BY <1>6, <3>3, <3>4, <4>1 DEF Extends
    <3> QED BY <3>1, <3>2, <3>5, <2>4
  <2>5. CASE Len(series) # 3
    <3>00. Len(t) = Len(series) + 1
      BY <2>2
    <3>01. Len(series) \in Nat /\ Len(series) <= 3
      BY <1>1
    <3>02. \A k \in Nat : k <= 3 /\ k # 3 => k + 1 <= 3 /\ ~(k + 1 > 3)
      OBVIOUS
    <3>03. Len(series) + 1 <= 3 /\ ~(Len(series) + 1 > 3)
      BY <3>01, <3>02, <2>5, Zenon
    <3>0. ~(Len(t) > 3) /\ Len(series) + 1 <= 3
      BY <3>00, <3>03, Zenon
    <3>1. SeriesWith(b) = t
      BY <2>3, <3>0
    <3>2. Len(SeriesWith(b)) <= 3 /\ Len(SeriesWith(b)) = Len(series) + 1 - 0
      BY <3>00, <3>01, <3>0, <3>1
    <3>3. \A n \in 1..(Len(series) + 1 - 0) :
             SeriesWith(b)[n] = IF n + 0 = Len(series) + 1 THEN b ELSE series[n + 0]
      BY <1>1, <2>2, <3>1
    <3>4. Extends(b, 0)
      BY <1>6, <3>2, <3>3 DEF Extends
    <3> QED BY <2>2, <2>5, <3>1, <3>2, <3>4
  <2> QED BY <2>4, <2>5
<1> QED BY <1>2, <1>3, <1>4, <1>5, <1>6

\* A gap has the time of its third bar, and its bounds between the first and the third.
LEMMA ZoneIs ==
    ASSUME NEW b1 \in LineBar, NEW b3 \in LineBar
    PROVE  /\ \A z \in Zone(b1, b3) : /\ z \in ZoneSet /\ z.at = b3.at
                                      /\ z.bull => z.bottom < b3.low /\ z.bottom = b1.high
                                      /\ ~z.bull => z.top > b3.high /\ z.top = b1.low
           /\ \E z : Zone(b1, b3) \subseteq {z}
<1>1. b1.low \in Nat /\ b1.high \in Nat /\ b3.low \in Nat /\ b3.high \in Nat /\ b3.at \in Int
  BY DEF LineBar
<1>2. CASE b1.high < b3.low
  <2> DEFINE y == [at |-> b3.at, bottom |-> b1.high, top |-> b3.low, bull |-> TRUE]
  <2>1. Zone(b1, b3) = {y}
    BY <1>2 DEF Zone
  <2>2. y \in ZoneSet /\ y.at = b3.at /\ y.bull /\ y.bottom = b1.high
    BY <1>1 DEF ZoneSet
  <2> QED BY <1>2, <2>1, <2>2
<1>3. CASE ~(b1.high < b3.low) /\ b1.low > b3.high
  <2> DEFINE y == [at |-> b3.at, bottom |-> b3.high, top |-> b1.low, bull |-> FALSE]
  <2>1. Zone(b1, b3) = {y}
    BY <1>3 DEF Zone
  <2>2. y \in ZoneSet /\ y.at = b3.at /\ ~y.bull /\ y.top = b1.low
    BY <1>1 DEF ZoneSet
  <2> QED BY <1>3, <2>1, <2>2
<1>4. CASE ~(b1.high < b3.low) /\ ~(b1.low > b3.high)
  <2>1. Zone(b1, b3) = {}
    BY <1>4 DEF Zone
  <2> QED BY <2>1
<1> QED BY <1>2, <1>3, <1>4

\* What the worker finds is a gap of the bar it has just taken, behind all others.
NewGaps == {z \in Found(Head(queue), SeriesWith(Head(queue))) : ~Known(z)}
\* A bar shows one gap at most, of its own and not in the registry, and not if it is late.
LEMMA NewGapsAre ==
    ASSUME GapsTyped, queue # <<>>
    PROVE  /\ NewGaps \subseteq ZoneSet /\ \E z : NewGaps \subseteq {z}
           /\ \A z \in NewGaps : /\ z.at = Head(queue).at /\ \A y \in zones : y.at # z.at
                                 /\ \E d \in {0, 1} : Extends(Head(queue), d)
                                 /\ Len(SeriesWith(Head(queue))) = 3
                                 /\ z \in Zone(SeriesWith(Head(queue))[1], SeriesWith(Head(queue))[3])
                                 /\ SeriesWith(Head(queue))[3] = Head(queue)
                                 /\ ~Filled(z, Head(queue))
<1> DEFINE b == Head(queue)
           s == SeriesWith(b)
<1>1. b \in LineBar
  BY HeadOfQueue
<1> HIDE DEF b
<1>2. s \in Seq(LineBar) /\ (Stays(b) \/ Clears(b) \/ \E d \in {0, 1} : Extends(b, d))
  BY <1>1, SeriesIs
<1>3. NewGaps \subseteq Found(b, s) /\ \A z \in NewGaps : ~Known(z)
  BY DEF NewGaps, b
<1>4. CASE Stays(b) \/ Clears(b) \/ Len(s) # 3
  <2>1. Found(b, s) = {}
    BY <1>4 DEF Stays, Clears, Found
  <2> QED BY <1>3, <2>1
<1>5. CASE Len(s) = 3 /\ \E d \in {0, 1} : Extends(b, d)
  <2>1. s[1] \in LineBar /\ s[3] \in LineBar
    <3> HIDE DEF s
    <3>1. \A n \in 1..Len(s) : s[n] \in LineBar
      BY <1>2, SeqFacts
    <3> QED BY <1>5, <3>1
  <2>2. \A z \in Found(b, s) : z \in Zone(s[1], s[3])
    BY DEF Found
  <2>3. s[3] = b
    <3>1. PICK d \in {0, 1} : Extends(b, d)
      BY <1>5
    <3>2. Len(series) \in Nat /\ Len(series) + 1 - d = 3
      <4>1. series \in Seq(LineBar)
        BY DEF GapsTyped
      <4>2. Len(s) = Len(series) + 1 - d
        BY <3>1 DEF Extends
      <4>3. Len(series) \in Nat
        BY <4>1, SeqFacts
      <4> HIDE DEF s
      <4> QED BY <4>2, <4>3, <1>5
    <3>3. 3 \in 1..(Len(series) + 1 - d) /\ 3 + d = Len(series) + 1
      BY <3>2
    <3> QED BY <3>1, <3>3 DEF Extends
  <2>4. \A z \in NewGaps : z \in Zone(s[1], s[3])
    BY <1>3, <2>2
  <2> HIDE DEF s
  <2>5. \A z \in NewGaps : z \in ZoneSet /\ z.at = b.at
    BY <2>1, <2>3, <2>4, ZoneIs
  <2>6. \E z : NewGaps \subseteq {z}
    BY <2>1, <2>4, ZoneIs
  <2>7. \A z \in NewGaps : ~Filled(z, b)
    BY <1>1, <2>5 DEF Filled, LineBar
  <2>8. \A z \in NewGaps : \A y \in zones : y.at # z.at
    BY <1>3 DEF Known
  <2> QED BY <1>5, <2>3, <2>4, <2>5, <2>6, <2>7, <2>8 DEF b, s
<1> QED BY <1>2, <1>4, <1>5

\* What the registry keeps is of what it had and what was found.
LEMMA WorkTyped ==
    ASSUME GapsConstants, GapsTyped, Work
    PROVE  /\ GapsTyped'
           /\ zones' \subseteq Mitigate(zones \cup NewGaps, Head(queue))
<1> DEFINE b == Head(queue)
<1>1. /\ queue # <<>> /\ series' = SeriesWith(b) /\ zones' = Mitigate(Newest(zones \cup NewGaps), b)
      /\ \/ UNCHANGED told
         \/ \E z \in NewGaps : told' = Append(told, [zone |-> z, lost |-> lost])
      /\ queue' = Tail(queue)
      /\ UNCHANGED <<clock, tape, base, online, m1, bar, offset, history, answer, joined, lost, faults>>
  BY DEF Work, NewGaps
<1>2. b \in LineBar /\ Tail(queue) \in Seq(LineBar) /\ Len(Tail(queue)) = Len(queue) - 1 /\ Len(queue) \in Nat
  BY <1>1, HeadOfQueue
<1> HIDE DEF b
<1>3. series' \in Seq(LineBar) /\ Len(series') <= 3
  BY <1>1, <1>2, SeriesIs
<1>4. NewGaps \subseteq ZoneSet /\ \E z : NewGaps \subseteq {z}
  BY <1>1, NewGapsAre
<1>5. zones \in SUBSET ZoneSet /\ IsFiniteSet(zones) /\ Cardinality(zones) <= MaxZones /\ MaxZones \in Nat
  BY DEF GapsTyped, GapsConstants
<1>6. /\ zones \cup NewGaps \in SUBSET ZoneSet /\ IsFiniteSet(zones \cup NewGaps)
      /\ Cardinality(zones \cup NewGaps) <= MaxZones + 1
  <2>1. CASE NewGaps = {}
    <3>1. zones \cup NewGaps = zones
      BY <2>1
    <3>2. Cardinality(zones) \in Nat
      BY <1>5, FS_CardinalityType
    <3> QED BY <1>5, <3>1, <3>2
  <2>2. CASE NewGaps # {}
    <3>1. PICK z : NewGaps = {z}
      BY <1>4, <2>2
    <3>2. /\ IsFiniteSet(zones \cup {z})
          /\ Cardinality(zones \cup {z}) = IF z \in zones THEN Cardinality(zones) ELSE Cardinality(zones) + 1
      BY <1>5, FS_AddElement
    <3>3. Cardinality(zones) \in Nat
      BY <1>5, FS_CardinalityType
    <3> QED BY <1>4, <1>5, <3>1, <3>2, <3>3
  <2> QED BY <2>1, <2>2
<1>7. /\ Newest(zones \cup NewGaps) \in SUBSET (zones \cup NewGaps) /\ IsFiniteSet(Newest(zones \cup NewGaps))
      /\ Cardinality(Newest(zones \cup NewGaps)) <= MaxZones
  BY <1>6, NewestIs
<1>8. zones' \in SUBSET Newest(zones \cup NewGaps)
  BY <1>1 DEF Mitigate
<1>9. zones' \in SUBSET ZoneSet /\ IsFiniteSet(zones') /\ Cardinality(zones') <= MaxZones
  <2>1. IsFiniteSet(zones') /\ Cardinality(zones') <= Cardinality(Newest(zones \cup NewGaps))
    BY <1>7, <1>8, FS_Subset
  <2>2. Cardinality(zones') \in Nat /\ Cardinality(Newest(zones \cup NewGaps)) \in Nat
    BY <1>7, <2>1, FS_CardinalityType
  <2> QED BY <1>5, <1>6, <1>7, <1>8, <2>1, <2>2
<1>10. told' \in Seq([zone : ZoneSet, lost : BOOLEAN])
  <2>1. told \in Seq([zone : ZoneSet, lost : BOOLEAN]) /\ lost \in BOOLEAN
    BY DEF GapsTyped
  <2>2. ASSUME NEW z \in NewGaps PROVE [zone |-> z, lost |-> lost] \in [zone : ZoneSet, lost : BOOLEAN]
    BY <1>4, <2>1
  <2>3. ASSUME NEW z \in NewGaps, told' = Append(told, [zone |-> z, lost |-> lost])
        PROVE  told' \in Seq([zone : ZoneSet, lost : BOOLEAN])
    <3> DEFINE e == [zone |-> z, lost |-> lost]
    <3>1. e \in [zone : ZoneSet, lost : BOOLEAN]
      BY <2>2
    <3>2. told' = Append(told, e)
      BY <2>3
    <3> HIDE DEF e
    <3> QED BY <2>1, <3>1, <3>2
  <2> QED BY <1>1, <2>1, <2>3
<1>11. queue' \in Seq(LineBar) /\ Len(queue') <= MaxQueue
  <2>1. MaxQueue \in Nat /\ Len(queue) <= MaxQueue
    BY DEF GapsConstants, GapsTyped
  <2> QED BY <1>1, <1>2, <2>1
<1>12. zones' \subseteq Mitigate(zones \cup NewGaps, b)
  BY <1>1, <1>7 DEF Mitigate
<1> QED BY <1>1, <1>3, <1>9, <1>10, <1>11, <1>12 DEF GapsTyped, b

-----------------------------------------------------------------------------
(* Steps that leave the line alone *)

SameLine == UNCHANGED <<clock, tape, base, m1, bar, offset, queue, series, zones, told, joined, lost>>
QuietStep == StartWarmup \/ WarmupFailed \/ GoOffline \/ ComeOnline \/ UNCHANGED gaps

\* Requests, their failures and the connection leave all bars as they are,
LEMMA QuietStepsAre ==
    ASSUME GapsConstants, GapsTyped, QuietStep
    PROVE  /\ GapsTyped' /\ SameLine
           /\ history = "done" => history' = "done"
           /\ history' = "asked" => (history = "asked" /\ answer' = answer) \/ answer' = BrokerBars(quotes)
<1> DEFINE Fine(s) == s \in Seq(BarSet) /\ \A n \in DOMAIN s : ~s[n].partial
<1>1. history \in {"cold", "asked", "done"} /\ Fine(answer) /\ faults \in 0..MaxFaults /\ online \in BOOLEAN
  BY DEF GapsTyped
<1>2. MaxFaults \in Nat
  BY DEF GapsConstants
<1>3. Fine(BrokerBars(quotes))
  <2>1. base \in Int /\ tape \in Seq(Nat) /\ clock \in 0..Len(tape) /\ quotes = SubSeq(tape, 1, clock)
    BY TypedFacts
  <2>2. quotes \in Seq(Nat)
    BY <2>1, QuotesAre
  <2> QED BY <2>1, <2>2, BrokerBarsAre DEF AreBarsOf
<1>4. Fine(<<>>)
  OBVIOUS
<1> HIDE DEF Fine
<1>5. SameLine
  BY DEF QuietStep, StartWarmup, WarmupFailed, GoOffline, ComeOnline, SameLine, gaps
<1>6. /\ history' \in {"cold", "asked", "done"} /\ Fine(answer') /\ faults' \in 0..MaxFaults
      /\ online' \in BOOLEAN
      /\ history = "done" => history' = "done"
      /\ history' = "asked" => (history = "asked" /\ answer' = answer) \/ answer' = BrokerBars(quotes)
  <2>1. CASE StartWarmup
    BY <1>1, <1>3, <2>1 DEF StartWarmup, AsksHistory
  <2>2. CASE WarmupFailed
    BY <1>1, <1>2, <1>4, <2>2 DEF WarmupFailed, KeyErased, Nothing
  <2>3. CASE GoOffline
    <3>1. Fine(answer') /\ online' \in BOOLEAN /\ history' # "asked"
      BY <1>4, <2>3 DEF GoOffline, KeyErased, Nothing
    <3>2. faults' \in 0..MaxFaults
      BY <1>1, <1>2, <2>3 DEF GoOffline
    <3>3. history' \in {"cold", "asked", "done"} /\ (history = "done" => history' = "done")
      BY <1>1, <2>3 DEF GoOffline, KeyErased
    <3> QED BY <3>1, <3>2, <3>3
  <2>4. CASE ComeOnline
    BY <1>1, <2>4 DEF ComeOnline, BackOnline
  <2>5. CASE UNCHANGED gaps
    BY <1>1, <2>5 DEF gaps
  <2> QED BY <2>1, <2>2, <2>3, <2>4, <2>5 DEF QuietStep
<1>7. GapsTyped'
  BY <1>5, <1>6 DEF GapsTyped, SameLine, Fine
<1> QED BY <1>5, <1>6, <1>7

\* and so keep the invariant.
LEMMA QuietKeeps == ASSUME GapsConstants, GapsInv, QuietStep PROVE GapsInv'
<1>1. /\ GapsTyped' /\ SameLine
      /\ history = "done" => history' = "done"
      /\ history' = "asked" => (history = "asked" /\ answer' = answer) \/ answer' = BrokerBars(quotes)
  BY QuietStepsAre DEF GapsInv
<1>2. quotes' = quotes /\ Line' = Line
  BY <1>1 DEF SameLine, quotes, Line
<1>3. SeriesGrows' /\ ZonesAreOpen' /\ PartialFirst' /\ ReportedOnce'
  BY <1>1 DEF GapsInv, SameLine, SeriesGrows, ZonesAreOpen, PartialFirst, ReportedOnce
<1>4. ToldInTime'
  <2>1. PICK r \in 0..clock : ToldBefore(r)
    BY DEF GapsInv, ToldInTime
  <2>2. ToldBefore(r)'
    BY <1>1, <2>1 DEF ToldBefore, SameLine, NoMorePartials, OverBy
  <2>3. r \in 0..clock'
    BY <1>1 DEF SameLine
  <2> QED BY <2>2, <2>3 DEF ToldInTime
<1>5. OnlyHistory'
  BY <1>1, <1>2 DEF GapsInv, OnlyHistory, SameLine
<1>6. NothingMissed'
  <2> SUFFICES ASSUME ~lost'
               PROVE  /\ LastIsSeen' /\ BarIsCurrent' /\ AnswerIsCurrent' /\ WholeIn(series)' /\ WholeIn(queue)'
                      /\ Gapless(Line)' /\ NextFollows'
    BY DEF NothingMissed
  <2>1. /\ LastIsSeen /\ BarIsCurrent /\ AnswerIsCurrent /\ WholeIn(series) /\ WholeIn(queue)
        /\ Gapless(Line) /\ NextFollows
    BY <1>1 DEF GapsInv, NothingMissed, SameLine
  <2>2. LastIsSeen'
    BY <1>1, <2>1 DEF LastIsSeen, InMinute, AllHeld, Held, BarHas, StartFor, SameLine, Quote
  <2>3. BarIsCurrent'
    BY <1>1, <1>2, <2>1 DEF BarIsCurrent, SameLine, Quote, Seen, Occurs, Within, Starts
  <2>4. WholeIn(series)' /\ WholeIn(queue)'
    BY <1>1, <1>2, <2>1 DEF WholeIn, SameLine, OverBy, BarOf, Starts, In
  <2>5. Gapless(Line)'
    BY <1>1, <1>2, <2>1 DEF Gapless, Continues, Follows, Reaches, SameLine, Starts
  <2>6. NextFollows'
    BY <1>1, <1>2, <2>1 DEF NextFollows, Continues, Follows, Reaches, SameLine, Starts, Quote, Seen
  <2>7. AnswerIsCurrent'
    <3> SUFFICES ASSUME history' = "asked" PROVE \E t \in 0..clock' : MadeAt(t)'
      BY DEF AnswerIsCurrent
    <3>1. CASE history = "asked" /\ answer' = answer
      <4>1. PICK t \in 0..clock : MadeAt(t)
        BY <2>1, <3>1 DEF AnswerIsCurrent
      <4>2. MadeAt(t)'
        BY <1>1, <3>1, <4>1 DEF MadeAt, SameLine, Quote, Seen, Within, BrokerBars, Opens, BarOf, In
      <4> QED BY <1>1, <4>2 DEF SameLine
    <3>2. CASE answer' = BrokerBars(quotes)
      <4>1. clock \in Nat /\ clock' = clock /\ tape' = tape /\ base' = base
        BY <1>1, TypedFacts DEF GapsInv, SameLine
      <4>2. answer' = BrokerBars(SubSeq(tape, 1, clock))'
        BY <3>2, <4>1 DEF quotes, BrokerBars, Opens, BarOf, In
      <4>3. \A n \in 1..clock : ~(clock < n)
        BY <4>1
      <4>4. MadeAt(clock)'
        BY <4>1, <4>2, <4>3 DEF MadeAt, Within, Quote
      <4>5. clock \in 0..clock'
        BY <4>1
      <4> QED BY <4>1, <4>4, <4>5
    <3> QED BY <1>1, <3>1, <3>2
  <2> QED BY <2>2, <2>3, <2>4, <2>5, <2>6, <2>7
<1> QED BY <1>1, <1>3, <1>4, <1>5, <1>6 DEF GapsInv

\* Nothing is left after a restart but what was told, and what was told is over.
Nought == /\ m1 = NoM1 /\ bar = NoBar /\ offset = 0 /\ queue = <<>> /\ series = <<>> /\ zones = {}
          /\ history = "cold" /\ answer = <<>> /\ joined = FALSE
NoughtFacts ==
    /\ tape \in Tapes /\ base \in Offsets /\ clock \in 0..Len(tape) /\ online \in BOOLEAN
    /\ told \in Seq([zone : ZoneSet, lost : BOOLEAN]) /\ lost = FALSE /\ faults \in 0..MaxFaults /\ Nought
    /\ ReportedOnce /\ \A n \in DOMAIN told : ~told[n].lost => OverBy(told[n].zone.at)
\* With nothing in memory the invariant holds, wherever the clock is.
LEMMA NoughtIs == GapsConstants /\ NoughtFacts => GapsInv
<1> SUFFICES ASSUME GapsConstants, NoughtFacts PROVE GapsInv
  OBVIOUS
<1>0. /\ tape \in Tapes /\ base \in Offsets /\ clock \in 0..Len(tape) /\ online \in BOOLEAN
      /\ told \in Seq([zone : ZoneSet, lost : BOOLEAN]) /\ lost = FALSE /\ faults \in 0..MaxFaults /\ Nought
      /\ ReportedOnce /\ \A n \in DOMAIN told : ~told[n].lost => OverBy(told[n].zone.at)
  BY DEF NoughtFacts
<1>1. MaxQueue \in Nat /\ MaxZones \in Nat
  BY DEF GapsConstants
<1>2. GapsTyped
  <2>1. <<>> \in Seq(LineBar) /\ <<>> \in Seq(BarSet) /\ Len(<<>>) = 0
    OBVIOUS
  <2>0. \A n \in DOMAIN answer : ~answer[n].partial
    BY <1>0 DEF Nought
  <2>2. IsFiniteSet({}) /\ Cardinality({}) = 0 /\ {} \in SUBSET ZoneSet
    BY FS_EmptySet
  <2>3. Len(queue) <= MaxQueue /\ Len(series) <= 3 /\ Cardinality(zones) <= MaxZones
    BY <1>0, <1>1, <2>1, <2>2 DEF Nought
  <2> QED BY <1>0, <2>0, <2>1, <2>2, <2>3 DEF GapsTyped, Nought
<1>3. DOMAIN queue = {} /\ DOMAIN series = {} /\ Line = <<>> /\ Len(Line) = 0 /\ DOMAIN Line = {}
  <2>1. queue = <<>> /\ series = <<>>
    BY <1>0 DEF Nought
  <2> QED BY <2>1 DEF Line
<1>4. SeriesGrows /\ OnlyHistory /\ ZonesAreOpen /\ PartialFirst
  BY <1>0, <1>3 DEF SeriesGrows, OnlyHistory, ZonesAreOpen, PartialFirst, Nought
<1>5. NothingMissed
  <2>1. LastIsSeen /\ BarIsCurrent /\ AnswerIsCurrent
    BY <1>0 DEF Nought, LastIsSeen, BarIsCurrent, AnswerIsCurrent
  <2>2. WholeIn(series) /\ WholeIn(queue) /\ Gapless(Line)
    BY <1>3 DEF WholeIn, Gapless
  <2>3. ~Continues(Line, Len(Line) + 1)
    BY <1>3 DEF Continues
  <2>4. NextFollows
    BY <2>3 DEF NextFollows
  <2> QED BY <2>1, <2>2, <2>4 DEF NothingMissed
<1>6. ToldInTime
  <2>1. clock \in Nat
    BY <1>2, TypedFacts
  <2>2. ToldBefore(clock)
    BY <1>0, <1>3 DEF ToldBefore, Nought, OverBy
  <2>3. clock \in 0..clock
    BY <2>1
  <2> QED BY <2>2, <2>3 DEF ToldInTime
<1> QED BY <1>0, <1>2, <1>4, <1>5, <1>6 DEF GapsInv

\* It holds as the program starts,
LEMMA GapsStart == ASSUME GapsConstants, GapsInit PROVE GapsInv
<1>1. Nought /\ lost = FALSE /\ tape \in Tapes /\ base \in Offsets /\ online \in BOOLEAN /\ clock = 0 /\ faults = 0
      /\ told = <<>>
  BY DEF GapsInit, Empty, Nought, Nothing
<1>2. clock \in 0..Len(tape) /\ faults \in 0..MaxFaults
  <2>1. tape \in Seq(Nat) /\ MaxFaults \in Nat
    BY <1>1 DEF GapsConstants
  <2>2. Len(tape) \in Nat
    BY <2>1, SeqFacts
  <2> QED BY <1>1, <2>1, <2>2
<1>3. told \in Seq([zone : ZoneSet, lost : BOOLEAN]) /\ DOMAIN told = {}
  BY <1>1
<1>4. ReportedOnce
  BY <1>3 DEF ReportedOnce
<1>5. NoughtFacts
  BY <1>1, <1>2, <1>3, <1>4 DEF NoughtFacts
<1> QED BY <1>5, NoughtIs

\* and as it starts again.
LEMMA StartAgainKeeps == ASSUME GapsConstants, GapsInv, StartAgain PROVE GapsInv'
<1>1. /\ Nought' /\ lost' = FALSE /\ online' = FALSE /\ faults < MaxFaults /\ faults' = faults + 1
      /\ clock' = clock /\ tape' = tape /\ base' = base /\ told' = told
  BY DEF StartAgain, Nought, Nothing
<1>2. faults' \in 0..MaxFaults
  BY <1>1 DEF GapsInv, GapsTyped, GapsConstants
<1>3. ReportedOnce'
  BY <1>1 DEF GapsInv, ReportedOnce
<1>4. PICK r \in 0..clock : ToldBefore(r)
  BY DEF GapsInv, ToldInTime
<1>5. (\A n \in DOMAIN told : ~told[n].lost => OverBy(told[n].zone.at))'
  <2>1. \A n \in DOMAIN told : ~told[n].lost => OverBy(told[n].zone.at)
    BY <1>4 DEF ToldBefore
  <2> QED BY <1>1, <2>1 DEF OverBy
<1>6. /\ tape' \in Tapes /\ base' \in Offsets /\ clock' \in 0..Len(tape')
      /\ told' \in Seq([zone : ZoneSet, lost : BOOLEAN])
  BY <1>1 DEF GapsInv, GapsTyped
<1>7. online' \in BOOLEAN
  BY <1>1
<1>8. NoughtFacts' /\ GapsConstants'
  BY <1>1, <1>2, <1>3, <1>5, <1>6, <1>7 DEF NoughtFacts, GapsConstants
<1>9. NoughtFacts' /\ GapsConstants' => GapsInv'
  BY NoughtIs, PTL
<1> QED BY <1>8, <1>9

-----------------------------------------------------------------------------
(* A moment *)

\* The same in the next state.
QuoteNext(n) == n \in 1..clock' /\ tape'[n] # 0
ClosedQuote(n) == Quote(n) /\ n < Seen
ClosedNext(n) == QuoteNext(n) /\ n < Seen'
OverNext(start) == start + Size <= clock'

\* What the broker has seen grows by the moment's quote, and bars that are over stay.
LEMMA QuotesGrow ==
    ASSUME GapsConstants, GapsTyped, MomentFrame
    PROVE  /\ clock \in Nat /\ clock' = clock + 1 /\ tape' = tape /\ base' = base /\ base \in Int
           /\ \A n : QuoteNext(n) <=> Quote(n) \/ (n = clock + 1 /\ tape[clock + 1] # 0)
           /\ \A x : x \in Starts(quotes)' <=> \E n \in 1..(clock + 1) : QuoteNext(n) /\ x = StartFor(n, base)
           /\ \A x : x \in Starts(quotes) <=> \E n \in 1..clock : Quote(n) /\ x = StartFor(n, base)
           /\ \A x \in Starts(quotes)' : x \in Starts(quotes) \/ x = StartFor(clock + 1, base)
           /\ \A x \in Starts(quotes) :
                 x \in Int /\ x <= clock /\ x \in Starts(quotes)' /\ x <= StartFor(clock + 1, base)
           /\ \A x \in Int : OverBy(x) => OverNext(x) /\ BarOf(x, quotes') = BarOf(x, quotes)
<1>1. /\ clock \in Nat /\ clock' = clock + 1 /\ tape' = tape /\ base' = base /\ base \in Int /\ tape \in Seq(Nat)
      /\ clock \in 0..Len(tape) /\ clock + 1 \in 0..Len(tape) /\ Len(tape) \in Nat
  BY TypedFacts DEF MomentFrame
<1>2. quotes = SubSeq(tape, 1, clock) /\ quotes' = SubSeq(tape, 1, clock + 1)
  BY <1>1 DEF quotes
<1>3. \A n : QuoteNext(n) <=> Quote(n) \/ (n = clock + 1 /\ tape[clock + 1] # 0)
  BY <1>1 DEF Quote, QuoteNext
<1>4. ASSUME NEW x PROVE x \in Starts(quotes)' <=> \E n \in 1..(clock + 1) : QuoteNext(n) /\ x = StartFor(n, base)
  <2>1. Starts(quotes)' = Starts(SubSeq(tape, 1, clock + 1))
    BY <1>1, <1>2 DEF Starts, StartFor
  <2>2. x \in Starts(SubSeq(tape, 1, clock + 1)) <=> \E n \in 1..(clock + 1) : tape[n] # 0 /\ x = StartFor(n, base)
    BY <1>1, StartsAre
  <2>3. \A n \in 1..(clock + 1) : QuoteNext(n) <=> tape[n] # 0
    BY <1>1 DEF Quote, QuoteNext
  <2> QED BY <2>1, <2>2, <2>3
<1>5. ASSUME NEW x PROVE x \in Starts(quotes) <=> \E n \in 1..clock : Quote(n) /\ x = StartFor(n, base)
  <2>1. x \in Starts(SubSeq(tape, 1, clock)) <=> \E n \in 1..clock : tape[n] # 0 /\ x = StartFor(n, base)
    BY <1>1, StartsAre
  <2>2. \A n \in 1..clock : Quote(n) <=> tape[n] # 0
    BY DEF Quote, QuoteNext
  <2> QED BY <1>2, <2>1, <2>2
<1>6. ASSUME NEW x \in Starts(quotes)' PROVE x \in Starts(quotes) \/ x = StartFor(clock + 1, base)
  <2>1. PICK n \in 1..(clock + 1) : QuoteNext(n) /\ x = StartFor(n, base)
    BY <1>4
  <2>2. CASE n = clock + 1
    BY <2>1, <2>2
  <2>3. CASE Quote(n)
    <3>1. n \in 1..clock
      BY <2>3 DEF Quote, QuoteNext
    <3> QED BY <2>1, <2>3, <3>1, <1>5
  <2> QED BY <2>1, <2>2, <2>3, <1>3
<1>7. ASSUME NEW x \in Starts(quotes)
      PROVE  x \in Int /\ x <= clock /\ x \in Starts(quotes)' /\ x <= StartFor(clock + 1, base)
  <2>1. PICK n \in 1..clock : Quote(n) /\ x = StartFor(n, base)
    BY <1>5
  <2>2. n \in Int /\ n <= clock /\ n \in 1..(clock + 1) /\ clock + 1 \in Int /\ n <= clock + 1
    BY <1>1
  <2>3. x \in Int /\ x <= n
    BY <1>1, <2>1, <2>2, InBucket
  <2>4. QuoteNext(n)
    BY <1>3, <2>1
  <2>5. x \in Starts(quotes)'
    BY <1>4, <2>1, <2>2, <2>4
  <2>6. x <= StartFor(clock + 1, base)
    BY <1>1, <2>1, <2>2, BucketsGrow
  <2> QED BY <1>1, <2>2, <2>3, <2>5, <2>6
<1>8. ASSUME NEW x \in Int, OverBy(x) PROVE OverNext(x) /\ BarOf(x, quotes') = BarOf(x, quotes)
  <2>1. Size \in Nat
    BY DEF GapsConstants
  <2>2. x + Size <= clock /\ x + Size <= clock + 1
    BY <1>1, <1>8, <2>1 DEF OverBy, OverNext
  <2>3. OverNext(x)
    BY <1>1, <2>2 DEF OverBy, OverNext
  <2>4. clock <= clock + 1
    BY <1>1
  <2>5. BarOf(x, SubSeq(tape, 1, clock + 1)) = BarOf(x, SubSeq(tape, 1, clock))
    BY <1>1, <2>2, <2>4, OverIsFinal
  <2> QED BY <1>2, <2>3, <2>5
<1> QED BY <1>1, <1>3, <1>4, <1>5, <1>6, <1>7, <1>8

\* The running minute is the last of the broker's, in the last bucket.
LEMMA RunningIs ==
    ASSUME GapsConstants, GapsTyped, LastIsSeen, m1 # NoM1
    PROVE  /\ m1.at \in Int /\ m1.at \in 0..clock /\ m1.low \in Nat /\ m1.high \in Nat /\ Minute \in Nat \ {0}
           /\ \A n : Quote(n) => /\ n \in 1..clock /\ n \in Int /\ n < m1.at + Minute /\ tape[n] \in Nat
                                 /\ StartFor(n, base) <= StartFor(m1.at, base)
                                 /\ m1.at <= n => StartFor(n, base) = StartFor(m1.at, base)
           /\ \E n \in 1..clock : Quote(n) /\ m1.at <= n /\ tape[n] = m1.low
           /\ \E n \in 1..clock : Quote(n) /\ m1.at <= n /\ tape[n] = m1.high
           /\ StartFor(m1.at, base) \in Starts(quotes) /\ StartFor(m1.at, base) \in Int
           /\ m1.at + Minute <= StartFor(m1.at, base) + Size
<1>1. /\ m1.at \in Int /\ m1.at \in 0..clock /\ m1.low \in Nat /\ m1.high \in Nat /\ clock \in Nat
      /\ Full(m1.at) /\ Full(base) /\ base \in Int /\ Minute \in Nat \ {0} /\ tape \in Seq(Nat)
      /\ clock \in 0..Len(tape) /\ quotes = SubSeq(tape, 1, clock) /\ Len(tape) \in Nat
  BY TypedFacts DEF MinuteSet
<1>2. ASSUME NEW n, Quote(n)
      PROVE  /\ n \in 1..clock /\ n \in Int /\ n < m1.at + Minute /\ tape[n] \in Nat
             /\ StartFor(n, base) <= StartFor(m1.at, base)
             /\ m1.at <= n => StartFor(n, base) = StartFor(m1.at, base)
  <2>1. n \in 1..clock /\ n \in Int /\ n < m1.at + Minute
    BY <1>2 DEF Quote, LastIsSeen
  <2>2. n \in 1..Len(tape)
    BY <1>1, <2>1
  <2>3. m1.at <= n => StartFor(n, base) = StartFor(m1.at, base)
    BY <1>1, <2>1, MinuteInBucket
  <2>4. n <= m1.at => StartFor(n, base) <= StartFor(m1.at, base)
    BY <1>1, <2>1, BucketsGrow
  <2>5. StartFor(m1.at, base) \in Int
    BY <1>1, InBucket
  <2>6. tape[n] \in Nat
    BY <1>1, <2>2
  <2>7. n <= m1.at \/ m1.at <= n
    BY <1>1, <2>1
  <2> QED BY <2>1, <2>3, <2>4, <2>5, <2>6, <2>7
<1>3. InMinute(m1.low) /\ InMinute(m1.high)
  BY DEF LastIsSeen
<1>4. PICK n \in 1..clock : Quote(n) /\ m1.at <= n
  BY <1>3 DEF InMinute
<1>5. StartFor(m1.at, base) \in Starts(quotes)
  <2>1. tape[n] # 0 /\ StartFor(m1.at, base) = StartFor(n, base)
    BY <1>2, <1>4 DEF Quote
  <2> QED BY <1>1, <2>1, StartsAre
<1>6. m1.at + Minute <= StartFor(m1.at, base) + Size /\ StartFor(m1.at, base) \in Int
  <2>1. m1.at <= m1.at /\ m1.at < m1.at + Minute
    BY <1>1
  <2> QED BY <1>1, <2>1, MinuteInBucket, InBucket
<1> QED BY <1>1, <1>2, <1>3, <1>5, <1>6 DEF InMinute

\* What the aggregator has closed: the minute that was running is new.
LEMMA ClosedGrow ==
    ASSUME GapsConstants, GapsTyped, MomentFrame, AnyCase, NEW n, ClosedNext(n)
    PROVE  \/ ClosedQuote(n) \/ (EndsMinute /\ Quote(n) /\ m1.at <= n)
           \/ (MissedTick /\ m1 = NoM1) \/ (MissedTick /\ Begun)
<1>1. /\ clock \in Nat /\ clock' = clock + 1
      /\ QuoteNext(n) <=> Quote(n) \/ (n = clock + 1 /\ tape[clock + 1] # 0)
  BY QuotesGrow
<1>2. QuoteNext(n) /\ n < Seen'
  BY DEF ClosedNext
<1>3. Quote(n) => n \in 1..clock /\ n \in Int /\ n < clock + 1
  BY <1>1 DEF Quote, QuoteNext
<1>4. m1 # NoM1 => m1.at \in Int /\ m1.at <= clock
  <2>1. m1 # NoM1 => m1.at \in 0..clock
    BY TypedFacts
  <2> QED BY <1>1, <2>1
<1>5. New.at \in Int /\ New.at <= clock + 1 /\ New # NoM1
  <2>1. New.at \in 0..(clock + 1) /\ New # NoM1
    BY NewIs DEF MomentFrame
  <2> QED BY <1>1, <2>1
<1>6. CASE NoTick
  <2>1. Quote(n) /\ m1' = m1
    BY <1>1, <1>2, <1>6 DEF NoTick, Price
  <2>2. n < Seen
    BY <1>1, <1>2, <1>3, <2>1 DEF Seen
  <2> QED BY <2>1, <2>2 DEF ClosedQuote
<1>7. CASE FirstTick
  <2>1. Seen' = New.at
    BY <1>5, <1>7 DEF FirstTick, Seen
  <2>2. Quote(n)
    BY <1>1, <1>2, <1>5, <2>1
  <2>3. n < Seen
    BY <1>3, <1>7, <2>2 DEF FirstTick, Seen
  <2> QED BY <2>2, <2>3 DEF ClosedQuote
<1>8. CASE OneMore
  <2>1. Seen' = m1.at /\ Seen = m1.at
    <3>1. m1 # NoM1 /\ m1 \in MinuteSet /\ m1' = Merged(m1, New)
      BY <1>8, TypedFacts DEF OneMore
    <3>2. New.low \in Nat /\ New.high \in Nat
      BY NewIs DEF MomentFrame
    <3>3. m1' # NoM1 /\ m1'.at = m1.at
      BY <3>1, <3>2, TickMerged
    <3> QED BY <3>1, <3>3 DEF Seen
  <2>2. m1.at \in Int /\ m1.at <= clock
    BY <1>4, <1>8 DEF OneMore
  <2>3. Quote(n)
    BY <1>1, <1>2, <2>1, <2>2
  <2> QED BY <1>2, <2>1, <2>3 DEF ClosedQuote
<1>9. CASE EndsMinute
  <2>1. Seen' = New.at /\ Seen = m1.at /\ m1.at \in Int
    BY <1>4, <1>5, <1>9 DEF EndsMinute, Seen
  <2>2. Quote(n)
    BY <1>1, <1>2, <1>5, <2>1
  <2>3. n < m1.at \/ m1.at <= n
    BY <1>3, <2>1, <2>2
  <2> QED BY <1>9, <2>1, <2>2, <2>3 DEF ClosedQuote
<1>10. CASE MissedTick
  BY <1>10 DEF Begun
<1> QED BY <1>6, <1>7, <1>8, <1>9, <1>10 DEF AnyCase, StartsBar, MergesBar, EndsBar

\* When nothing was missed the running minute is in no earlier bucket than the running bar.
LEMMA BarEnds ==
    ASSUME GapsConstants, GapsTyped, LastIsSeen, BarIsCurrent, EndsMinute, bar # NoBar, offset = base
    PROVE  /\ bar.at \in Int /\ Bucket \in Int /\ bar.at <= Bucket /\ Bucket \in Starts(quotes)
           /\ Bucket <= m1.at /\ m1.at < Bucket + Size
           /\ bar.at # Bucket => bar.at + Size <= Bucket /\ bar.at + Size <= m1.at /\ OverBy(bar.at)
           /\ \A n \in 1..clock : ClosedQuote(n) => n < m1.at /\ n < bar.at + Size
           /\ \A n \in 1..clock : Quote(n) /\ n < m1.at => ClosedQuote(n)
<1>1. clock \in Nat /\ base \in Int /\ m1 # NoM1 /\ tape \in Seq(Nat) /\ Size \in Nat
      /\ clock \in 0..Len(tape) /\ quotes = SubSeq(tape, 1, clock)
  BY TypedFacts DEF EndsMinute
<1>2. Bucket \in Int /\ Bucket = StartFor(m1.at, base) /\ Bucket <= m1.at /\ m1.at < Bucket + Size
  BY <1>1, StartedIs DEF Bucket
<1>3. /\ m1.at \in Int /\ m1.at \in 0..clock /\ StartFor(m1.at, base) \in Starts(quotes)
      /\ \A n : Quote(n) => n \in Int /\ StartFor(n, base) <= StartFor(m1.at, base)
  BY <1>1, RunningIs
<1>4. bar.at \in Starts(quotes) /\ \A n \in 1..clock : Quote(n) /\ n < Seen => n < bar.at + Size
  BY DEF BarIsCurrent
<1>5. PICK k \in 1..clock : tape[k] # 0 /\ bar.at = StartFor(k, base)
  BY <1>1, <1>4, StartsAre
<1>6. k \in Int /\ Quote(k)
  BY <1>1, <1>5 DEF Quote
<1>7. bar.at \in Int /\ bar.at <= Bucket
  <2>1. StartFor(k, base) \in Int
    BY <1>1, <1>6, InBucket
  <2> QED BY <1>2, <1>3, <1>5, <1>6, <2>1
<1>8. ASSUME bar.at # Bucket PROVE bar.at + Size <= Bucket /\ bar.at + Size <= m1.at /\ OverBy(bar.at)
  <2>1. StartFor(k, base) < StartFor(m1.at, base)
    BY <1>2, <1>5, <1>7, <1>8
  <2>2. bar.at + Size <= Bucket
    BY <1>1, <1>2, <1>3, <1>5, <1>6, <2>1, BucketsApart
  <2>3. bar.at + Size <= m1.at
    BY <1>1, <1>2, <1>3, <1>7, <2>2
  <2>4. m1.at <= clock
    BY <1>1, <1>3
  <2> QED BY <1>1, <1>3, <1>7, <2>2, <2>3, <2>4 DEF OverBy, OverNext
<1>9. Seen = m1.at
  BY <1>1 DEF Seen
<1> QED BY <1>2, <1>3, <1>4, <1>7, <1>8, <1>9 DEF ClosedQuote

\* The running minute in the next state: the broker's last, and what it lacks is in the bar.
LEMMA MomentLast ==
    ASSUME GapsConstants, GapsTyped, MomentFrame, AnyCase, LastIsSeen, BarIsCurrent,
           MissedTick => m1 = NoM1
    PROVE  LastIsSeen'
<1>1. /\ clock \in Nat /\ clock' = clock + 1 /\ tape' = tape /\ base' = base /\ base \in Int
      /\ offset' = offset /\ Minute \in Nat \ {0} /\ Full(base)
      /\ \A n : QuoteNext(n) <=> Quote(n) \/ (n = clock + 1 /\ tape[clock + 1] # 0)
  BY QuotesGrow, TypedFacts DEF MomentFrame
<1>2. \A n : Quote(n) => n \in 1..clock /\ n \in Int /\ n < clock + 1
  BY <1>1 DEF Quote
<1> DEFINE Begins(m) == \A n : QuoteNext(n) => n < m.at + Minute
           HasPrice(m, p) == \E n : QuoteNext(n) /\ m.at <= n /\ tape[n] = p
           InBar(m, n) == bar' # NoBar /\ offset = base /\ StartFor(m.at, base) = bar'.at /\ tape[n] \in bar'.low..bar'.high
           Holds(m) == \A n : QuoteNext(n) /\ m.at <= n => tape[n] \in m.low..m.high \/ InBar(m, n)
<1>3. ASSUME NEW m, m1' = m, Begins(m), HasPrice(m, m.low), HasPrice(m, m.high),
             Holds(m) \/ (joined' /\ bar' = NoBar)
      PROVE  LastIsSeen'
  <2>1. (\A n \in 1..clock : Quote(n) => n < m1.at + Minute)'
    BY <1>3 DEF Quote, QuoteNext
  <2>2. (InMinute(m1.low) /\ InMinute(m1.high))'
    BY <1>1, <1>3 DEF InMinute, Quote, QuoteNext
  <2>3. Holds(m) => AllHeld'
    BY <1>1, <1>3 DEF AllHeld, Held, BarHas, StartFor, Quote, QuoteNext
  <2>4. AllHeld' \/ (joined' /\ bar' = NoBar)
    BY <1>3, <2>3
  <2> HIDE DEF Begins, HasPrice, InBar, Holds
  <2> QED BY <2>1, <2>2, <2>4 DEF LastIsSeen
<1>4. CASE m1' = NoM1
  BY <1>4 DEF LastIsSeen
<1>5. CASE NoTick /\ m1' # NoM1
  <2>1. m1' = m1 /\ bar' = bar /\ joined' = joined /\ m1 # NoM1 /\ \A n : QuoteNext(n) <=> Quote(n)
    BY <1>1, <1>5 DEF NoTick, Price
  <2>2. Begins(m1) /\ HasPrice(m1, m1.low) /\ HasPrice(m1, m1.high)
    BY <2>1, RunningIs
  <2>3. Holds(m1) \/ (joined' /\ bar' = NoBar)
    <3>1. AllHeld => Holds(m1)
      BY <1>2, <2>1 DEF AllHeld, Held, BarHas
    <3> QED BY <2>1, <3>1 DEF LastIsSeen
  <2> HIDE DEF Begins, HasPrice, InBar, Holds
  <2> QED BY <1>3, <2>1, <2>2, <2>3
<1>6. clock < Len(tape)
  BY DEF MomentFrame
<1>7. /\ New.at \in Int /\ New.at <= clock + 1 /\ clock + 1 < New.at + Minute /\ Full(New.at) /\ Price \in Nat
      /\ New.low = Price /\ New.high = Price
      /\ m1 # NoM1 /\ m1.at # New.at => m1.at + Minute <= New.at
  <2>1. New.at \in 0..(clock + 1)
    BY <1>6, NewIs
  <2>2. New.at \in Int /\ New.at <= clock + 1
    BY <1>1, <2>1
  <2> QED BY <1>6, <2>2, NewIs
<1>8. ASSUME Tick PROVE QuoteNext(clock + 1) /\ tape[clock + 1] = Price
  BY <1>1, <1>8 DEF Tick, Price
<1>9. Tick => Begins(New) /\ HasPrice(New, New.low) /\ HasPrice(New, New.high)
  <2>1. \A n : QuoteNext(n) => n \in Int /\ n <= clock + 1
    BY <1>1, <1>2
  <2>2. Begins(New)
    BY <1>1, <1>7, <2>1
  <2> QED BY <1>7, <1>8, <2>2
<1>10. CASE FirstTick
  <2>1. Tick /\ m1 = NoM1 /\ m1' = New /\ bar' = bar /\ tape[clock + 1] = Price
        /\ joined' = (bar = NoBar /\ \E n \in DOMAIN quotes : New.at <= n /\ quotes[n] # 0)
    BY <1>8, <1>10 DEF FirstTick
  <2>2. ASSUME NEW n, Quote(n), New.at <= n, bar = NoBar PROVE joined'
    <3>1. DOMAIN quotes = 1..clock /\ \A i \in 1..clock : quotes[i] = tape[i]
      BY QuotesAre, TypedFacts
    <3> QED BY <2>1, <2>2, <3>1 DEF Quote
  <2>3. ASSUME NEW n, Quote(n), New.at <= n, bar # NoBar PROVE InBar(New, n)
    <3>1. offset = base /\ ~bar.partial /\ ~joined
      BY <2>1, <2>3 DEF GapsTyped
    <3>2. /\ bar.at \in Starts(quotes) /\ \A i \in 1..clock : Quote(i) /\ i < Seen => i < bar.at + Size
          /\ Within(bar, 0)
      BY <2>3, <3>1 DEF BarIsCurrent
    <3>3. Seen = clock + 1
      BY <2>1 DEF Seen
    <3>4. n \in 1..clock /\ n \in Int /\ n < clock + 1 /\ 0 < n /\ clock + 1 \in Int /\ n < New.at + Minute
      BY <1>1, <1>2, <1>7, <2>3
    <3>5. n < bar.at + Size
      BY <2>3, <3>2, <3>3, <3>4
    <3>6. StartFor(n, base) = StartFor(New.at, base) /\ StartFor(clock + 1, base) = StartFor(New.at, base)
      BY <1>1, <1>7, <2>3, <3>4, MinuteInBucket
    <3>7. bar.at \in Int /\ bar.at <= StartFor(clock + 1, base)
      BY <3>2, QuotesGrow
    <3>8. PICK k \in 1..clock : Quote(k) /\ bar.at = StartFor(k, base)
      BY <3>2, QuotesGrow
    <3>9. k \in Int
      BY <1>1
    <3>10. StartFor(n, base) \in Int /\ StartFor(n, base) <= n /\ Size \in Nat
      BY <1>1, <3>4, InBucket DEF GapsConstants
    <3>11. ~(bar.at < StartFor(n, base))
      <4>1. bar.at < StartFor(n, base) => bar.at + Size <= StartFor(n, base)
        BY <1>1, <3>4, <3>8, <3>9, BucketsApart
      <4> QED BY <3>4, <3>5, <3>7, <3>10, <4>1
    <3>12. StartFor(New.at, base) = bar.at /\ bar.at <= n
      BY <3>6, <3>7, <3>10, <3>11
    <3>13. tape[n] \in bar.low..bar.high
      BY <2>3, <3>2, <3>3, <3>4, <3>12 DEF Within
    <3> QED BY <2>1, <2>3, <3>1, <3>12, <3>13
  <2>4. Price \in New.low..New.high
    BY <1>7
  <2>5. Holds(New) \/ (joined' /\ bar' = NoBar)
    <3> SUFFICES ASSUME ~(joined' /\ bar' = NoBar), NEW n, QuoteNext(n), New.at <= n
                 PROVE  tape[n] \in New.low..New.high \/ InBar(New, n)
      OBVIOUS
    <3> HIDE DEF InBar, Begins, HasPrice, Holds
    <3>1. CASE n = clock + 1
      BY <2>1, <2>4, <3>1
    <3>2. CASE Quote(n)
      BY <2>1, <2>2, <2>3, <3>2
    <3> QED BY <1>1, <3>1, <3>2
  <2> HIDE DEF Begins, HasPrice, InBar, Holds
  <2> QED BY <1>3, <1>9, <2>1, <2>5
<1>11. CASE OneMore
  <2>1. Tick /\ m1 # NoM1 /\ m1.at = New.at /\ m1' = Merged(m1, New) /\ bar' = bar /\ joined' = joined
        /\ tape[clock + 1] = Price /\ QuoteNext(clock + 1)
    BY <1>8, <1>11 DEF OneMore
  <2> DEFINE m == Merged(m1, New)
  <2>2. m1 \in MinuteSet /\ m1.at \in Int /\ m1.low \in Nat /\ m1.high \in Nat
    BY <2>1, TypedFacts DEF MinuteSet
  <2>3. m.at = m1.at /\ m.low = Least(m1.low, Price) /\ m.high = Most(m1.high, Price)
    BY <1>7, <2>2, TickMerged
  <2> HIDE DEF m
  <2>4. Begins(m)
    BY <1>9, <2>1, <2>3
  <2>5. /\ \E n : Quote(n) /\ m1.at <= n /\ tape[n] = m1.low
        /\ \E n : Quote(n) /\ m1.at <= n /\ tape[n] = m1.high
    BY <2>1, RunningIs
  <2>6. \A p \in {m1.low, m1.high, Price} : HasPrice(m, p)
    BY <1>1, <1>7, <2>1, <2>3, <2>5
  <2>7. HasPrice(m, m.low) /\ HasPrice(m, m.high)
    <3>1. m.low \in {m1.low, m1.high, Price} /\ m.high \in {m1.low, m1.high, Price}
      BY <2>3 DEF Least, Most
    <3> HIDE DEF HasPrice
    <3> QED BY <2>6, <3>1
  <2>8. ASSUME NEW x \in Nat, x \in m1.low..m1.high \/ x = Price PROVE x \in m.low..m.high
    <3>1. x \in m1.low..m1.high \/ x \in Price..Price
      BY <1>7, <2>8
    <3> QED BY <1>7, <2>2, <2>3, <3>1, MergedReach
  <2>9. ASSUME AllHeld PROVE Holds(m)
    <3> SUFFICES ASSUME NEW n, QuoteNext(n), m.at <= n PROVE tape[n] \in m.low..m.high \/ InBar(m, n)
      OBVIOUS
    <3>1. CASE n = clock + 1
      BY <1>7, <2>1, <2>8, <3>1
    <3>2. CASE Quote(n)
      <4>1. Held(n) /\ tape[n] \in Nat
        BY <1>2, <2>1, <2>3, <2>9, <3>2, RunningIs DEF AllHeld
      <4>2. CASE tape[n] \in m1.low..m1.high
        BY <2>8, <4>1, <4>2
      <4>3. CASE BarHas(n)
        BY <2>1, <2>3, <4>3 DEF BarHas
      <4> QED BY <4>1, <4>2, <4>3 DEF Held
    <3> QED BY <1>1, <3>1, <3>2
  <2>10. Holds(m) \/ (joined' /\ bar' = NoBar)
    BY <2>1, <2>9 DEF LastIsSeen
  <2> HIDE DEF Begins, HasPrice, InBar, Holds
  <2>11. m1' = m
    BY <2>1 DEF m
  <2> QED BY <1>3, <2>4, <2>7, <2>10, <2>11
<1>12. CASE EndsMinute
  <2>1. Tick /\ m1 # NoM1 /\ m1.at # New.at /\ m1' = New /\ tape[clock + 1] = Price
    BY <1>8, <1>12 DEF EndsMinute
  <2>2. Price \in New.low..New.high
    BY <1>7
  <2>3. Holds(New)
    <3> SUFFICES ASSUME NEW n, QuoteNext(n), New.at <= n PROVE tape[n] \in New.low..New.high
      OBVIOUS
    <3>1. ~Quote(n)
      <4> SUFFICES ASSUME Quote(n) PROVE FALSE
        OBVIOUS
      <4>1. n \in Int /\ n < m1.at + Minute /\ m1.at \in Int
        BY <2>1, RunningIs
      <4> QED BY <1>1, <1>7, <2>1, <4>1
    <3>2. n = clock + 1
      BY <1>1, <3>1
    <3> QED BY <2>1, <2>2, <3>2
  <2> HIDE DEF Begins, HasPrice, InBar, Holds
  <2> QED BY <1>3, <1>9, <2>1, <2>3
<1>13. CASE MissedTick
  BY <1>4, <1>13 DEF MissedTick
<1> QED BY <1>4, <1>5, <1>10, <1>11, <1>12, <1>13 DEF AnyCase, StartsBar, MergesBar, EndsBar

\* The running minute has what came after the answer was made.
LEMMA MomentMade ==
    ASSUME GapsConstants, GapsTyped, MomentFrame, AnyCase, LastIsSeen, history = "asked",
           NEW t \in 0..clock, MadeAt(t), m1' # NoM1, MissedTick => m1 = NoM1,
           NEW n, QuoteNext(n), t < n, m1'.at <= n
    PROVE  tape[n] \in m1'.low..m1'.high
<1>1. clock \in Nat /\ (Quote(n) \/ (n = clock + 1 /\ tape[clock + 1] # 0))
  BY QuotesGrow
<1>2. Quote(n) => n \in 1..clock /\ n \in Int /\ n < clock + 1
  BY <1>1 DEF Quote
<1>3. m1 # NoM1 /\ Quote(n) /\ m1.at <= n => tape[n] \in m1.low..m1.high
  BY <1>2 DEF MadeAt
<1>4. clock < Len(tape)
  BY DEF MomentFrame
<1>5. Price \in New.low..New.high /\ Price \in Nat /\ New.low = Price /\ New.high = Price
  BY <1>4, NewIs
<1>6. CASE NoTick
  BY <1>1, <1>3, <1>6 DEF NoTick, Price
<1>7. CASE MissedTick
  BY <1>7 DEF MissedTick
<1>8. CASE FirstTick
  <2>1. m1 = NoM1 /\ m1' = New
    BY <1>8 DEF FirstTick
  <2>2. bar = NoBar /\ Seen = clock + 1
    BY <2>1 DEF GapsTyped, Seen
  <2>3. ~Quote(n)
    <3> SUFFICES ASSUME Quote(n) PROVE FALSE
      OBVIOUS
    <3>1. n >= clock + 1
      BY <1>2, <2>2 DEF MadeAt
    <3> QED BY <1>1, <1>2, <3>1
  <2> QED BY <1>1, <1>5, <2>1, <2>3 DEF Price
<1>9. CASE OneMore
  <2>1. m1 # NoM1 /\ m1' = Merged(m1, New) /\ m1 \in MinuteSet
    BY <1>9, TypedFacts DEF OneMore
  <2>2. m1'.at = m1.at /\ m1'.low = Least(m1.low, Price) /\ m1'.high = Most(m1.high, Price)
    BY <1>5, <2>1, TickMerged
  <2>3. m1.low \in Nat /\ m1.high \in Nat
    BY <2>1 DEF MinuteSet
  <2>4. tape[n] \in Nat
    <3>1. Quote(n) => tape[n] \in Nat
      BY <2>1, RunningIs
    <3> QED BY <1>1, <1>5, <3>1 DEF Price
  <2>5. tape[n] \in m1.low..m1.high \/ tape[n] \in Price..Price
    <3>1. CASE Quote(n)
      BY <1>3, <2>1, <2>2, <3>1
    <3>2. CASE n = clock + 1
      BY <1>5, <3>2 DEF Price
    <3> QED BY <1>1, <3>1, <3>2
  <2>6. tape[n] \in Least(m1.low, Price)..Most(m1.high, Price)
    BY <1>5, <2>3, <2>4, <2>5, MergedReach
  <2> QED BY <2>2, <2>6
<1>10. CASE EndsMinute
  <2>1. m1 # NoM1 /\ m1.at # New.at /\ m1' = New
    BY <1>10 DEF EndsMinute
  <2>2. ~Quote(n)
    <3> SUFFICES ASSUME Quote(n) PROVE FALSE
      OBVIOUS
    <3>1. n \in Int /\ n < m1.at + Minute /\ m1.at \in Int /\ Minute \in Nat
      BY <2>1, RunningIs
    <3>2. New.at \in Int /\ m1.at + Minute <= New.at
      <4>1. New \in MinuteSet /\ m1.at + Minute <= New.at
        BY <1>4, <2>1, NewIs
      <4> QED BY <4>1 DEF MinuteSet
    <3>3. New.at <= n
      BY <2>1
    <3> QED BY <3>1, <3>2, <3>3
  <2> QED BY <1>1, <1>5, <2>1, <2>2 DEF Price
<1> QED BY <1>6, <1>7, <1>8, <1>9, <1>10 DEF AnyCase, StartsBar, MergesBar, EndsBar

\* The next bar of ticks has what was closed, or nothing was.
LEMMA MomentBar ==
    ASSUME GapsConstants, GapsInv, Moment, ~lost'
    PROVE  LastIsSeen' /\ BarIsCurrent' /\ AnswerIsCurrent'
<1>0. GapsTyped /\ MomentFrame /\ AnyCase
  BY MomentCases DEF GapsInv
<1>1. /\ clock \in Nat /\ clock' = clock + 1 /\ tape' = tape /\ base' = base /\ base \in Int
      /\ \A n : QuoteNext(n) <=> Quote(n) \/ (n = clock + 1 /\ tape[clock + 1] # 0)
      /\ \A x \in Starts(quotes) : x \in Starts(quotes)'
  BY <1>0, QuotesGrow
<1>2. \A n : Quote(n) => n \in 1..clock /\ n \in 1..(clock + 1) /\ n \in Int /\ n < clock + 1
  BY <1>1 DEF Quote
<1>3. ~lost /\ (MissedTick => ~Begun)
  <2>1. lost \in BOOLEAN /\ (lost' = lost \/ (MissedTick /\ (lost' <=> lost \/ Begun)) \/ EndsBar)
    BY <1>0 DEF GapsTyped, AnyCase, NoTick, MissedTick, FirstTick, OneMore, StartsBar, MergesBar
  <2>2. EndsBar => (lost' <=> lost \/ ((offset # base \/ joined) /\ ~bar.partial) \/ Len(queue \o <<Tagged(bar, FALSE)>>) > MaxQueue)
    BY DEF EndsBar, EnqueueBars
  <2>3. MissedTick => (lost' <=> lost \/ Begun)
    BY DEF MissedTick
  <2> QED BY <2>1, <2>2, <2>3
<1>4. LastIsSeen /\ BarIsCurrent /\ AnswerIsCurrent
  BY <1>3 DEF GapsInv, NothingMissed
<1>5. ASSUME NEW n, ClosedNext(n)
      PROVE  ClosedQuote(n) \/ (EndsMinute /\ Quote(n) /\ m1.at <= n) \/ (MissedTick /\ m1 = NoM1)
  BY <1>0, <1>3, <1>5, ClosedGrow
<1>6. MissedTick => m1 = NoM1 /\ bar = NoBar /\ history = "cold" /\ bar' = NoBar
  BY <1>3 DEF Begun, MissedTick
<1>7. ASSUME EndsMinute
      PROVE  /\ m1 # NoM1 /\ m1.at \in 0..clock /\ m1.low \in Nat /\ m1.high \in Nat /\ m1.at \in Int /\ ~MissedTick
             /\ \A n : Quote(n) => n < m1.at + Minute /\ tape[n] \in Nat
             /\ Minute \in Nat
  <2>1. m1 # NoM1 /\ ~MissedTick
    BY <1>7 DEF EndsMinute, Tick, MissedTick
  <2> QED BY <1>0, <1>4, <2>1, RunningIs
<1>8. LastIsSeen'
  BY <1>0, <1>4, <1>6, MomentLast
\* What the running bar has of what was closed after moment f, now and then.
<1> DEFINE Has(b, f) == \A n : ClosedQuote(n) /\ f < n /\ b.at <= n => tape[n] \in b.low..b.high
           HasNext(b, f) == \A n : ClosedNext(n) /\ f < n /\ b.at <= n => tape[n] \in b.low..b.high
<1>9. ASSUME NEW f \in Int, Within(bar, f) PROVE Has(bar, f)
  BY <1>2, <1>9 DEF Within, ClosedQuote
<1>10. ASSUME NEW f \in Int, HasNext(bar', f) PROVE Within(bar, f)'
  BY <1>1, <1>10 DEF Within, ClosedNext, Quote, QuoteNext
<1> HIDE DEF Has, HasNext
<1>11. \/ history # "asked"
       \/ \A t \in 0..clock : MadeAt(t) =>
             /\ bar' = NoBar => \A n : ClosedNext(n) => ~(t < n)
             /\ bar' # NoBar /\ offset = base => HasNext(bar', t)
       => AnswerIsCurrent'
  <2>0. history' = history
    BY <1>0 DEF MomentFrame
  <2>00. CASE history # "asked"
    BY <2>0, <2>00 DEF AnswerIsCurrent
  <2> SUFFICES ASSUME history = "asked",
                      \A t \in 0..clock : MadeAt(t) =>
                         /\ bar' = NoBar => \A n : ClosedNext(n) => ~(t < n)
                         /\ bar' # NoBar /\ offset = base => HasNext(bar', t)
               PROVE  AnswerIsCurrent'
    BY <2>00
  <2>1. PICK t \in 0..clock : MadeAt(t)
    BY <1>4 DEF AnswerIsCurrent
  <2>2. t \in 0..clock' /\ t \in Int
    BY <1>1
  <2>3. answer' = BrokerBars(SubSeq(tape, 1, t))'
    BY <1>0, <1>1, <2>1 DEF MadeAt, MomentFrame, BrokerBars, Opens, BarOf, In
  <2>4. (\A n : ClosedNext(n) => ~(t < n)) => (\A n \in 1..clock : Quote(n) /\ t < n => n >= Seen)'
    <3> SUFFICES ASSUME \A n : ClosedNext(n) => ~(t < n), NEW n \in 1..clock', QuoteNext(n), t < n
                 PROVE  n >= Seen'
      BY DEF Quote, QuoteNext
    <3>1. ~(n < Seen')
      BY DEF ClosedNext
    <3>2. Seen' \in Int /\ n \in Int
      <4>1. clock' + 1 \in Int
        BY <1>1
      <4>2. m1' # NoM1 => m1'.at \in Int
        BY MomentTyped, <1>0 DEF GapsTyped, MinuteSet
      <4> QED BY <4>1, <4>2 DEF Seen
    <3> QED BY <3>1, <3>2
  <2>5. bar' = NoBar => (\A n \in 1..clock : Quote(n) /\ t < n => n >= Seen)'
    BY <2>1, <2>4
  <2>6. bar' # NoBar /\ offset' = base' => Within(bar, t)'
    <3> SUFFICES ASSUME bar' # NoBar, offset' = base' PROVE Within(bar, t)'
      OBVIOUS
    <3>1. offset = base
      BY <1>0, <1>1 DEF MomentFrame
    <3>2. HasNext(bar', t)
      BY <2>1, <3>1
    <3> QED BY <1>10, <2>2, <3>2
  <2>8. ASSUME m1' # NoM1, NEW n, QuoteNext(n), t < n, m1'.at <= n PROVE tape[n] \in m1'.low..m1'.high
    BY <1>0, <1>4, <1>6, <2>1, <2>8, MomentMade
  <2>9. m1' # NoM1 => (\A n \in 1..clock : Quote(n) /\ t < n /\ m1.at <= n => tape[n] \in m1.low..m1.high)'
    BY <1>1, <2>8 DEF Quote, QuoteNext
  <2>7. MadeAt(t)'
    BY <2>3, <2>5, <2>6, <2>9 DEF MadeAt
  <2> QED BY <2>2, <2>7 DEF AnswerIsCurrent
<1> DEFINE OccursNext(p, s) == \E n \in 1..clock' : QuoteNext(n) /\ tape[n] = p /\ s <= n /\ n < s + Size
<1>12. ASSUME NEW p, NEW s, Occurs(p, s) PROVE OccursNext(p, s)
  BY <1>1, <1>2, <1>12 DEF Occurs
<1>13. ASSUME bar' # NoBar /\ offset = base =>
                 /\ bar'.at \in Starts(quotes) /\ OccursNext(bar'.low, bar'.at) /\ OccursNext(bar'.high, bar'.at)
                 /\ \A n : ClosedNext(n) => n < bar'.at + Size
                 /\ ~bar'.partial /\ ~joined' => HasNext(bar', 0)
       PROVE  BarIsCurrent'
  <2> SUFFICES ASSUME bar' # NoBar, offset' = base'
               PROVE  /\ bar'.at \in Starts(quotes)' /\ Occurs(bar.low, bar.at)' /\ Occurs(bar.high, bar.at)'
                      /\ (\A n \in 1..clock : Quote(n) /\ n < Seen => n < bar.at + Size)'
                      /\ ~bar'.partial /\ ~joined' => Within(bar, 0)'
    BY DEF BarIsCurrent
  <2>1. offset = base
    BY <1>0, <1>1 DEF MomentFrame
  <2>2. bar'.at \in Starts(quotes)'
    BY <1>1, <1>13, <2>1
  <2>3. Occurs(bar.low, bar.at)' /\ Occurs(bar.high, bar.at)'
    BY <1>1, <1>13, <2>1 DEF Occurs, Quote, QuoteNext
  <2>4. (\A n \in 1..clock : Quote(n) /\ n < Seen => n < bar.at + Size)'
    BY <1>13, <2>1 DEF Quote, QuoteNext, ClosedNext
  <2>5. ~bar'.partial /\ ~joined' => Within(bar, 0)'
    BY <1>10, <1>13, <2>1
  <2> QED BY <2>2, <2>3, <2>4, <2>5
<1> HIDE DEF OccursNext
<1>14. CASE NoTick \/ FirstTick \/ OneMore
  <2>1. bar' = bar /\ ~EndsMinute /\ ~MissedTick
    BY <1>14 DEF NoTick, FirstTick, OneMore, EndsMinute, MissedTick, Tick
  <2>6. ~joined' => ~joined
    BY <1>0, <1>14 DEF NoTick, FirstTick, OneMore, GapsTyped
  <2>2. \A n : ClosedNext(n) => ClosedQuote(n)
    BY <1>5, <2>1
  <2>3. \A f : Has(bar, f) => HasNext(bar', f)
    BY <2>1, <2>2 DEF Has, HasNext
  <2>4. BarIsCurrent'
    <3> SUFFICES ASSUME bar # NoBar, offset = base
                 PROVE  /\ bar.at \in Starts(quotes) /\ OccursNext(bar.low, bar.at) /\ OccursNext(bar.high, bar.at)
                        /\ \A n : ClosedNext(n) => n < bar.at + Size
                        /\ ~bar.partial /\ ~joined => HasNext(bar', 0)
      BY <1>13, <2>1, <2>6
    <3>1. /\ bar.at \in Starts(quotes) /\ Occurs(bar.low, bar.at) /\ Occurs(bar.high, bar.at)
          /\ \A n \in 1..clock : Quote(n) /\ n < Seen => n < bar.at + Size
          /\ ~bar.partial /\ ~joined => Within(bar, 0)
      BY <1>4 DEF BarIsCurrent
    <3>2. ~bar.partial /\ ~joined => HasNext(bar', 0)
      BY <1>9, <2>3, <3>1
    <3>3. \A n : ClosedNext(n) => n < bar.at + Size
      BY <1>2, <2>2, <3>1 DEF ClosedQuote
    <3> QED BY <1>12, <3>1, <3>2, <3>3
  <2>5. AnswerIsCurrent'
    <3> SUFFICES ASSUME NEW t \in 0..clock, MadeAt(t)
                 PROVE  /\ bar' = NoBar => \A n : ClosedNext(n) => ~(t < n)
                        /\ bar' # NoBar /\ offset = base => HasNext(bar', t)
      BY <1>11
    <3>1. bar' # NoBar /\ offset = base => HasNext(bar', t)
      BY <1>1, <1>9, <2>1, <2>3 DEF MadeAt
    <3>2. ASSUME bar = NoBar, NEW n, ClosedNext(n) PROVE ~(t < n)
      <4>1. Quote(n) /\ n < Seen /\ n \in 1..clock
        BY <1>2, <2>2, <3>2 DEF ClosedQuote
      <4>2. t < n => n >= Seen
        BY <3>2, <4>1 DEF MadeAt
      <4>3. Seen \in Int /\ n \in Int
        BY <1>0, <1>1, <4>1, TypedFacts DEF Seen
      <4> QED BY <4>1, <4>2, <4>3
    <3> QED BY <2>1, <3>1, <3>2
  <2> QED BY <1>8, <2>4, <2>5
<1>15. CASE MissedTick
  <2>1. bar' = NoBar /\ history # "asked"
    BY <1>6, <1>15
  <2>2. BarIsCurrent'
    BY <2>1 DEF BarIsCurrent
  <2> QED BY <1>8, <1>11, <2>1, <2>2
\* A minute that was running is closed, in this bar or in the next.
<1>16. ASSUME StartsBar \/ MergesBar \/ EndsBar
       PROVE  /\ EndsMinute /\ bar' # NoBar /\ Seen = m1.at
              /\ \A x \in Nat : x \in m1.low..m1.high => x \in bar'.low..bar'.high
              /\ Bucket \in Int /\ Bucket <= m1.at /\ m1.at < Bucket + Size /\ bar'.at = Bucket
              /\ offset = base => /\ Bucket \in Starts(quotes) /\ OccursNext(m1.low, Bucket) /\ OccursNext(m1.high, Bucket)
                                  /\ \A n : ClosedNext(n) => n < Bucket + Size
              /\ \A n : ClosedNext(n) => /\ n \in Int /\ Quote(n) /\ n \in 1..clock
                                         /\ m1.at <= n \/ (ClosedQuote(n) /\ n < m1.at)
  <2>1. EndsMinute
    BY <1>16 DEF StartsBar, MergesBar, EndsBar
  <2>2. /\ Bucket \in Int /\ Bucket <= m1.at /\ m1.at < Bucket + Size /\ m1.at + Minute <= Bucket + Size
        /\ \A p \in BOOLEAN : /\ Started(Bucket, m1, p) # NoBar /\ Started(Bucket, m1, p).at = Bucket
                              /\ Started(Bucket, m1, p).low = m1.low /\ Started(Bucket, m1, p).high = m1.high
    BY <1>0, <1>7, <2>1, StartedIs
  <2>3. Seen = m1.at
    BY <1>7, <2>1 DEF Seen
  <2>4. bar' # NoBar /\ bar'.at = Bucket /\ \A x \in Nat : x \in m1.low..m1.high => x \in bar'.low..bar'.high
    <3>1. CASE StartsBar
      <4>1. Partial(Bucket, m1.at) \in BOOLEAN
        BY DEF Partial
      <4>2. bar' # NoBar /\ bar'.at = Bucket /\ bar'.low = m1.low /\ bar'.high = m1.high
        BY <2>2, <3>1, <4>1 DEF StartsBar
      <4> QED BY <4>2
    <3>2. CASE MergesBar
      <4>1. bar \in BarSet /\ bar.at = Bucket /\ bar' = Merged(bar, m1)
        BY <1>0, <3>2, TypedFacts DEF MergesBar
      <4>2. bar' # NoBar /\ bar'.at = Bucket /\ bar'.low = Least(bar.low, m1.low) /\ bar'.high = Most(bar.high, m1.high)
        BY <1>7, <2>1, <4>1, MergedIs
      <4>3. bar.low \in Nat /\ bar.high \in Nat /\ m1.low \in Nat /\ m1.high \in Nat
        BY <1>7, <2>1, <4>1 DEF BarSet
      <4>4. ASSUME NEW x \in Nat, x \in m1.low..m1.high PROVE x \in bar'.low..bar'.high
        <5>1. x \in Least(bar.low, m1.low)..Most(bar.high, m1.high)
          BY <4>3, <4>4, MergedReach
        <5> QED BY <4>2, <5>1
      <4> QED BY <4>2, <4>4
    <3>3. CASE EndsBar
      <4>1. bar' # NoBar /\ bar'.at = Bucket /\ bar'.low = m1.low /\ bar'.high = m1.high
        BY <2>2, <3>3 DEF EndsBar
      <4> QED BY <4>1
    <3> QED BY <1>16, <3>1, <3>2, <3>3
  <2>5. ASSUME NEW n, ClosedNext(n)
        PROVE  n \in Int /\ Quote(n) /\ n \in 1..clock /\ (m1.at <= n \/ (ClosedQuote(n) /\ n < m1.at))
    <3>1. ClosedQuote(n) \/ (Quote(n) /\ m1.at <= n)
      BY <1>5, <1>7, <2>1, <2>5
    <3> QED BY <1>2, <2>3, <3>1 DEF ClosedQuote
  <2>6. ASSUME offset = base
        PROVE  /\ Bucket \in Starts(quotes) /\ OccursNext(m1.low, Bucket) /\ OccursNext(m1.high, Bucket)
               /\ \A n : ClosedNext(n) => n < Bucket + Size
    <3>1. Bucket \in Starts(quotes)
      BY <1>0, <1>4, <1>7, <2>1, <2>6, RunningIs DEF Bucket
    <3>2. Size \in Nat /\ m1.at \in Int
      BY <1>0, <1>7, <2>1, TypedFacts
    <3>3. ASSUME NEW n, Quote(n) PROVE n < Bucket + Size
      <4>1. n \in Int /\ n < m1.at + Minute /\ Minute \in Nat
        BY <1>2, <1>7, <2>1, <3>3
      <4> QED BY <2>2, <3>2, <4>1
    <3>4. ASSUME NEW n, Quote(n), m1.at <= n PROVE OccursNext(tape[n], Bucket)
      <4>1. n < Bucket + Size /\ n \in 1..clock' /\ QuoteNext(n) /\ n \in Int
        BY <1>1, <1>2, <3>3, <3>4
      <4>2. Bucket <= n
        BY <2>2, <3>2, <3>4, <4>1
      <4> QED BY <4>1, <4>2 DEF OccursNext
    <3>5. /\ \E n : Quote(n) /\ m1.at <= n /\ tape[n] = m1.low
          /\ \E n : Quote(n) /\ m1.at <= n /\ tape[n] = m1.high
      BY <1>0, <1>4, <1>7, <2>1, RunningIs
    <3> QED BY <2>5, <3>1, <3>3, <3>4, <3>5
  <2> QED BY <2>1, <2>2, <2>3, <2>4, <2>5, <2>6
<1>17. ASSUME StartsBar \/ MergesBar \/ EndsBar, NEW f \in Int, ~EndsBar => \A n : ClosedQuote(n) /\ f < n => bar # NoBar,
              \A n : Quote(n) /\ f < n /\ m1.at <= n => Held(n),
              MergesBar => Has(bar, f) \/ offset # base, offset = base
       PROVE  HasNext(bar', f)
  <2> SUFFICES ASSUME NEW n, ClosedNext(n), f < n, bar'.at <= n PROVE tape[n] \in bar'.low..bar'.high
    BY DEF HasNext
  <2>0. EndsMinute
    BY <1>16, <1>17
  <2>9. Quote(n) /\ n \in Int /\ n \in 1..clock /\ tape[n] \in Nat /\ (m1.at <= n \/ (ClosedQuote(n) /\ n < m1.at))
    BY <1>7, <1>16, <1>17, <2>0
  <2>3. ASSUME MergesBar, tape[n] \in bar.low..bar.high PROVE tape[n] \in bar'.low..bar'.high
    <3>4. bar \in BarSet /\ bar.at = Bucket /\ bar' = Merged(bar, m1)
      BY <1>0, <2>3, TypedFacts DEF MergesBar
    <3>6. bar'.low = Least(bar.low, m1.low) /\ bar'.high = Most(bar.high, m1.high)
      BY <1>7, <2>0, <3>4, MergedIs
    <3>7. bar.low \in Nat /\ bar.high \in Nat /\ m1.low \in Nat /\ m1.high \in Nat
      BY <1>7, <2>0, <3>4 DEF BarSet
    <3>8. tape[n] \in Least(bar.low, m1.low)..Most(bar.high, m1.high)
      BY <2>3, <2>9, <3>7, MergedReach
    <3> QED BY <3>6, <3>8
  <2>1. CASE m1.at <= n
    <3>1. Held(n)
      BY <1>17, <2>1, <2>9
    <3>2. CASE tape[n] \in m1.low..m1.high
      BY <1>16, <1>17, <2>9, <3>2
    <3>3. CASE BarHas(n)
      <4>1. MergesBar /\ tape[n] \in bar.low..bar.high
        BY <1>17, <3>3 DEF BarHas, StartsBar, EndsBar, Bucket
      <4> QED BY <2>3, <4>1
    <3> QED BY <3>1, <3>2, <3>3 DEF Held
  <2>2. CASE ClosedQuote(n) /\ n < m1.at
    <3>1. ~StartsBar
      BY <1>17, <2>2 DEF StartsBar, EndsBar
    <3>2. ~EndsBar
      <4> SUFFICES ASSUME EndsBar PROVE FALSE
        OBVIOUS
      <4>1. bar.at \in Int /\ bar.at + Size <= Bucket /\ n < bar.at + Size /\ Bucket \in Int
        BY <1>0, <1>4, <1>17, <2>0, <2>2, <2>9, BarEnds DEF EndsBar
      <4>2. Bucket <= n /\ Size \in Int /\ n \in Int
        BY <1>0, <1>16, <1>17, <2>9, TypedFacts
      <4> QED BY <4>1, <4>2
    <3>3. MergesBar
      BY <1>17, <3>1, <3>2
    <3>5. tape[n] \in bar.low..bar.high
      <4>1. bar.at <= n
        BY <1>16, <1>17, <3>3 DEF MergesBar
      <4> QED BY <1>17, <2>2, <3>3, <4>1 DEF Has
    <3> QED BY <2>3, <3>3, <3>5
  <2> QED BY <2>1, <2>2, <2>9
<1>18. CASE StartsBar \/ MergesBar \/ EndsBar
  <2>0. EndsMinute /\ bar' # NoBar /\ bar'.at = Bucket
    BY <1>16, <1>18
  <2>5. AllHeld => \A n : Quote(n) /\ 0 < n /\ m1.at <= n => Held(n)
    BY <1>2 DEF AllHeld
  <2>6. AllHeld \/ (joined /\ bar = NoBar)
    BY <1>4, <1>7, <2>0 DEF LastIsSeen
  <2>1. BarIsCurrent'
    <3> SUFFICES ASSUME offset = base
                 PROVE  /\ OccursNext(bar'.low, Bucket) /\ OccursNext(bar'.high, Bucket)
                        /\ ~bar'.partial /\ ~joined' => HasNext(bar', 0)
      BY <1>13, <1>16, <1>18, <2>0
    <3>1. CASE StartsBar \/ EndsBar
      <4>1. bar'.low = m1.low /\ bar'.high = m1.high
        <5>1. Partial(Bucket, m1.at) \in BOOLEAN
          BY DEF Partial
        <5> QED BY <1>0, <1>7, <2>0, <3>1, <5>1, StartedIs DEF StartsBar, EndsBar
      <4>2. OccursNext(m1.low, Bucket) /\ OccursNext(m1.high, Bucket)
        BY <1>16, <1>18
      <4>3. ASSUME ~bar'.partial, ~joined', StartsBar PROVE HasNext(bar', 0)
        <5>1. m1.at = Bucket
          <6>1. Partial(Bucket, m1.at) \in BOOLEAN
            BY DEF Partial
          <6>2. bar'.partial = Partial(Bucket, m1.at)
            BY <1>0, <1>7, <2>0, <4>3, <6>1, StartedIs DEF StartsBar
          <6> QED BY <4>3, <6>2 DEF Partial
        <5> SUFFICES ASSUME NEW n, ClosedNext(n), bar'.at <= n PROVE tape[n] \in bar'.low..bar'.high
          BY DEF HasNext
        <5>2. Quote(n) /\ m1.at <= n /\ tape[n] \in Nat
          BY <1>7, <1>16, <1>18, <2>0, <5>1
        <5>3. bar = NoBar /\ ~joined
          BY <4>3 DEF StartsBar
        <5>4. tape[n] \in m1.low..m1.high
          BY <1>2, <2>6, <5>2, <5>3 DEF AllHeld, Held, BarHas
        <5> QED BY <1>16, <1>18, <5>2, <5>4
      <4>4. ASSUME EndsBar PROVE HasNext(bar', 0)
        <5>1. ~MergesBar /\ AllHeld
          BY <2>6, <4>4 DEF EndsBar, MergesBar
        <5>2. 0 \in Int
          OBVIOUS
        <5> QED BY <1>17, <2>5, <4>4, <5>1, <5>2
      <4> QED BY <3>1, <4>1, <4>2, <4>3, <4>4
    <3>2. CASE MergesBar
      <4>1. bar \in BarSet /\ bar.at = Bucket /\ bar' = Merged(bar, m1) /\ bar # NoBar /\ joined' = joined
        BY <1>0, <3>2, TypedFacts DEF MergesBar
      <4>2. /\ bar'.low = Least(bar.low, m1.low) /\ bar'.high = Most(bar.high, m1.high)
            /\ bar'.partial = bar.partial
        BY <1>7, <2>0, <4>1, MergedIs
      <4>3. (bar'.low = bar.low \/ bar'.low = m1.low) /\ (bar'.high = bar.high \/ bar'.high = m1.high)
        BY <4>2 DEF Least, Most
      <4>4. /\ Occurs(bar.low, bar.at) /\ Occurs(bar.high, bar.at) /\ (~bar.partial /\ ~joined => Within(bar, 0))
        BY <1>4, <4>1 DEF BarIsCurrent
      <4>5. /\ OccursNext(bar.low, Bucket) /\ OccursNext(bar.high, Bucket)
            /\ OccursNext(m1.low, Bucket) /\ OccursNext(m1.high, Bucket)
        BY <1>12, <1>16, <1>18, <4>1, <4>4
      <4>6. ~bar'.partial /\ ~joined' => HasNext(bar', 0)
        <5>1. ~bar.partial /\ ~joined => Has(bar, 0)
          BY <1>9, <4>4
        <5>2. AllHeld /\ 0 \in Int
          BY <2>6, <4>1
        <5> QED BY <1>17, <2>5, <3>2, <4>1, <4>2, <5>1, <5>2
      <4> QED BY <4>3, <4>5, <4>6
    <3> QED BY <1>18, <3>1, <3>2
  <2>2. AnswerIsCurrent'
    <3> SUFFICES ASSUME NEW t \in 0..clock, MadeAt(t), offset = base PROVE HasNext(bar', t)
      BY <1>11, <2>0
    <3>1. t \in Int
      BY <1>1
    <3>2. bar # NoBar => Has(bar, t)
      BY <1>9, <3>1 DEF MadeAt
    <3>3. ASSUME NEW n, ClosedQuote(n), t < n PROVE bar # NoBar
      <4>1. n \in 1..clock /\ Quote(n) /\ n < Seen /\ n \in Int
        BY <1>2, <3>3 DEF ClosedQuote
      <4>2. bar = NoBar => n >= Seen
        BY <3>3, <4>1 DEF MadeAt
      <4>3. Seen \in Int
        BY <1>7, <1>16, <1>18, <2>0
      <4> QED BY <4>1, <4>2, <4>3
    <3>4. MergesBar => bar # NoBar
      BY DEF MergesBar
    <3>5. ASSUME NEW n, Quote(n), t < n, m1.at <= n PROVE Held(n)
      BY <1>2, <1>7, <2>0, <3>5 DEF MadeAt, Held
    <3> QED BY <1>17, <1>18, <3>1, <3>2, <3>3, <3>4, <3>5
  <2> QED BY <1>8, <2>1, <2>2
<1> QED BY <1>0, <1>14, <1>15, <1>18 DEF AnyCase

\* The line of a moment: the same, or with the bar that has ended behind it.
LEMMA ReachesSame ==
    ASSUME NEW s, NEW t, NEW n \in Nat, NEW x, \A k \in 1..(n - 1) : s[k] = t[k], Reaches(s, n, x)
    PROVE  Reaches(t, n, x)
<1>1. PICK m \in 1..(n - 1) : (\A k \in m..(n - 1) : ~s[k].partial) /\ x <= s[m].at
  BY DEF Reaches
<1>2. \A k \in m..(n - 1) : k \in 1..(n - 1)
  OBVIOUS
<1> QED BY <1>1, <1>2 DEF Reaches

\* The line is the series and behind it the queue.
LEMMA LineIs ==
    ASSUME GapsTyped
    PROVE  /\ Line \in Seq(LineBar) /\ Len(Line) = Len(series) + Len(queue)
           /\ Len(series) \in Nat /\ Len(queue) \in Nat /\ Len(Line) \in Nat
           /\ \A n \in 1..Len(series) : Line[n] = series[n]
           /\ \A n \in 1..Len(queue) : Line[n + Len(series)] = queue[n]
           /\ DOMAIN Line = 1..Len(Line) /\ DOMAIN series = 1..Len(series) /\ DOMAIN queue = 1..Len(queue)
           /\ \A n \in 1..Len(Line) : Line[n] \in LineBar /\ Line[n].at \in Int /\ Line[n].partial \in BOOLEAN
<1>1. series \in Seq(LineBar) /\ queue \in Seq(LineBar)
  BY DEF GapsTyped
<1>2. Len(series) \in Nat /\ Len(queue) \in Nat
  BY <1>1
<1>3. Line \in Seq(LineBar) /\ Len(Line) = Len(series) + Len(queue)
  BY <1>1 DEF Line
<1>4. \A n \in 1..Len(series) : Line[n] = series[n]
  BY <1>1 DEF Line
<1>5. ASSUME NEW n \in 1..Len(queue) PROVE Line[n + Len(series)] = queue[n]
  <2>1. n + Len(series) \in 1..(Len(series) + Len(queue)) /\ n + Len(series) > Len(series)
    BY <1>2
  <2>2. Line[n + Len(series)] = queue[(n + Len(series)) - Len(series)]
    BY <1>1, <2>1 DEF Line
  <2>3. (n + Len(series)) - Len(series) = n
    BY <1>2
  <2> QED BY <2>2, <2>3
<1>6. DOMAIN Line = 1..Len(Line) /\ DOMAIN series = 1..Len(series) /\ DOMAIN queue = 1..Len(queue) /\ Len(Line) \in Nat
  BY <1>1, <1>3, SeqFacts
<1>7. \A n \in 1..Len(Line) : Line[n] \in LineBar /\ Line[n].at \in Int /\ Line[n].partial \in BOOLEAN
  <2>1. \A n \in 1..Len(Line) : Line[n] \in LineBar
    BY <1>3, SeqFacts
  <2> QED BY <2>1 DEF LineBar
<1> QED BY <1>2, <1>3, <1>4, <1>5, <1>6, <1>7

\* What a bar that ends does to queue and line when nothing is missed.
LEMMA EndsBarLine ==
    ASSUME GapsConstants, GapsTyped, EndsBar, MomentFrame, ~lost'
    PROVE  /\ Tagged(bar, FALSE) \in LineBar /\ bar \in BarSet /\ ~lost /\ (~bar.partial => offset = base /\ ~joined)
           /\ queue' \in Seq(LineBar) /\ Len(queue') = Len(queue) + 1 /\ \A n \in 1..Len(queue) : queue'[n] = queue[n]
           /\ queue'[Len(queue) + 1] = Tagged(bar, FALSE)
           /\ Len(Line') = Len(Line) + 1 /\ Line' \in Seq(LineBar)
           /\ \A n \in 1..Len(Line) : Line'[n] = Line[n]
           /\ Line'[Len(Line) + 1] = Tagged(bar, FALSE)
<1> DEFINE b == Tagged(bar, FALSE)
<1>1. bar \in BarSet /\ b \in LineBar
  BY TypedFacts, TaggedIs DEF EndsBar
<1>2. queue \in Seq(LineBar) /\ Len(queue) <= MaxQueue /\ lost \in BOOLEAN /\ series \in Seq(LineBar)
  BY DEF GapsTyped
<1>3. <<b>> \in Seq(LineBar) /\ EnqueueBars(<<b>>, (offset # base \/ joined) /\ ~bar.partial)
  BY <1>1, OneBar DEF EndsBar
<1>4. ((offset # base \/ joined) /\ ~bar.partial) \in BOOLEAN
  OBVIOUS
<1> HIDE DEF b
<1>5. ~lost /\ ~((offset # base \/ joined) /\ ~bar.partial) /\ queue' = queue \o <<b>>
  BY <1>2, <1>3, <1>4, Enqueued
<1>6. queue' = Append(queue, b)
  BY <1>1, <1>2, <1>5
<1>7. /\ queue' \in Seq(LineBar) /\ Len(queue') = Len(queue) + 1
      /\ \A n \in 1..(Len(queue) + 1) : queue'[n] = IF n = Len(queue) + 1 THEN b ELSE queue[n]
  BY <1>1, <1>2, <1>6, AppendFacts
<1>8. Line' = Append(Line, b)
  <2>1. series \o Append(queue, b) = Append(series \o queue, b)
    BY <1>1, <1>2
  <2>2. Line' = series \o Append(queue, b)
    BY <1>6 DEF Line, MomentFrame
  <2> QED BY <2>1, <2>2 DEF Line
<1>9. Line \in Seq(LineBar) /\ Len(Line) \in Nat /\ Len(queue) \in Nat
  BY LineIs
<1>10. /\ Line' \in Seq(LineBar) /\ Len(Line') = Len(Line) + 1
       /\ \A n \in 1..(Len(Line) + 1) : Line'[n] = IF n = Len(Line) + 1 THEN b ELSE Line[n]
  BY <1>1, <1>8, <1>9, AppendFacts
<1>11. /\ \A n \in 1..Len(Line) : Line'[n] = Line[n]
       /\ Line'[Len(Line) + 1] = b
  BY <1>9, <1>10
<1>12. /\ \A n \in 1..Len(queue) : queue'[n] = queue[n]
       /\ queue'[Len(queue) + 1] = b
  BY <1>9, <1>7
<1> QED BY <1>1, <1>5, <1>7, <1>10, <1>11, <1>12 DEF b

\* A bar that is whole and over stays it.
Whole(b) == b = Tagged(BarOf(b.at, quotes), b.warmup) /\ b.at \in Starts(quotes) /\ OverBy(b.at)
WholeNext(b) == b = Tagged(BarOf(b.at, quotes'), b.warmup) /\ b.at \in Starts(quotes)' /\ OverNext(b.at)
\* A bar that is whole and over stays so as the clock goes on.
LEMMA StaysWhole ==
    ASSUME GapsConstants, GapsTyped, MomentFrame, NEW b, Whole(b)
    PROVE  WholeNext(b)
<1>1. b.at \in Int /\ b.at \in Starts(quotes)'
  BY QuotesGrow DEF Whole
<1>2. OverNext(b.at) /\ BarOf(b.at, quotes') = BarOf(b.at, quotes)
  BY <1>1, QuotesGrow DEF Whole
<1> QED BY <1>1, <1>2, Zenon DEF Whole, WholeNext

\* A bar of ticks is the broker's when it ends.
LEMMA EndedIsWhole ==
    ASSUME GapsConstants, GapsTyped, LastIsSeen, BarIsCurrent, EndsBar, offset = base, ~bar.partial, ~joined
    PROVE  Whole(Tagged(bar, FALSE))
<1>1. EndsMinute /\ bar # NoBar /\ bar.at # Bucket
  BY DEF EndsBar
<1>2. /\ bar.at \in Int /\ OverBy(bar.at) /\ bar.at + Size <= m1.at
      /\ \A n \in 1..clock : Quote(n) /\ n < m1.at => ClosedQuote(n)
  BY <1>1, BarEnds
<1>3. bar \in BarSet /\ tape \in Seq(Nat) /\ clock \in 0..Len(tape) /\ quotes = SubSeq(tape, 1, clock)
      /\ base \in Int /\ clock \in Nat /\ Size \in Nat /\ m1.at \in Int
  BY <1>1, TypedFacts DEF EndsMinute
<1>4. /\ bar.at \in Starts(quotes) /\ Occurs(bar.low, bar.at) /\ Occurs(bar.high, bar.at) /\ Within(bar, 0)
  BY <1>1 DEF BarIsCurrent
<1>5. \A x : x \in In(bar.at, quotes)
               <=> \E n \in 1..clock : tape[n] # 0 /\ bar.at <= n /\ n < bar.at + Size /\ tape[n] = x
  BY <1>3, InIs
<1>6. bar.low \in In(bar.at, quotes) /\ bar.high \in In(bar.at, quotes)
  BY <1>4, <1>5 DEF Occurs, Quote
<1>7. ASSUME NEW x \in In(bar.at, quotes) PROVE bar.low <= x /\ x <= bar.high
  <2>1. PICK n \in 1..clock : tape[n] # 0 /\ bar.at <= n /\ n < bar.at + Size /\ tape[n] = x
    BY <1>5
  <2>2. n < m1.at /\ Quote(n) /\ 0 < n
    BY <1>2, <1>3, <2>1 DEF Quote
  <2>3. n < Seen
    BY <1>2, <2>2 DEF ClosedQuote
  <2>4. tape[n] \in bar.low..bar.high
    BY <1>4, <2>1, <2>2, <2>3 DEF Within
  <2> QED BY <2>1, <2>4
<1>8. quotes \in Seq(Nat)
  BY <1>3, QuotesAre
<1>9. BarOf(bar.at, quotes) = [at |-> bar.at, low |-> bar.low, high |-> bar.high, partial |-> FALSE]
  BY <1>2, <1>6, <1>7, <1>8, BarOfOnly
<1>10. bar = [at |-> bar.at, low |-> bar.low, high |-> bar.high, partial |-> FALSE]
  <2>1. bar.partial = FALSE
    BY <1>3 DEF BarSet
  <2> QED BY <1>3, <2>1 DEF BarSet
<1>11. Tagged(bar, FALSE).at = bar.at /\ Tagged(bar, FALSE).warmup = FALSE
  BY DEF Tagged
<1>12. BarOf(bar.at, quotes) = bar
  BY <1>9, <1>10, Zenon
<1> QED BY <1>2, <1>4, <1>11, <1>12, Zenon DEF Whole

\* Bar by bar.
LEMMA WholeIs == ASSUME NEW s PROVE WholeIn(s) <=> \A n \in DOMAIN s : ~s[n].partial => Whole(s[n])
<1> QED BY DEF WholeIn, Whole

\* A moment puts only whole bars into the line, or partial ones.
LEMMA MomentWhole ==
    ASSUME GapsConstants, GapsInv, Moment, ~lost'
    PROVE  WholeIn(series)' /\ WholeIn(queue)'
<1>0. GapsTyped /\ MomentFrame /\ AnyCase
  BY MomentCases DEF GapsInv
<1>1. ~lost
  <2>1. lost \in BOOLEAN
    BY <1>0 DEF GapsTyped
  <2>2. CASE EndsBar
    BY <1>0, <2>2, EndsBarLine
  <2> QED BY <1>0, <2>1, <2>2 DEF AnyCase, NoTick, MissedTick, FirstTick, OneMore, StartsBar, MergesBar
<1>2. /\ \A n \in DOMAIN series : ~series[n].partial => Whole(series[n])
      /\ \A n \in DOMAIN queue : ~queue[n].partial => Whole(queue[n])
      /\ LastIsSeen /\ BarIsCurrent
  BY <1>1, WholeIs DEF GapsInv, NothingMissed
<1>3. /\ \A n \in DOMAIN series : ~series[n].partial => WholeNext(series[n])
      /\ \A n \in DOMAIN queue : ~queue[n].partial => WholeNext(queue[n])
  BY <1>0, <1>2, StaysWhole
<1>4. series' = series
  BY <1>0 DEF MomentFrame
<1>5. \A n \in DOMAIN queue' : ~queue'[n].partial => WholeNext(queue'[n])
  <2>1. CASE queue' = queue
    BY <1>3, <2>1
  <2>2. CASE EndsBar
    <3>1. /\ queue' \in Seq(LineBar) /\ Len(queue') = Len(queue) + 1 /\ \A n \in 1..Len(queue) : queue'[n] = queue[n]
          /\ queue'[Len(queue) + 1] = Tagged(bar, FALSE) /\ (~bar.partial => offset = base /\ ~joined) /\ bar \in BarSet
      BY <1>0, <2>2, EndsBarLine
    <3>2. DOMAIN queue' = 1..(Len(queue) + 1) /\ DOMAIN queue = 1..Len(queue) /\ Len(queue) \in Nat
      <4>1. DOMAIN queue' = 1..Len(queue')
        BY <3>1, SeqFacts
      <4>2. Len(queue) \in Nat /\ DOMAIN queue = 1..Len(queue)
        BY <1>0, LineIs
      <4> QED BY <3>1, <4>1, <4>2
    <3>3. ~bar.partial => WholeNext(Tagged(bar, FALSE))
      BY <1>0, <1>2, <2>2, <3>1, EndedIsWhole, StaysWhole
    <3>4. Tagged(bar, FALSE).partial = bar.partial
      BY DEF Tagged
    <3>5. ASSUME NEW n \in DOMAIN queue', ~queue'[n].partial PROVE WholeNext(queue'[n])
      <4>1. CASE n = Len(queue) + 1
        BY <3>1, <3>3, <3>4, <3>5, <4>1
      <4>2. CASE n \in DOMAIN queue
        BY <1>3, <3>1, <3>2, <3>5, <4>2
      <4> QED BY <3>2, <4>1, <4>2
    <3> QED BY <3>5
  <2> QED BY <1>0, <2>1, <2>2 DEF AnyCase, NoTick, MissedTick, FirstTick, OneMore, StartsBar, MergesBar
<1>6. WholeIn(series)'
  BY <1>3, <1>4 DEF WholeIn, WholeNext, OverBy, OverNext
<1>7. WholeIn(queue)'
  BY <1>5 DEF WholeIn, WholeNext, OverBy, OverNext
<1> QED BY <1>6, <1>7

\* The line goes on without a gap.
LEMMA LineWhole ==
    ASSUME GapsTyped, WholeIn(series), WholeIn(queue)
    PROVE  \A n \in 1..Len(Line) : ~Line[n].partial => Whole(Line[n])
<1>1. /\ Len(series) \in Nat /\ Len(queue) \in Nat /\ Len(Line) = Len(series) + Len(queue)
      /\ \A n \in 1..Len(series) : Line[n] = series[n]
      /\ \A n \in 1..Len(queue) : Line[n + Len(series)] = queue[n]
      /\ DOMAIN series = 1..Len(series) /\ DOMAIN queue = 1..Len(queue)
  BY LineIs
<1> SUFFICES ASSUME NEW n \in 1..Len(Line), ~Line[n].partial PROVE Whole(Line[n])
  OBVIOUS
<1>2. CASE n \in 1..Len(series)
  BY <1>1, <1>2, WholeIs
<1>3. CASE n \notin 1..Len(series)
  <2>1. n - Len(series) \in 1..Len(queue) /\ (n - Len(series)) + Len(series) = n
    BY <1>1, <1>3
  <2>2. Line[n] = queue[n - Len(series)]
    BY <1>1, <2>1
  <2> QED BY <1>1, <2>1, <2>2, WholeIs
<1> QED BY <1>2, <1>3

\* A moment leaves no bar out of the line.
LEMMA MomentLine ==
    ASSUME GapsConstants, GapsInv, Moment, ~lost'
    PROVE  Gapless(Line)' /\ NextFollows'
<1>0. /\ GapsTyped /\ MomentFrame /\ AnyCase
      /\ OnlyHistory
  BY MomentCases DEF GapsInv
<1>1. ~lost /\ (MissedTick => ~Begun)
  <2>1. lost \in BOOLEAN /\ (lost' = lost \/ (MissedTick /\ (lost' <=> lost \/ Begun)) \/ EndsBar)
    BY <1>0 DEF GapsTyped, AnyCase, NoTick, MissedTick, FirstTick, OneMore, StartsBar, MergesBar
  <2>2. EndsBar => ~lost
    BY <1>0, EndsBarLine
  <2>3. MissedTick => (lost' <=> lost \/ Begun)
    BY DEF MissedTick
  <2> QED BY <2>1, <2>2, <2>3
<1>2. LastIsSeen /\ BarIsCurrent /\ WholeIn(series) /\ WholeIn(queue) /\ Gapless(Line) /\ NextFollows
  BY <1>1 DEF GapsInv, NothingMissed
<1>3. /\ clock \in Nat /\ clock' = clock + 1 /\ tape' = tape /\ base' = base /\ base \in Int
      /\ \A n : QuoteNext(n) <=> Quote(n) \/ (n = clock + 1 /\ tape[clock + 1] # 0)
      /\ \A x : x \in Starts(quotes)' <=> \E n \in 1..(clock + 1) : QuoteNext(n) /\ x = StartFor(n, base)
      /\ \A x \in Starts(quotes)' : x \in Starts(quotes) \/ x = StartFor(clock + 1, base)
      /\ \A x \in Starts(quotes) : x \in Int /\ x <= StartFor(clock + 1, base)
  BY <1>0, QuotesGrow
<1>4. StartFor(clock + 1, base) \in Int /\ offset' = offset
  <2>1. clock + 1 \in Int
    BY <1>3
  <2>2. StartFor(clock + 1, base) \in Int
    BY <1>3, <2>1, InBucket
  <2> QED BY <1>0, <2>2 DEF MomentFrame
<1>5. ASSUME NEW at \in Starts(quotes), NEW n, Follows(Line, n, at)
      PROVE  \A x \in Starts(quotes)' : x < at => Reaches(Line, n, x)
  BY <1>3, <1>4, <1>5 DEF Follows
<1>6. /\ Len(Line) \in Nat /\ DOMAIN Line = 1..Len(Line)
      /\ \A n \in 1..Len(Line) : Line[n].partial \in BOOLEAN
  BY <1>0, LineIs
<1>7. \A n \in 1..Len(Line) : ~Line[n].partial => Whole(Line[n])
  BY <1>0, <1>2, LineWhole
\* Bars that were in the line follow as they did.
<1>8. ASSUME NEW n \in 1..Len(Line), \A k \in 1..n : Line'[k] = Line[k], Continues(Line', n), ~Line'[n].partial,
             NEW x \in Starts(quotes)', x < Line'[n].at
      PROVE  Reaches(Line', n, x)
  <2>1. n \in 1..n /\ n \in Nat /\ (n > 1 => n - 1 \in 1..n)
    BY <1>6
  <2>2. Line'[n] = Line[n] /\ Continues(Line, n)
    BY <1>8, <2>1 DEF Continues
  <2>3. Line[n].at \in Starts(quotes) /\ Follows(Line, n, Line[n].at)
    BY <1>2, <1>6, <1>7, <1>8, <2>2 DEF Gapless, Whole
  <2>4. Reaches(Line, n, x)
    BY <1>5, <1>8, <2>2, <2>3
  <2>5. \A k \in 1..(n - 1) : Line[k] = Line'[k]
    BY <1>8, <2>1
  <2> QED BY <2>1, <2>4, <2>5, ReachesSame
<1>9. CASE ~EndsBar
  <2>1. queue' = queue /\ series' = series /\ Line' = Line
    BY <1>0, <1>9 DEF AnyCase, NoTick, MissedTick, FirstTick, OneMore, StartsBar, MergesBar, MomentFrame, Line
  <2>2. Gapless(Line)'
    <3>1. \A n \in DOMAIN Line' : Continues(Line', n) /\ ~Line'[n].partial
             => \A x \in Starts(quotes)' : x < Line'[n].at => Reaches(Line', n, x)
      BY <1>6, <1>8, <2>1
    <3> QED BY <3>1 DEF Gapless, Continues, Follows, Reaches
  <2>3. ASSUME Continues(Line, Len(Line) + 1), bar' # NoBar, offset = base, ~bar'.partial,
               NEW x \in Starts(quotes)', x < bar'.at
        PROVE  Reaches(Line, Len(Line) + 1, x)
    <3>1. CASE NoTick \/ MissedTick \/ FirstTick \/ OneMore \/ MergesBar
      <4>1. bar # NoBar /\ bar'.at = bar.at /\ bar'.partial = bar.partial
        <5>1. CASE MergesBar
          <6>1. bar \in BarSet /\ m1.low \in Nat /\ m1.high \in Nat
            BY <1>0, <5>1, TypedFacts DEF MergesBar, EndsMinute, MinuteSet
          <6> QED BY <5>1, <6>1, MergedIs DEF MergesBar
        <5>2. CASE bar' = bar
          BY <2>3, <5>2
        <5> QED BY <3>1, <5>1, <5>2 DEF NoTick, MissedTick, FirstTick, OneMore
      <4>2. Follows(Line, Len(Line) + 1, bar.at) /\ bar.at \in Starts(quotes)
        BY <1>2, <2>3, <4>1 DEF NextFollows, BarIsCurrent
      <4> QED BY <1>5, <2>3, <4>1, <4>2
    <3>2. CASE StartsBar
      <4>1. EndsMinute /\ bar = NoBar /\ m1 # NoM1
        BY <3>2 DEF StartsBar, EndsMinute
      <4>2. Partial(Bucket, m1.at) \in BOOLEAN
        BY DEF Partial
      <4>3. bar'.at = Bucket /\ Bucket = StartFor(m1.at, base) /\ m1.at \in 0..clock /\ m1.at \in Int
        BY <1>0, <1>3, <2>3, <3>2, <4>1, <4>2, StartedIs DEF StartsBar, Bucket
      <4>4. PICK n \in 1..(clock + 1) : QuoteNext(n) /\ x = StartFor(n, base)
        BY <1>3
      <4>5. n < m1.at /\ n \in Int
        <5>1. n \in Int
          BY <1>3
        <5>2. StartFor(n, base) < StartFor(m1.at, base)
          BY <2>3, <4>3, <4>4
        <5> QED BY <1>3, <4>3, <5>1, <5>2, BucketsApart
      <4>6. n \in 1..clock /\ Quote(n) /\ n < Seen
        BY <1>3, <4>1, <4>3, <4>4, <4>5 DEF Seen
      <4>7. Reaches(Line, Len(Line) + 1, StartFor(n, base))
        BY <1>2, <2>3, <4>1, <4>6 DEF NextFollows
      <4> QED BY <4>4, <4>7
    <3> QED BY <1>0, <1>9, <3>1, <3>2 DEF AnyCase
  <2>4. ASSUME Continues(Line, Len(Line) + 1), bar' = NoBar, NEW n, ClosedNext(n)
        PROVE  Reaches(Line, Len(Line) + 1, StartFor(n, base))
    <3>1. NoTick \/ MissedTick \/ FirstTick \/ OneMore
      <4>1. StartsBar => bar' # NoBar
        <5>1. Partial(Bucket, m1.at) \in BOOLEAN
          BY DEF Partial
        <5> QED BY <1>0, <5>1, StartedIs DEF StartsBar, EndsMinute
      <4>2. MergesBar => bar' # NoBar
        <5>1. MergesBar => bar \in BarSet /\ m1.low \in Nat /\ m1.high \in Nat
          BY <1>0, TypedFacts DEF MergesBar, EndsMinute, MinuteSet
        <5> QED BY <5>1, MergedIs DEF MergesBar
      <4> QED BY <1>0, <1>9, <2>4, <4>1, <4>2 DEF AnyCase
    <3>2. bar = NoBar
      BY <2>4, <3>1 DEF NoTick, MissedTick, FirstTick, OneMore
    <3>3. ~MissedTick
      <4> SUFFICES ASSUME MissedTick PROVE FALSE
        OBVIOUS
      <4>1. history = "cold" /\ Line # <<>>
        <5>1. history = "cold"
          BY <1>1 DEF Begun
        <5>2. Len(Line) # 0
          BY <1>6, <2>4 DEF Continues
        <5>3. Line \in Seq(LineBar)
          BY <1>0, LineIs
        <5> QED BY <5>1, <5>2, <5>3, SeqFacts
      <4> QED BY <1>0, <3>2, <4>1 DEF OnlyHistory
    <3>4. ~EndsMinute
      BY <3>1, <3>3 DEF NoTick, FirstTick, OneMore, EndsMinute, Tick
    <3>5. ClosedQuote(n)
      BY <1>0, <1>2, <2>4, <3>1, <3>3, <3>4, ClosedGrow
    <3>6. n \in 1..clock /\ Quote(n) /\ n < Seen
      BY <3>5 DEF ClosedQuote, Quote
    <3> QED BY <1>2, <2>4, <3>2, <3>6 DEF NextFollows
  <2>5. NextFollows'
    <3> SUFFICES ASSUME Continues(Line', Len(Line') + 1)
                 PROVE  /\ (bar # NoBar /\ offset = base /\ ~bar.partial => Follows(Line, Len(Line) + 1, bar.at))'
                        /\ (bar = NoBar => \A n \in 1..clock : Quote(n) /\ n < Seen
                              => Reaches(Line, Len(Line) + 1, StartFor(n, base)))'
      BY DEF NextFollows, Continues
    <3>1. Continues(Line, Len(Line) + 1)
      BY <2>1
    <3>2. (bar # NoBar /\ offset = base /\ ~bar.partial => Follows(Line, Len(Line) + 1, bar.at))'
      BY <1>3, <1>4, <2>1, <2>3, <3>1 DEF Follows, Reaches
    <3>3. (bar = NoBar => \A n \in 1..clock : Quote(n) /\ n < Seen
                              => Reaches(Line, Len(Line) + 1, StartFor(n, base)))'
      <4> SUFFICES ASSUME bar' = NoBar, NEW n \in 1..clock', Quote(n)', n < Seen'
                   PROVE  Reaches(Line, Len(Line) + 1, StartFor(n, base))'
        OBVIOUS
      <4>1. ClosedNext(n)
        BY DEF ClosedNext, QuoteNext, Quote
      <4>2. Reaches(Line, Len(Line) + 1, StartFor(n, base))
        BY <2>4, <3>1, <4>1
      <4> QED BY <1>3, <2>1, <4>2 DEF Reaches, StartFor
    <3> QED BY <3>2, <3>3
  <2> QED BY <2>2, <2>5
<1>10. CASE EndsBar
  <2> DEFINE b == Tagged(bar, FALSE)
  <2>1. /\ bar \in BarSet /\ (~bar.partial => offset = base)
        /\ Len(Line') = Len(Line) + 1 /\ Line' \in Seq(LineBar)
        /\ \A n \in 1..Len(Line) : Line'[n] = Line[n]
        /\ Line'[Len(Line) + 1] = b
    BY <1>0, <1>10, EndsBarLine
  <2>2. b.at = bar.at /\ b.partial = bar.partial
    BY DEF Tagged
  <2>3. EndsMinute /\ bar # NoBar /\ bar.at # Bucket /\ m1 # NoM1
    BY <1>10 DEF EndsBar, EndsMinute
  <2>4. bar' # NoBar /\ bar'.at = Bucket
    BY <1>0, <1>10, <2>3, StartedIs DEF EndsBar
  <2>5. DOMAIN Line' = 1..(Len(Line) + 1)
    BY <2>1, SeqFacts
  <2>6. ASSUME ~bar.partial
        PROVE  /\ offset = base /\ bar.at \in Starts(quotes) /\ bar.at \in Int
               /\ \A n \in 1..clock : Quote(n) /\ n < m1.at => n < bar.at + Size
    BY <1>0, <1>2, <2>1, <2>3, <2>6, BarEnds DEF BarIsCurrent
  <2> HIDE DEF b
  <2>7. Gapless(Line)'
    <3> SUFFICES ASSUME NEW n \in 1..(Len(Line) + 1), Continues(Line', n), ~Line'[n].partial,
                        NEW x \in Starts(quotes)', x < Line'[n].at
                 PROVE  Reaches(Line', n, x)
      BY <2>5 DEF Gapless, Continues, Follows, Reaches
    <3>1. CASE n \in 1..Len(Line)
      <4>1. \A k \in 1..n : k \in 1..Len(Line)
        BY <1>6, <3>1
      <4>2. \A k \in 1..n : Line'[k] = Line[k]
        BY <2>1, <4>1
      <4> QED BY <1>8, <3>1, <4>2
    <3>2. CASE n = Len(Line) + 1
      <4>1. ~bar.partial /\ x < bar.at
        BY <2>1, <2>2, <3>2
      <4>2. n - 1 = Len(Line) /\ (n > 1 => n - 1 \in 1..Len(Line))
        BY <1>6, <3>2
      <4>3. Continues(Line, Len(Line) + 1)
        BY <2>1, <3>2, <4>2 DEF Continues
      <4>4. Follows(Line, Len(Line) + 1, bar.at)
        BY <1>2, <2>3, <2>6, <4>1, <4>3 DEF NextFollows
      <4>5. Reaches(Line, Len(Line) + 1, x)
        BY <1>5, <2>6, <4>1, <4>4
      <4>6. \A k \in 1..((Len(Line) + 1) - 1) : Line[k] = Line'[k]
        BY <1>6, <2>1
      <4>7. Len(Line) + 1 \in Nat
        BY <1>6
      <4> QED BY <3>2, <4>5, <4>6, <4>7, ReachesSame
    <3> QED BY <1>6, <3>1, <3>2
  <2>8. ASSUME Continues(Line', Len(Line') + 1), NEW x \in Starts(quotes)', x < Bucket
        PROVE  Reaches(Line', Len(Line') + 1, x)
    <3>1. ~bar.partial
      <4>1. (Len(Line') + 1) - 1 = Len(Line) + 1
        BY <1>6, <2>1
      <4> QED BY <2>1, <2>2, <2>8, <4>1 DEF Continues
    <3>2. PICK n \in 1..(clock + 1) : QuoteNext(n) /\ x = StartFor(n, base)
      BY <1>3
    <3>3. m1.at \in 0..clock /\ m1.at \in Int /\ n \in Int /\ Size \in Nat /\ tape \in Seq(Nat)
          /\ clock \in 0..Len(tape) /\ quotes = SubSeq(tape, 1, clock)
      BY <1>0, <1>3, <2>3, TypedFacts
    <3>4. StartFor(n, base) < StartFor(m1.at, base)
      BY <2>6, <2>8, <3>1, <3>2 DEF Bucket
    <3>5. n < m1.at
      BY <1>3, <3>3, <3>4, BucketsApart
    <3>6. n \in 1..clock /\ Quote(n)
      BY <1>3, <3>2, <3>3, <3>5
    <3>7. n < bar.at + Size /\ bar.at \in Int
      BY <2>6, <3>1, <3>5, <3>6
    <3>8. PICK k \in 1..clock : tape[k] # 0 /\ bar.at = StartFor(k, base)
      BY <2>6, <3>1, <3>3, StartsAre
    <3>9. k \in Int /\ x \in Int /\ x <= n
      BY <1>3, <3>2, <3>3, InBucket
    <3>10. x <= bar.at
      <4> SUFFICES ASSUME bar.at < x PROVE FALSE
        BY <3>7, <3>9
      <4>1. StartFor(k, base) + Size <= StartFor(n, base)
        <5>1. StartFor(k, base) < StartFor(n, base)
          BY <3>2, <3>8
        <5> QED BY <1>3, <3>3, <3>9, <5>1, BucketsApart
      <4> QED BY <3>2, <3>3, <3>7, <3>8, <3>9, <4>1
    <3>11. Len(Line) + 1 \in 1..((Len(Line') + 1) - 1) /\ (Len(Line') + 1) - 1 = Len(Line) + 1
      BY <1>6, <2>1
    <3>12. \A i \in (Len(Line) + 1)..((Len(Line') + 1) - 1) : i = Len(Line) + 1
      BY <1>6, <3>11
    <3>13. Line'[Len(Line) + 1] = b /\ ~b.partial /\ x <= b.at
      BY <2>1, <2>2, <3>1, <3>10
    <3> QED BY <3>11, <3>12, <3>13 DEF Reaches
  <2>9. NextFollows'
    <3> SUFFICES ASSUME Continues(Line', Len(Line') + 1)
                 PROVE  /\ (bar # NoBar /\ offset = base /\ ~bar.partial => Follows(Line, Len(Line) + 1, bar.at))'
                        /\ (bar = NoBar => \A n \in 1..clock : Quote(n) /\ n < Seen
                              => Reaches(Line, Len(Line) + 1, StartFor(n, base)))'
      BY DEF NextFollows, Continues
    <3>1. \A x \in Starts(quotes)' : x < bar'.at => Reaches(Line', Len(Line') + 1, x)
      BY <2>4, <2>8
    <3>2. Follows(Line, Len(Line) + 1, bar.at)'
      BY <3>1 DEF Follows, Reaches
    <3>3. bar' # NoBar
      BY <2>4
    <3> QED BY <3>2, <3>3
  <2> QED BY <2>7, <2>9
<1> QED BY <1>9, <1>10

\* A bar that ends comes last, or is dropped.
LEMMA EndsBarQueue ==
    ASSUME GapsConstants, GapsTyped, EndsBar
    PROVE  /\ bar \in BarSet /\ bar.at \in Int
           /\ Tagged(bar, FALSE).at = bar.at /\ Tagged(bar, FALSE).partial = bar.partial /\ ~Tagged(bar, FALSE).warmup
           /\ DOMAIN queue \subseteq Nat /\ Len(queue) \in Nat
           /\ \A n \in DOMAIN queue' : \/ n \in DOMAIN queue /\ queue'[n] = queue[n]
                                       \/ /\ n = Len(queue) + 1 /\ queue'[n] = Tagged(bar, FALSE)
                                          /\ \A m \in DOMAIN queue' : m <= n
<1> DEFINE b == Tagged(bar, FALSE)
<1>1. bar \in BarSet /\ b \in LineBar /\ b.at = bar.at /\ b.partial = bar.partial /\ ~b.warmup
  BY TypedFacts, TaggedIs DEF EndsBar
<1>2. queue \in Seq(LineBar) /\ Len(queue) <= MaxQueue /\ lost \in BOOLEAN
  BY DEF GapsTyped
<1>3. <<b>> \in Seq(LineBar) /\ Len(<<b>>) = 1 /\ <<b>>[1] = b /\ DOMAIN <<b>> = {1}
  BY <1>1, OneBar
<1>4. EnqueueBars(<<b>>, (offset # base \/ joined) /\ ~bar.partial) /\ ((offset # base \/ joined) /\ ~bar.partial) \in BOOLEAN
  BY DEF EndsBar
<1>5. /\ queue' \in Seq(LineBar) /\ Len(queue') <= Len(queue) + 1
      /\ \A n \in DOMAIN queue : queue'[n] = queue[n]
      /\ \A n \in DOMAIN queue' : n \notin DOMAIN queue => n - Len(queue) \in {1} /\ queue'[n] = <<b>>[n - Len(queue)]
  <2> DEFINE bars == <<b>>
  <2>1. bars \in Seq(LineBar) /\ Len(bars) = 1 /\ DOMAIN bars = {1} /\ EnqueueBars(bars, (offset # base \/ joined) /\ ~bar.partial)
    BY <1>3, <1>4
  <2> HIDE DEF bars
  <2>2. /\ queue' \in Seq(LineBar) /\ Len(queue') <= Len(queue) + Len(bars)
        /\ \A n \in DOMAIN queue : queue'[n] = queue[n]
        /\ \A n \in DOMAIN queue' : n \notin DOMAIN queue =>
              n - Len(queue) \in DOMAIN bars /\ queue'[n] = bars[n - Len(queue)]
    BY <1>2, <1>4, <2>1, Enqueued
  <2> QED BY <2>1, <2>2 DEF bars
<1>6. DOMAIN queue = 1..Len(queue) /\ Len(queue) \in Nat /\ DOMAIN queue' = 1..Len(queue') /\ Len(queue') \in Nat
  BY <1>2, <1>5, SeqFacts
<1> HIDE DEF b
<1>7. ASSUME NEW n \in DOMAIN queue', n \notin DOMAIN queue
      PROVE  n = Len(queue) + 1 /\ queue'[n] = b /\ \A m \in DOMAIN queue' : m <= n
  <2>1. n - Len(queue) = 1
    BY <1>5, <1>7
  <2>2. n = Len(queue) + 1 /\ \A m \in DOMAIN queue' : m <= n
    BY <1>5, <1>6, <2>1
  <2>3. queue'[n] = <<b>>[1]
    BY <1>5, <1>7, <2>1
  <2> QED BY <1>3, <2>2, <2>3
<1>8. bar.at \in Int /\ DOMAIN queue \subseteq Nat
  BY <1>1, <1>6 DEF BarSet
<1> QED BY <1>1, <1>5, <1>6, <1>7, <1>8 DEF b

\* What was told is gaps.
LEMMA ToldAre == ASSUME GapsTyped
                 PROVE  /\ Len(told) \in Nat /\ DOMAIN told = 1..Len(told)
                        /\ \A n \in DOMAIN told : /\ told[n].zone \in ZoneSet /\ told[n].zone.at \in Int
                                                  /\ told[n].lost \in BOOLEAN
<1> DEFINE R == [zone : ZoneSet, lost : BOOLEAN]
<1>1. told \in Seq(R)
  BY DEF GapsTyped
<1>2. \A x \in R : x.zone \in ZoneSet /\ x.zone.at \in Int /\ x.lost \in BOOLEAN
  BY DEF ZoneSet
<1> HIDE DEF R
<1>3. Len(told) \in Nat /\ DOMAIN told = 1..Len(told) /\ \A n \in 1..Len(told) : told[n] \in R
  BY <1>1, SeqFacts
<1> QED BY <1>2, <1>3

\* A moment keeps the invariant.
LEMMA MomentKeeps == ASSUME GapsConstants, GapsInv, Moment PROVE GapsInv'
<1>0. /\ GapsTyped /\ MomentFrame /\ AnyCase
      /\ SeriesGrows /\ OnlyHistory /\ ZonesAreOpen /\ PartialFirst /\ ToldInTime /\ ReportedOnce
  BY MomentCases DEF GapsInv
<1>1. GapsTyped'
  BY <1>0, MomentTyped
<1>2. NothingMissed'
  BY MomentBar, MomentWhole, MomentLine DEF NothingMissed
<1>3. SeriesGrows' /\ ZonesAreOpen' /\ ReportedOnce'
  BY <1>0 DEF MomentFrame, SeriesGrows, ZonesAreOpen, ReportedOnce
\* How the bar of ticks goes on.
<1> DEFINE Same == bar' = bar /\ queue' = queue
           Grows(p) == /\ EndsMinute /\ bar' \in BarSet /\ bar' # NoBar /\ bar'.at + Size >= m1.at + Minute /\ bar'.partial = p
                       /\ m1 # NoM1 /\ m1.at \in Int /\ bar'.at \in Int
<1>30. m1 # NoM1 => /\ Bucket \in Int /\ Bucket + Size >= m1.at + Minute /\ m1.at \in Int /\ m1.low \in Nat /\ m1.high \in Nat
                   /\ \A p \in BOOLEAN : /\ Started(Bucket, m1, p) \in BarSet /\ Started(Bucket, m1, p) # NoBar
                                         /\ Started(Bucket, m1, p).at = Bucket /\ Started(Bucket, m1, p).partial = p
  <2> SUFFICES ASSUME m1 # NoM1, NEW p \in BOOLEAN
               PROVE  /\ Bucket \in Int /\ Bucket + Size >= m1.at + Minute /\ m1.at \in Int /\ m1.low \in Nat /\ m1.high \in Nat
                      /\ Started(Bucket, m1, p) \in BarSet /\ Started(Bucket, m1, p) # NoBar
                      /\ Started(Bucket, m1, p).at = Bucket /\ Started(Bucket, m1, p).partial = p
    OBVIOUS
  <2>1. m1.at \in Int /\ Size \in Int /\ Minute \in Int
    BY <1>0, TypedFacts
  <2> QED BY <1>0, <2>1, StartedIs
<1>4. \/ Same
      \/ StartsBar /\ bar = NoBar /\ queue' = queue /\ Grows(Partial(Bucket, m1.at))
      \/ MergesBar /\ bar # NoBar /\ queue' = queue /\ Grows(bar.partial)
      \/ EndsBar /\ bar # NoBar /\ Grows(FALSE)
  <2>1. CASE NoTick \/ MissedTick \/ FirstTick \/ OneMore
    BY <2>1 DEF NoTick, MissedTick, FirstTick, OneMore
  <2>2. CASE StartsBar
    <3>1. Partial(Bucket, m1.at) \in BOOLEAN
      BY DEF Partial
    <3>2. EndsMinute /\ bar = NoBar /\ queue' = queue /\ m1 # NoM1 /\ bar' = Started(Bucket, m1, Partial(Bucket, m1.at))
      BY <2>2 DEF StartsBar, EndsMinute
    <3>3. Grows(Partial(Bucket, m1.at))
      BY <1>30, <3>1, <3>2
    <3> QED BY <2>2, <3>2, <3>3
  <2>3. CASE MergesBar
    <3>1. EndsMinute /\ bar # NoBar /\ queue' = queue /\ m1 # NoM1 /\ bar.at = Bucket /\ bar' = Merged(bar, m1)
      BY <2>3 DEF MergesBar, EndsMinute
    <3>2. bar \in BarSet /\ m1.low \in Nat /\ m1.high \in Nat /\ Bucket \in Int /\ Bucket + Size >= m1.at + Minute /\ m1.at \in Int
      BY <1>0, <1>30, <3>1, TypedFacts
    <3>3. bar' \in BarSet /\ bar' # NoBar /\ bar'.at = Bucket /\ bar'.partial = bar.partial
      BY <3>1, <3>2, MergedIs
    <3>4. Grows(bar.partial)
      BY <3>1, <3>2, <3>3
    <3> QED BY <2>3, <3>1, <3>4
  <2>4. CASE EndsBar
    <3>1. EndsMinute /\ bar # NoBar /\ m1 # NoM1 /\ bar' = Started(Bucket, m1, FALSE)
      BY <2>4 DEF EndsBar, EndsMinute
    <3>2. Grows(FALSE)
      BY <1>30, <3>1
    <3> QED BY <2>4, <3>1, <3>2
  <2> QED BY <1>0, <2>1, <2>2, <2>3, <2>4 DEF AnyCase
<1>5. OnlyHistory'
  <2> SUFFICES ASSUME bar' = NoBar PROVE (/\ \A n \in DOMAIN queue : queue[n].warmup /\ ~queue[n].partial
                                          /\ \A n \in DOMAIN series : series[n].warmup
                                          /\ Line # <<>> => history = "done")'
    BY DEF OnlyHistory
  <2>1. bar = NoBar /\ queue' = queue /\ series' = series /\ history' = history
    BY <1>0, <1>4 DEF MomentFrame
  <2> QED BY <1>0, <2>1 DEF OnlyHistory, Line
<1>6. PartialFirst'
  <2>1. CASE Same
    BY <1>0, <2>1 DEF PartialFirst
  <2>2. CASE StartsBar /\ bar = NoBar /\ queue' = queue
    BY <1>0, <2>2 DEF PartialFirst, OnlyHistory
  <2>3. CASE bar # NoBar /\ queue' = queue /\ Grows(bar.partial)
    BY <1>0, <2>3 DEF PartialFirst
  <2>4. CASE EndsBar /\ bar # NoBar /\ Grows(FALSE)
    <3> SUFFICES ASSUME NEW n \in DOMAIN queue'
                 PROVE  /\ ~queue'[n].warmup /\ ~queue'[n].partial
                             => ~bar'.partial /\ \A m \in DOMAIN queue' : n < m => ~queue'[m].partial
                        /\ queue'[n].partial => ~queue'[n].warmup
      BY DEF PartialFirst
    <3>1. ~bar'.partial
      BY <2>4
    <3>2. CASE n \in DOMAIN queue /\ queue'[n] = queue[n]
      <4>1. ASSUME ~queue[n].warmup, ~queue[n].partial, NEW m \in DOMAIN queue', n < m PROVE ~queue'[m].partial
        <5>1. ~bar.partial /\ \A k \in DOMAIN queue : n < k => ~queue[k].partial
          BY <1>0, <3>2, <4>1 DEF PartialFirst
        <5> QED BY <1>0, <2>4, <4>1, <5>1, EndsBarQueue
      <4> QED BY <1>0, <3>1, <3>2, <4>1 DEF PartialFirst
    <3>3. CASE queue'[n] = Tagged(bar, FALSE) /\ \A m \in DOMAIN queue' : m <= n
      <4>1. n \in Int /\ \A m \in DOMAIN queue' : m \in Int
        BY <1>1, LineIs, SeqFacts DEF GapsTyped
      <4>2. \A m \in DOMAIN queue' : ~(n < m)
        BY <3>3, <4>1
      <4> QED BY <1>0, <2>4, <3>1, <3>3, <4>2, EndsBarQueue
    <3> QED BY <1>0, <2>4, <3>2, <3>3, EndsBarQueue
  <2> QED BY <1>4, <2>1, <2>2, <2>3, <2>4
<1>7. ToldInTime'
  <2>1. PICK r \in 0..clock : ToldBefore(r)
    BY <1>0 DEF ToldInTime
  <2>2. clock \in Nat /\ clock' = clock + 1 /\ Size \in Nat /\ r \in Nat /\ r <= clock /\ r \in 0..clock'
    BY <1>0, TypedFacts DEF MomentFrame
  <2>30. /\ New \in MinuteSet /\ New.at + Minute > r /\ New.low \in Nat /\ New.high \in Nat /\ Minute \in Nat
         /\ m1 # NoM1 => m1 \in MinuteSet /\ m1.at + Minute > r
    <3>1. New \in MinuteSet /\ clock + 1 < New.at + Minute
      BY <1>0, NewIs DEF MomentFrame
    <3>2. Minute \in Nat /\ (m1 # NoM1 => m1 \in MinuteSet)
      BY <1>0, TypedFacts
    <3> QED BY <2>1, <2>2, <3>1, <3>2 DEF MinuteSet, ToldBefore
  <2>3. m1' # NoM1 => m1'.at + Minute > r
    <3>1. CASE m1' = m1
      BY <2>30, <3>1
    <3>2. CASE m1' = New
      BY <2>30, <3>2
    <3>3. CASE OneMore
      <4>1. m1 # NoM1 /\ m1' = Merged(m1, New)
        BY <3>3 DEF OneMore
      <4>2. m1'.at = m1.at
        BY <2>30, <4>1, TickMerged
      <4> QED BY <2>30, <4>1, <4>2
    <3> QED BY <1>0, <3>1, <3>2, <3>3
            DEF AnyCase, NoTick, MissedTick, FirstTick, StartsBar, MergesBar, EndsBar, EndsMinute
  <2>4. bar' # NoBar => bar'.at + Size > r
    <3>1. CASE Same
      BY <2>1, <3>1 DEF ToldBefore
    <3>2. CASE bar'.at + Size >= m1.at + Minute /\ m1 # NoM1 /\ m1.at \in Int /\ bar'.at \in Int
      <4>1. m1.at + Minute > r /\ Minute \in Int
        BY <2>30, <3>2
      <4>2. PICK a \in Int : a = bar'.at
        BY <3>2
      <4>3. a + Size > r
        BY <2>2, <3>2, <4>1, <4>2
      <4> QED BY <4>2, <4>3
    <3> QED BY <1>4, <3>1, <3>2
  <2>5. \A n \in DOMAIN queue' : ~queue'[n].warmup => queue'[n].at + Size > r
    <3>1. CASE queue' = queue
      BY <2>1, <3>1 DEF ToldBefore
    <3>2. CASE EndsBar /\ bar # NoBar
      <4>1. bar.at + Size > r /\ \A n \in DOMAIN queue : ~queue[n].warmup => queue[n].at + Size > r
        BY <2>1, <3>2 DEF ToldBefore
      <4> SUFFICES ASSUME NEW n \in DOMAIN queue', ~queue'[n].warmup PROVE queue'[n].at + Size > r
        OBVIOUS
      <4>2. CASE n \in DOMAIN queue /\ queue'[n] = queue[n]
        BY <4>1, <4>2
      <4>3. CASE queue'[n] = Tagged(bar, FALSE)
        <5>1. queue'[n].at = bar.at
          BY <1>0, <3>2, <4>3, EndsBarQueue
        <5> QED BY <4>1, <5>1
      <4> QED BY <1>0, <3>2, <4>2, <4>3, EndsBarQueue
    <3> QED BY <1>4, <3>1, <3>2
  <2>6. NoMorePartials => NoMorePartials'
    <3> SUFFICES ASSUME NoMorePartials PROVE NoMorePartials'
      OBVIOUS
    <3>1. bar # NoBar /\ ~bar.partial /\ \A n \in DOMAIN queue : ~queue[n].partial
      BY DEF NoMorePartials
    <3>2. bar' # NoBar /\ ~bar'.partial
      BY <1>4, <3>1
    <3>3. \A n \in DOMAIN queue' : ~queue'[n].partial
      <4>1. CASE queue' = queue
        BY <3>1, <4>1
      <4>2. CASE EndsBar
        <5>1. Tagged(bar, FALSE).partial = bar.partial
          BY <1>0, <4>2, EndsBarQueue
        <5> QED BY <1>0, <3>1, <4>2, <5>1, EndsBarQueue
      <4> QED BY <1>4, <4>1, <4>2
    <3> QED BY <3>2, <3>3 DEF NoMorePartials
  <2>7. told' = told /\ series' = series
    BY <1>0 DEF MomentFrame
  <2>8. ASSUME NEW n \in DOMAIN told, ~told[n].lost
        PROVE  /\ OverNext(told[n].zone.at)
               /\ \/ told[n].zone.at + Size <= r
                  \/ series # <<>> /\ told[n].zone.at <= Last(series).at /\ NoMorePartials'
    <3>1. /\ OverBy(told[n].zone.at)
          /\ \/ told[n].zone.at + Size <= r
             \/ series # <<>> /\ told[n].zone.at <= Last(series).at /\ NoMorePartials
      BY <2>1, <2>8 DEF ToldBefore
    <3>2. told[n].zone.at \in Int
      BY <1>0, ToldAre
    <3>3. OverNext(told[n].zone.at)
      BY <2>2, <3>1, <3>2 DEF OverBy, OverNext
    <3> QED BY <2>6, <3>1, <3>3
  <2>9. ToldBefore(r)'
    BY <2>3, <2>4, <2>5, <2>7, <2>8 DEF ToldBefore, OverBy, OverNext
  <2> QED BY <2>2, <2>9 DEF ToldInTime
<1> QED BY <1>1, <1>2, <1>3, <1>5, <1>6, <1>7 DEF GapsInv

-----------------------------------------------------------------------------
(* The answer *)

\* The bar that forms: what is seeded is not over.
Seed == Last(answer)
\* An answer puts history behind the queue, as far as there is room.
LEMMA WarmupIs ==
    ASSUME GapsConstants, GapsTyped, WarmupDone
    PROVE  /\ GapsTyped'
           /\ history = "asked" /\ history' = "done"
           /\ UNCHANGED <<clock, tape, base, m1, series, zones, told>>
           /\ DOMAIN queue = 1..Len(queue) /\ Len(queue) \in Nat
           /\ \A n \in DOMAIN queue' : \/ n \in DOMAIN queue /\ queue'[n] = queue[n]
                                       \/ n \notin DOMAIN queue /\ queue'[n].warmup /\ ~queue'[n].partial
           /\ ~lost' => ~lost /\ ~Overtaken /\ queue' = queue \o HistoryBars
           /\ \/ ~Forms(answer) /\ bar' = bar /\ offset' = offset /\ joined' = joined
              \/ /\ Forms(answer) /\ offset' = base /\ bar' # NoBar /\ joined' = FALSE
                 /\ Seed \in BarSet /\ ~Seed.partial /\ ~OverBy(Seed.at) /\ Seed.at \in Int
                 /\ bar' = Seeded(Seed, IF offset = base THEN bar ELSE NoBar)
                 /\ \/ bar'.at = Seed.at /\ ~bar'.partial
                    \/ bar' = bar /\ bar # NoBar
<1>1. /\ history = "asked" /\ history' = "done" /\ answer' = <<>> /\ online' = online
      /\ EnqueueBars(HistoryBars, Overtaken)
      /\ UNCHANGED <<clock, tape, base, m1, series, zones, told, faults>>
      /\ \/ /\ Forms(answer) /\ offset' = base /\ joined' = FALSE
            /\ bar' = Seeded(Seed, IF offset = base THEN bar ELSE NoBar)
         \/ ~Forms(answer) /\ bar' = bar /\ offset' = offset /\ joined' = joined
  BY DEF WarmupDone, HistoryComes, HistoryBars, Nothing, Seed
<1>2. /\ answer \in Seq(BarSet) /\ \A n \in DOMAIN answer : ~answer[n].partial
      /\ queue \in Seq(LineBar) /\ Len(queue) <= MaxQueue /\ lost \in BOOLEAN
      /\ bar \in {NoBar} \cup BarSet
  BY DEF GapsTyped
<1>3. /\ HistoryBars \in Seq(LineBar) /\ DOMAIN HistoryBars = DOMAIN Ended(answer)
      /\ \A n \in DOMAIN HistoryBars : HistoryBars[n].partial = Ended(answer)[n].partial /\ HistoryBars[n].warmup
  BY HistoryBarsAre
<1>4. /\ \A n \in DOMAIN Ended(answer) : n \in DOMAIN answer /\ Ended(answer)[n] = answer[n]
      /\ Forms(answer) => Len(answer) \in DOMAIN answer /\ Seed = answer[Len(answer)] /\ Seed \in BarSet
  BY <1>2, OverIs DEF Seed
<1>5. Overtaken \in BOOLEAN
  BY DEF Overtaken
<1>6. /\ queue' \in Seq(LineBar) /\ Len(queue') <= MaxQueue /\ lost' \in BOOLEAN
      /\ \A n \in DOMAIN queue : queue'[n] = queue[n]
      /\ \A n \in DOMAIN queue' : n \notin DOMAIN queue =>
            n - Len(queue) \in DOMAIN HistoryBars /\ queue'[n] = HistoryBars[n - Len(queue)]
      /\ ~lost' => ~lost /\ ~Overtaken /\ queue' = queue \o HistoryBars
  BY <1>1, <1>2, <1>3, <1>5, Enqueued
<1>7. ASSUME NEW n \in DOMAIN queue'
      PROVE  \/ n \in DOMAIN queue /\ queue'[n] = queue[n]
             \/ n \notin DOMAIN queue /\ queue'[n].warmup /\ ~queue'[n].partial
  <2>1. CASE n \in DOMAIN queue
    BY <1>6, <2>1
  <2>2. CASE n \notin DOMAIN queue
    <3>1. n - Len(queue) \in DOMAIN HistoryBars /\ queue'[n] = HistoryBars[n - Len(queue)]
      BY <1>6, <2>2
    <3>2. \A k \in DOMAIN HistoryBars : HistoryBars[k].warmup /\ ~HistoryBars[k].partial
      BY <1>2, <1>3, <1>4
    <3> QED BY <2>2, <3>1, <3>2
  <2> QED BY <2>1, <2>2
<1>8. ASSUME Forms(answer)
      PROVE  /\ Seed \in BarSet /\ ~Seed.partial /\ ~OverBy(Seed.at) /\ Seed.at \in Int /\ bar' \in BarSet /\ bar' # NoBar
             /\ \/ bar'.at = Seed.at /\ ~bar'.partial
                \/ bar' = bar /\ bar # NoBar
  <2>1. Seed \in BarSet /\ ~Seed.partial
    BY <1>2, <1>4, <1>8
  <2>2. ~OverBy(Seed.at) /\ Seed.at \in Int
    BY <1>8, <2>1 DEF Forms, Seed, BarSet
  <2> DEFINE old == IF offset = base THEN bar ELSE NoBar
  <2>3. old \in {NoBar} \cup BarSet /\ bar' = Seeded(Seed, old) /\ (old # NoBar => old = bar)
    BY <1>1, <1>2, <1>8
  <2> HIDE DEF old
  <2>4. bar' \in BarSet /\ bar' # NoBar
    BY <2>1, <2>3, SeededIs
  <2>5. \/ bar'.at = Seed.at /\ ~bar'.partial
        \/ bar' = bar /\ bar # NoBar
    <3>1. CASE old = NoBar
      BY <2>1, <2>3, <3>1, SeededIs
    <3>2. CASE old # NoBar /\ old.at < Seed.at
      BY <2>1, <2>3, <3>2, SeededIs
    <3>3. CASE old # NoBar /\ old.at = Seed.at
      BY <2>1, <2>3, <3>3, SeededIs
    <3>4. CASE old # NoBar /\ old.at > Seed.at
      BY <2>1, <2>3, <3>4, SeededIs
    <3>5. old # NoBar => old.at \in Int
      BY <2>3 DEF BarSet
    <3> QED BY <2>2, <3>1, <3>2, <3>3, <3>4, <3>5
  <2> QED BY <2>1, <2>2, <2>4, <2>5
<1>9. GapsTyped'
  <2>1. /\ bar' \in {NoBar} \cup BarSet /\ offset' \in {0, base'}
        /\ (m1' = NoM1 /\ bar' # NoBar => offset' = base' /\ ~bar'.partial)
        /\ joined' \in BOOLEAN /\ (joined' => m1' # NoM1)
    <3>1. CASE Forms(answer)
      <4>1. m1 = NoM1 => bar = NoBar
        BY <1>1 DEF GapsTyped
      <4>2. m1' = NoM1 => ~bar'.partial
        BY <1>1, <1>8, <3>1, <4>1
      <4> QED BY <1>1, <1>8, <3>1, <4>2
    <3>2. CASE ~Forms(answer)
      BY <1>1, <3>2 DEF GapsTyped
    <3> QED BY <3>1, <3>2
  <2>2. answer' \in Seq(BarSet) /\ \A n \in DOMAIN answer' : ~answer'[n].partial
    BY <1>1
  <2>3. history' \in {"cold", "asked", "done"} /\ online' \in BOOLEAN
    BY <1>1 DEF GapsTyped
  <2>4. m1' # NoM1 => m1'.at <= clock' /\ Full(m1'.at)
    BY <1>1 DEF GapsTyped
  <2> QED BY <1>1, <1>6, <2>1, <2>2, <2>3, <2>4 DEF GapsTyped
<1>10. DOMAIN queue = 1..Len(queue) /\ Len(queue) \in Nat
  BY <1>2, SeqFacts
<1>11. \/ ~Forms(answer) /\ bar' = bar /\ offset' = offset /\ joined' = joined
       \/ /\ Forms(answer) /\ offset' = base /\ bar' # NoBar /\ joined' = FALSE
          /\ Seed \in BarSet /\ ~Seed.partial /\ ~OverBy(Seed.at) /\ Seed.at \in Int
          /\ bar' = Seeded(Seed, IF offset = base THEN bar ELSE NoBar)
          /\ \/ bar'.at = Seed.at /\ ~bar'.partial
             \/ bar' = bar /\ bar # NoBar
  BY <1>1, <1>8
<1> QED BY <1>1, <1>6, <1>7, <1>9, <1>10, <1>11

\* What an answer that nothing has overtaken brings: the broker's bars that are over, all of them.
AllOver(s) == /\ \A n \in DOMAIN s : s[n] = BarOf(s[n].at, quotes) /\ s[n].at \in Starts(quotes) /\ OverBy(s[n].at)
              /\ \A i, j \in DOMAIN s : i < j => s[i].at < s[j].at
              /\ \A x \in Starts(quotes) : OverBy(x) => \E n \in DOMAIN s : s[n].at = x
\* An answer that was not overtaken has all bars that are over.
LEMMA AnswerIsAllOver ==
    ASSUME GapsConstants, GapsTyped, ~Overtaken
    PROVE  AllOver(Ended(answer))
<1> DEFINE now == BrokerBars(quotes)
<1>1. /\ tape \in Seq(Nat) /\ clock \in Nat /\ clock \in 0..Len(tape) /\ base \in Int
      /\ quotes = SubSeq(tape, 1, clock) /\ clock \in 0..clock
  BY TypedFacts
<1>2. quotes \in Seq(Nat) /\ Len(quotes) = clock
  BY <1>1, QuotesAre
<1>3. AreBarsOf(now, quotes, clock)
  BY <1>1, <1>2, BrokerBarsAre
<1>4. Ended(answer) = Ended(now)
  BY DEF Overtaken
<1> HIDE DEF now
<1>5. AreBarsOf(now, SubSeq(tape, 1, clock), clock)
  BY <1>1, <1>3
<1>6. /\ \A n \in DOMAIN Ended(now) : OverBy(Ended(now)[n].at)
      /\ \A k \in 1..clock : tape[k] # 0 /\ OverBy(StartFor(k, base))
            => \E n \in DOMAIN Ended(now) : Ended(now)[n].at = StartFor(k, base)
  BY <1>1, <1>5, OverAre
<1>7. now \in Seq(BarSet) /\ \A n \in DOMAIN Ended(now) : n \in DOMAIN now /\ Ended(now)[n] = now[n]
  BY <1>3, OverIs DEF AreBarsOf
<1>8. \A k \in 1..clock : quotes[k] = tape[k]
  BY <1>1, QuotesAre
<1>9. \A n \in DOMAIN now : now[n] = BarOf(now[n].at, quotes) /\ now[n].at \in Starts(quotes)
  <2> SUFFICES ASSUME NEW n \in DOMAIN now PROVE now[n] = BarOf(now[n].at, quotes) /\ now[n].at \in Starts(quotes)
    OBVIOUS
  <2>1. now[n] = BarOf(now[n].at, quotes)
    BY <1>3 DEF AreBarsOf
  <2>2. PICK k \in 1..clock : quotes[k] # 0 /\ now[n].at = StartFor(k, base)
    BY <1>3 DEF AreBarsOf
  <2>3. now[n].at \in Starts(SubSeq(tape, 1, clock))
    BY <1>1, <1>8, <2>2, StartsAre
  <2> QED BY <1>1, <2>1, <2>3
<1>10. \A i, j \in DOMAIN now : i < j => now[i].at < now[j].at
  BY <1>3 DEF AreBarsOf
<1>11. \A x \in Starts(quotes) : OverBy(x) => \E n \in DOMAIN Ended(now) : Ended(now)[n].at = x
  <2> SUFFICES ASSUME NEW x \in Starts(quotes), OverBy(x) PROVE \E n \in DOMAIN Ended(now) : Ended(now)[n].at = x
    OBVIOUS
  <2>1. PICK k \in 1..clock : tape[k] # 0 /\ x = StartFor(k, base)
    BY <1>1, StartsAre
  <2> QED BY <1>6, <2>1
<1>12. AllOver(Ended(now))
  BY <1>6, <1>7, <1>9, <1>10, <1>11 DEF AllOver
<1> QED BY <1>4, <1>12

\* The bar that forms has the prices of its bucket until the answer was made.
LEMMA SeedIs ==
    ASSUME GapsConstants, GapsTyped, NEW t \in 0..clock, MadeAt(t), Forms(answer)
    PROVE  /\ Seed \in BarSet /\ Seed.at \in Starts(quotes) /\ Seed.at \in Int /\ clock < Seed.at + Size
           /\ Occurs(Seed.low, Seed.at) /\ Occurs(Seed.high, Seed.at)
           /\ \A n \in 1..t : Quote(n) /\ Seed.at <= n => tape[n] \in Seed.low..Seed.high
<1> DEFINE q == SubSeq(tape, 1, t)
<1>1. /\ tape \in Seq(Nat) /\ clock \in Nat /\ clock \in 0..Len(tape) /\ base \in Int /\ Size \in Nat
      /\ quotes = SubSeq(tape, 1, clock) /\ Len(tape) \in Nat
  BY TypedFacts
<1>2. t \in 0..Len(tape) /\ t \in Nat /\ t <= clock
  BY <1>1
<1>3. q \in Seq(Nat) /\ Len(q) = t /\ \A n \in 1..t : q[n] = tape[n]
  BY <1>1, <1>2, QuotesAre
<1>4. answer = BrokerBars(q)
  BY DEF MadeAt
<1>5. AreBarsOf(answer, q, t)
  BY <1>1, <1>3, <1>4, BrokerBarsAre
<1> HIDE DEF q
<1>6. answer \in Seq(BarSet) /\ Len(answer) \in DOMAIN answer /\ Seed = answer[Len(answer)] /\ Seed \in BarSet
  BY OverIs DEF GapsTyped, Seed
<1>7. Seed = BarOf(Seed.at, q) /\ \E k \in 1..t : q[k] # 0 /\ Seed.at = StartFor(k, base)
  BY <1>5, <1>6 DEF AreBarsOf
<1>8. PICK k \in 1..t : tape[k] # 0 /\ Seed.at = StartFor(k, base)
  BY <1>3, <1>7
<1>9. k \in 1..clock /\ k \in Int
  BY <1>1, <1>2
<1>10. Seed.at \in Starts(quotes)
  BY <1>1, <1>8, <1>9, StartsAre
<1>11. Seed.at \in Int /\ Seed.at <= k /\ k < Seed.at + Size
  BY <1>1, <1>8, <1>9, InBucket
<1>12. clock < Seed.at + Size
  BY <1>1, <1>11 DEF Forms, OverBy, Seed
<1>13. \A x : x \in In(Seed.at, q)
                <=> \E n \in 1..t : tape[n] # 0 /\ Seed.at <= n /\ n < Seed.at + Size /\ tape[n] = x
  BY <1>1, <1>2, InIs DEF q
<1>14. In(Seed.at, q) # {}
  BY <1>8, <1>11, <1>13
<1>15. /\ Seed.low \in In(Seed.at, q) /\ Seed.high \in In(Seed.at, q)
       /\ \A x \in In(Seed.at, q) : Seed.low <= x /\ x <= Seed.high
  BY <1>3, <1>7, <1>11, <1>14, BarOfIs
<1>16. \A n \in 1..t : n \in 1..clock /\ (tape[n] # 0 <=> Quote(n)) /\ n < Seed.at + Size
  <2> SUFFICES ASSUME NEW n \in 1..t PROVE n \in 1..clock /\ (tape[n] # 0 <=> Quote(n)) /\ n < Seed.at + Size
    OBVIOUS
  <2>1. n \in 1..clock /\ n <= clock /\ n \in Int
    BY <1>1, <1>2
  <2>2. n < Seed.at + Size
    BY <1>1, <1>11, <1>12, <2>1
  <2> QED BY <2>1, <2>2 DEF Quote
<1>17. \A p \in In(Seed.at, q) : Occurs(p, Seed.at)
  BY <1>13, <1>16 DEF Occurs
<1>18. ASSUME NEW n \in 1..t, Quote(n), Seed.at <= n PROVE tape[n] \in Seed.low..Seed.high
  <2>1. tape[n] \in In(Seed.at, q)
    BY <1>13, <1>16, <1>18
  <2>2. tape[n] \in Nat /\ Seed.low \in Nat /\ Seed.high \in Nat
    <3>1. n \in 1..Len(tape)
      BY <1>1, <1>2
    <3> QED BY <1>1, <1>6, <3>1, SMTT(30) DEF BarSet
  <2> QED BY <1>15, <2>1, <2>2
<1> QED BY <1>6, <1>10, <1>11, <1>12, <1>15, <1>17, <1>18

\* The seed makes the bar of ticks whole, and aligns it.
LEMMA WarmupBar ==
    ASSUME GapsConstants, GapsInv, WarmupDone, ~lost'
    PROVE  BarIsCurrent'
<1>0. /\ GapsTyped /\ history = "asked" /\ UNCHANGED <<clock, tape, base, m1>> /\ ~lost /\ ~Overtaken
      /\ \/ ~Forms(answer) /\ bar' = bar /\ offset' = offset /\ joined' = joined
         \/ /\ Forms(answer) /\ offset' = base /\ bar' # NoBar /\ joined' = FALSE
            /\ Seed \in BarSet /\ ~Seed.partial
            /\ bar' = Seeded(Seed, IF offset = base THEN bar ELSE NoBar)
  BY WarmupIs DEF GapsInv
<1>1. LastIsSeen /\ BarIsCurrent /\ AnswerIsCurrent
  BY <1>0 DEF GapsInv, NothingMissed
<1>2. PICK t \in 0..clock : MadeAt(t)
  BY <1>0, <1>1 DEF AnswerIsCurrent
<1>3. /\ clock \in Nat /\ t \in Int /\ Size \in Nat /\ base \in Int /\ quotes' = quotes /\ Seen' = Seen
      /\ tape \in Seq(Nat) /\ clock \in 0..Len(tape) /\ quotes = SubSeq(tape, 1, clock)
      /\ \A n : Quote(n) => n \in 1..clock /\ n \in Int /\ n <= clock /\ tape[n] \in Nat
  <2>1. /\ clock \in Nat /\ Size \in Nat /\ base \in Int /\ tape \in Seq(Nat) /\ clock \in 0..Len(tape)
        /\ quotes = SubSeq(tape, 1, clock)
    BY <1>0, TypedFacts
  <2>2. \A n : Quote(n) => n \in 1..clock /\ n \in Int /\ n <= clock /\ tape[n] \in Nat
    BY <2>1, QuotesAre DEF Quote
  <2> QED BY <1>0, <2>1, <2>2 DEF quotes, Seen
\* What is to be shown, of the next bar.
<1> DEFINE Good(b) == /\ b.at \in Starts(quotes) /\ Occurs(b.low, b.at) /\ Occurs(b.high, b.at)
                      /\ \A n \in 1..clock : Quote(n) /\ n < Seen => n < b.at + Size
                      /\ ~b.partial /\ ~joined' => Within(b, 0)
<1>4. (bar' # NoBar /\ offset' = base => Good(bar')) => BarIsCurrent'
  BY <1>0, <1>3 DEF BarIsCurrent, Starts, Occurs, Within, Quote
<1>5. CASE ~Forms(answer)
  <2>1. bar # NoBar /\ offset = base => Good(bar)
    BY <1>0, <1>1, <1>5 DEF BarIsCurrent
  <2> QED BY <1>0, <1>4, <1>5, <2>1
<1>6. CASE Forms(answer)
  <2>1. /\ Seed \in BarSet /\ Seed.at \in Starts(quotes) /\ Seed.at \in Int /\ clock < Seed.at + Size
        /\ Occurs(Seed.low, Seed.at) /\ Occurs(Seed.high, Seed.at)
        /\ \A n \in 1..t : Quote(n) /\ Seed.at <= n => tape[n] \in Seed.low..Seed.high
    BY <1>0, <1>2, <1>6, SeedIs
  <2>2. \A n \in 1..clock : n < Seed.at + Size
    BY <1>3, <2>1
  <2>3. Seen \in Int
    BY <1>0, <1>3, TypedFacts DEF Seen
  <2>4. ASSUME bar = NoBar, NEW n \in 1..clock, Quote(n), n < Seen PROVE n \in 1..t
    <3>1. ~(t < n)
      BY <1>2, <1>3, <2>3, <2>4 DEF MadeAt
    <3> QED BY <1>3, <3>1
  <2>5. ASSUME bar' = Seed, \A n \in 1..clock : Quote(n) /\ Seed.at <= n /\ n < Seen => tape[n] \in Seed.low..Seed.high
        PROVE  Good(bar')
    BY <2>1, <2>2, <2>5 DEF Within
  <2>6. CASE offset # base
    <3>1. bar' = Seed
      <4>1. NoBar \in {NoBar} \cup BarSet
        OBVIOUS
      <4>2. bar' = Seeded(Seed, NoBar)
        BY <1>0, <1>6, <2>6
      <4> QED BY <2>1, <4>1, <4>2, SeededIs
    <3>2. CASE m1 = NoM1
      <4>1. bar = NoBar
        BY <1>0, <2>6, <3>2 DEF GapsTyped
      <4> QED BY <1>4, <2>1, <2>4, <2>5, <3>1, <4>1
    <3>3. CASE m1 # NoM1
      <4>1. Covers(Seed, m1.at)
        BY <1>0, <1>6, <2>6, <3>3 DEF Overtaken, Seed
      <4>2. \A n \in 1..clock : n \in DOMAIN quotes /\ quotes[n] = tape[n]
        BY <1>3, QuotesAre
      <4>3. ASSUME NEW n \in 1..clock, Quote(n), Seed.at <= n, n < Seen PROVE tape[n] \in Seed.low..Seed.high
        <5>1. n < m1.at /\ quotes[n] # 0
          BY <3>3, <4>2, <4>3 DEF Seen, Quote
        <5> QED BY <4>1, <4>2, <4>3, <5>1 DEF Covers
      <4> QED BY <1>4, <2>5, <3>1, <4>3
    <3> QED BY <3>2, <3>3
  <2>7. CASE offset = base
    <3>0. bar \in {NoBar} \cup BarSet /\ bar' = Seeded(Seed, bar)
      BY <1>0, <1>6, <2>7 DEF GapsTyped
    <3>1. CASE bar = NoBar
      <4>1. bar' = Seed
        BY <2>1, <3>0, <3>1, SeededIs
      <4> QED BY <1>4, <2>1, <2>4, <2>5, <3>1, <4>1
    <3>2. ASSUME bar # NoBar
          PROVE  /\ bar \in BarSet /\ bar.at \in Starts(quotes) /\ bar.at \in Int /\ bar.at <= clock
                 /\ Occurs(bar.low, bar.at) /\ Occurs(bar.high, bar.at)
                 /\ \A n \in 1..clock : Quote(n) /\ n < Seen => n < bar.at + Size
                 /\ Within(bar, t)
      <4>1. /\ bar \in BarSet /\ bar.at \in Starts(quotes)
            /\ Occurs(bar.low, bar.at) /\ Occurs(bar.high, bar.at)
            /\ \A n \in 1..clock : Quote(n) /\ n < Seen => n < bar.at + Size
        BY <1>1, <2>7, <3>0, <3>2 DEF BarIsCurrent
      <4>2. bar.at \in Int /\ bar.at <= clock
        BY <1>3, <4>1, StartHasBar
      <4> QED BY <1>2, <2>7, <3>2, <4>1, <4>2 DEF MadeAt
    <3>3. CASE bar # NoBar /\ bar.at < Seed.at
      <4>1. bar' = Seed
        BY <2>1, <3>0, <3>3, SeededIs
      <4>2. PICK k \in 1..clock : tape[k] # 0 /\ bar.at = StartFor(k, base)
        BY <1>3, <3>2, <3>3, StartsAre
      <4>3. PICK l \in 1..clock : tape[l] # 0 /\ Seed.at = StartFor(l, base)
        BY <1>3, <2>1, StartsAre
      <4>4. StartFor(k, base) < StartFor(l, base) /\ k \in Int /\ l \in Int
        BY <3>3, <4>2, <4>3
      <4>5. bar.at + Size <= Seed.at
        BY <1>3, <4>2, <4>3, <4>4, BucketsApart
      <4>6. ASSUME NEW n \in 1..clock, Quote(n), Seed.at <= n, n < Seen PROVE FALSE
        <5>1. n < bar.at + Size
          BY <3>2, <3>3, <4>6
        <5> QED BY <1>3, <2>1, <3>2, <3>3, <4>5, <4>6, <5>1
      <4> QED BY <1>4, <2>5, <4>1, <4>6
    <3>4. CASE bar # NoBar /\ bar.at = Seed.at
      <4>1. /\ bar'.at = Seed.at /\ ~bar'.partial
            /\ bar'.low = Least(bar.low, Seed.low) /\ bar'.high = Most(bar.high, Seed.high)
        BY <2>1, <3>0, <3>4, SeededIs
      <4>2. bar.low \in Nat /\ bar.high \in Nat /\ Seed.low \in Nat /\ Seed.high \in Nat
        BY <2>1, <3>2, <3>4 DEF BarSet
      <4>3. (bar'.low = bar.low \/ bar'.low = Seed.low) /\ (bar'.high = bar.high \/ bar'.high = Seed.high)
        BY <4>1 DEF Least, Most
      <4>4. Occurs(bar'.low, bar'.at) /\ Occurs(bar'.high, bar'.at)
        <5>1. /\ Occurs(bar.low, Seed.at) /\ Occurs(bar.high, Seed.at)
              /\ Occurs(Seed.low, Seed.at) /\ Occurs(Seed.high, Seed.at)
          BY <2>1, <3>2, <3>4
        <5> QED BY <4>1, <4>3, <5>1
      <4>5. ASSUME NEW n \in 1..clock, Quote(n), Seed.at <= n, n < Seen PROVE tape[n] \in bar'.low..bar'.high
        <5>1. tape[n] \in Seed.low..Seed.high \/ tape[n] \in bar.low..bar.high
          <6>1. CASE n \in 1..t
            BY <2>1, <4>5, <6>1
          <6>2. CASE t < n
            BY <3>2, <3>4, <4>5, <6>2 DEF Within
          <6> QED BY <1>3, <6>1, <6>2
        <5>2. tape[n] \in Nat
          BY <1>3, <4>5
        <5> QED BY <4>1, <4>2, <5>1, <5>2 DEF Least, Most
      <4>6. Good(bar')
        BY <2>1, <2>2, <4>1, <4>4, <4>5 DEF Within
      <4> QED BY <1>4, <4>6
    <3>5. CASE bar # NoBar /\ bar.at > Seed.at
      <4>1. PICK k \in 1..clock : tape[k] # 0 /\ bar.at = StartFor(k, base)
        BY <1>3, <3>2, <3>5, StartsAre
      <4>2. PICK l \in 1..clock : tape[l] # 0 /\ Seed.at = StartFor(l, base)
        BY <1>3, <2>1, StartsAre
      <4>3. StartFor(l, base) < StartFor(k, base) /\ k \in Int /\ l \in Int
        BY <2>1, <3>2, <3>5, <4>1, <4>2
      <4>4. Seed.at + Size <= bar.at
        BY <1>3, <4>1, <4>2, <4>3, BucketsApart
      <4> QED BY <1>3, <2>1, <3>2, <3>5, <4>4
    <3> QED BY <2>1, <3>1, <3>2, <3>3, <3>4, <3>5
  <2> QED BY <2>6, <2>7
<1> QED BY <1>5, <1>6

\* What the running minute lacks is in the seed: the broker's bar of its bucket.
LEMMA WarmupLast ==
    ASSUME GapsConstants, GapsInv, WarmupDone, ~lost'
    PROVE  LastIsSeen'
<1>0. /\ GapsTyped /\ history = "asked" /\ UNCHANGED <<clock, tape, base, m1>> /\ ~lost
      /\ \/ ~Forms(answer) /\ bar' = bar /\ offset' = offset /\ joined' = joined
         \/ /\ Forms(answer) /\ offset' = base /\ bar' # NoBar
            /\ bar' = Seeded(Seed, IF offset = base THEN bar ELSE NoBar)
  BY WarmupIs DEF GapsInv
<1>1. LastIsSeen /\ BarIsCurrent /\ AnswerIsCurrent
  BY <1>0 DEF GapsInv, NothingMissed
<1>2. PICK t \in 0..clock : MadeAt(t)
  BY <1>0, <1>1 DEF AnswerIsCurrent
<1> SUFFICES ASSUME m1 # NoM1 PROVE LastIsSeen'
  BY <1>0 DEF LastIsSeen
<1>3. CASE ~Forms(answer)
  BY <1>0, <1>1, <1>3 DEF LastIsSeen, AllHeld, Held, BarHas, InMinute, Quote, StartFor
<1>4. CASE Forms(answer)
  <2> DEFINE S == StartFor(m1.at, base)
  <2>1. /\ clock \in Nat /\ t \in Int /\ Size \in Nat /\ base \in Int /\ tape \in Seq(Nat)
        /\ clock \in 0..Len(tape) /\ quotes = SubSeq(tape, 1, clock) /\ Minute \in Nat
    BY <1>0, TypedFacts
  <2>2. /\ m1.at \in Int /\ m1.at <= clock /\ S \in Int
        /\ \A n : Quote(n) => /\ n \in 1..clock /\ n \in Int /\ tape[n] \in Nat
                              /\ StartFor(n, base) <= S
                              /\ m1.at <= n => StartFor(n, base) = S
    <3>1. m1.at \in 0..clock
      BY <1>0, <1>1, RunningIs
    <3>2. m1.at \in Int /\ m1.at <= clock
      BY <2>1, <3>1
    <3> QED BY <1>0, <1>1, <3>2, RunningIs
  <2>3. /\ Seed \in BarSet /\ Seed.at \in Starts(quotes) /\ Seed.at \in Int /\ clock < Seed.at + Size
        /\ \A n \in 1..t : Quote(n) /\ Seed.at <= n => tape[n] \in Seed.low..Seed.high
    BY <1>0, <1>2, <1>4, SeedIs
  <2>4. \A x \in Starts(quotes) : x \in Int /\ x <= S
    <3> SUFFICES ASSUME NEW x \in Starts(quotes) PROVE x \in Int /\ x <= S
      OBVIOUS
    <3>1. PICK k \in 1..clock : tape[k] # 0 /\ x = StartFor(k, base)
      BY <2>1, StartsAre
    <3>2. Quote(k) /\ StartFor(k, base) \in Int
      BY <2>1, <3>1, InBucket DEF Quote
    <3> QED BY <2>2, <3>1, <3>2
  <2>5. Seed.at = S
    <3>1. PICK k \in 1..clock : tape[k] # 0 /\ Seed.at = StartFor(k, base)
      BY <2>1, <2>3, StartsAre
    <3>2. k \in Int
      OBVIOUS
    <3>3. Seed.at < S => Seed.at + Size <= S
      BY <2>1, <2>2, <3>1, <3>2, BucketsApart
    <3>4. S <= m1.at
      BY <2>1, <2>2, InBucket
    <3>5. ~(Seed.at < S)
      BY <2>1, <2>2, <2>3, <3>3, <3>4
    <3> QED BY <2>2, <2>3, <2>4, <3>5
  <2> HIDE DEF S
  <2> DEFINE old == IF offset = base THEN bar ELSE NoBar
  <2>6. bar' = Seeded(Seed, old) /\ old \in {NoBar} \cup BarSet /\ bar' # NoBar /\ offset' = base
    BY <1>0, <1>4 DEF GapsTyped
  <2>7. old # NoBar => old = bar /\ offset = base /\ bar.at \in Starts(quotes)
    BY <1>1 DEF BarIsCurrent
  <2> HIDE DEF old
  <2>8. /\ bar'.at = Seed.at
        /\ \A p \in Nat : p \in Seed.low..Seed.high => p \in bar'.low..bar'.high
    <3>1. CASE old = NoBar
      BY <2>3, <2>6, <3>1, SeededIs
    <3>2. CASE old # NoBar /\ old.at < Seed.at
      BY <2>3, <2>6, <3>2, SeededIs
    <3>3. CASE old # NoBar /\ old.at = Seed.at
      <4>1. /\ bar'.at = Seed.at
            /\ bar'.low = Least(old.low, Seed.low) /\ bar'.high = Most(old.high, Seed.high)
        BY <2>3, <2>6, <3>3, SeededIs
      <4>2. old.low \in Nat /\ old.high \in Nat /\ Seed.low \in Nat /\ Seed.high \in Nat
        BY <2>3, <2>6, <3>3 DEF BarSet
      <4>3. /\ Least(old.low, Seed.low) \in Nat /\ Least(old.low, Seed.low) <= Seed.low
            /\ Most(old.high, Seed.high) \in Nat /\ Seed.high <= Most(old.high, Seed.high)
        BY <4>2 DEF Least, Most
      <4>4. \A p \in Nat : p \in Seed.low..Seed.high
                  => p \in Least(old.low, Seed.low)..Most(old.high, Seed.high)
        BY <4>2, <4>3
      <4> QED BY <4>1, <4>4
    <3>4. ~(old # NoBar /\ old.at > Seed.at)
      BY <2>2, <2>4, <2>5, <2>7
    <3>5. old # NoBar => old.at \in Int
      BY <2>6 DEF BarSet
    <3> QED BY <2>3, <3>1, <3>2, <3>3, <3>4, <3>5
  <2>9. ASSUME NEW n \in 1..clock, Quote(n), m1.at <= n
        PROVE  \/ tape[n] \in m1.low..m1.high
               \/ bar'.at = S /\ tape[n] \in bar'.low..bar'.high
    <3>1. CASE t < n
      BY <1>2, <2>9, <3>1 DEF MadeAt
    <3>2. CASE n <= t
      <4>1. n \in Int /\ tape[n] \in Nat /\ StartFor(n, base) = S
        BY <2>2, <2>9
      <4>2. Seed.at <= n
        BY <2>1, <2>5, <4>1, InBucket
      <4>3. n \in 1..t
        BY <2>1, <3>2, <4>1
      <4> QED BY <2>3, <2>5, <2>8, <2>9, <4>1, <4>2, <4>3
    <3> QED BY <2>1, <2>2, <2>9, <3>1, <3>2
  <2>10. AllHeld'
    BY <1>0, <2>6, <2>9 DEF AllHeld, Held, BarHas, Quote, S, StartFor
  <2>11. /\ \A n \in 1..clock : Quote(n) => n < m1.at + Minute
         /\ InMinute(m1.low) /\ InMinute(m1.high)
    BY <1>1 DEF LastIsSeen
  <2> QED BY <1>0, <2>10, <2>11 DEF LastIsSeen, Quote, InMinute
<1> QED BY <1>3, <1>4

\* One sequence behind another.
LEMMA ConcatFacts ==
    ASSUME NEW S, NEW s \in Seq(S), NEW t \in Seq(S)
    PROVE  /\ s \o t \in Seq(S) /\ Len(s \o t) = Len(s) + Len(t) /\ DOMAIN (s \o t) = 1..(Len(s) + Len(t))
           /\ \A n \in 1..Len(s) : (s \o t)[n] = s[n]
           /\ \A n \in 1..Len(t) : (s \o t)[Len(s) + n] = t[n]
<1>1. Len(s) \in Nat /\ Len(t) \in Nat
  OBVIOUS
<1>2. s \o t \in Seq(S) /\ Len(s \o t) = Len(s) + Len(t)
  OBVIOUS
<1>3. \A n \in 1..Len(s) : (s \o t)[n] = s[n]
  OBVIOUS
<1>4. ASSUME NEW n \in 1..Len(t) PROVE (s \o t)[Len(s) + n] = t[n]
  <2>1. Len(s) + n \in 1..(Len(s) + Len(t)) /\ Len(s) + n > Len(s) /\ (Len(s) + n) - Len(s) = n
    BY <1>1
  <2>2. (s \o t)[Len(s) + n] = t[(Len(s) + n) - Len(s)]
    BY <1>1, <2>1
  <2> QED BY <2>1, <2>2
<1> QED BY <1>2, <1>3, <1>4, SeqFacts

\* History comes behind what waits, without a gap, and the bar of ticks behind both.
LEMMA WarmupLine ==
    ASSUME GapsConstants, GapsInv, WarmupDone, ~lost'
    PROVE  WholeIn(series)' /\ WholeIn(queue)' /\ Gapless(Line)' /\ NextFollows'
<1> DEFINE C == Ended(answer)
           L == Len(Line)
           c == Len(C)
<1>0. /\ GapsTyped /\ GapsTyped' /\ history = "asked" /\ UNCHANGED <<clock, tape, base, m1, series>>
      /\ ~lost /\ ~Overtaken /\ queue' = queue \o HistoryBars
      /\ (~Forms(answer) /\ bar' = bar /\ offset' = offset) \/ (Forms(answer) /\ bar' # NoBar)
  BY WarmupIs DEF GapsInv
<1>1. /\ LastIsSeen /\ BarIsCurrent /\ AnswerIsCurrent /\ WholeIn(series) /\ WholeIn(queue)
      /\ Gapless(Line) /\ NextFollows
  BY <1>0 DEF GapsInv, NothingMissed
<1>2. AllOver(C)
  BY <1>0, AnswerIsAllOver
<1>3. /\ clock \in Nat /\ Size \in Nat \ {0} /\ base \in Int /\ tape \in Seq(Nat) /\ clock \in 0..Len(tape)
      /\ quotes = SubSeq(tape, 1, clock) /\ quotes' = quotes /\ Seen' = Seen
  BY <1>0, TypedFacts DEF quotes, Seen
<1>4. \A x \in Starts(quotes) : x \in Int /\ x <= clock
  BY <1>3, StartHasBar
<1>5. /\ HistoryBars \in Seq(LineBar) /\ Len(HistoryBars) = c /\ DOMAIN C = 1..c /\ c \in Nat
      /\ \A n \in 1..c : /\ HistoryBars[n] = Tagged(C[n], TRUE) /\ HistoryBars[n].at = C[n].at
                         /\ ~HistoryBars[n].partial /\ HistoryBars[n].warmup /\ C[n].at \in Int
  <2>1. answer \in Seq(BarSet) /\ \A n \in DOMAIN answer : ~answer[n].partial
    BY <1>0 DEF GapsTyped
  <2>2. C \in Seq(BarSet) /\ \A n \in DOMAIN C : ~C[n].partial
    BY <2>1, OverIs
  <2>3. DOMAIN C = 1..c /\ c \in Nat
    BY <2>2, SeqFacts
  <2>4. \A n \in DOMAIN C : C[n].at \in Int
    BY <1>2, <1>4 DEF AllOver
  <2> QED BY <1>0, <2>2, <2>3, <2>4, HistoryBarsAre
<1> HIDE DEF C
<1>6. /\ Line \in Seq(LineBar) /\ L \in Nat /\ DOMAIN Line = 1..L
      /\ series \in Seq(LineBar) /\ queue \in Seq(LineBar)
  BY <1>0, LineIs DEF GapsTyped
<1>7. /\ Line' = Line \o HistoryBars
      /\ Line' \in Seq(LineBar) /\ Len(Line') = L + c /\ DOMAIN Line' = 1..(L + c)
      /\ \A n \in 1..L : Line'[n] = Line[n]
      /\ \A j \in 1..c : Line'[L + j] = HistoryBars[j]
  <2>1. series \o (queue \o HistoryBars) = (series \o queue) \o HistoryBars
    BY <1>5, <1>6, SMTT(30)
  <2>2. Line' = Line \o HistoryBars
    BY <1>0, <2>1 DEF Line
  <2> HIDE DEF L, c
  <2>3. L = Len(Line) /\ Len(HistoryBars) = c
    BY <1>5 DEF L
  <2>4. Line \in Seq(LineBar) /\ HistoryBars \in Seq(LineBar)
    BY <1>5, <1>6
  <2> DEFINE t == Line \o HistoryBars
  <2>5. /\ t \in Seq(LineBar) /\ Len(t) = Len(Line) + Len(HistoryBars)
        /\ DOMAIN t = 1..(Len(Line) + Len(HistoryBars))
        /\ \A n \in 1..Len(Line) : t[n] = Line[n]
        /\ \A n \in 1..Len(HistoryBars) : t[Len(Line) + n] = HistoryBars[n]
    <3> DEFINE h == HistoryBars
    <3>1. Line \in Seq(LineBar) /\ h \in Seq(LineBar)
      BY <2>4
    <3> HIDE DEF h
    <3>2. /\ Line \o h \in Seq(LineBar) /\ Len(Line \o h) = Len(Line) + Len(h)
          /\ DOMAIN (Line \o h) = 1..(Len(Line) + Len(h))
      BY <3>1, ConcatFacts, Zenon
    <3>3. \A n \in 1..Len(Line) : (Line \o h)[n] = Line[n]
      BY <3>1, ConcatFacts, Zenon
    <3>4. \A n \in 1..Len(h) : (Line \o h)[Len(Line) + n] = h[n]
      BY <3>1, ConcatFacts, SMT
    <3> QED BY <3>2, <3>3, <3>4 DEF h
  <2>6. Line' = t
    BY <2>2
  <2> HIDE DEF t
  <2> QED BY <2>2, <2>3, <2>5, <2>6
<1> HIDE DEF L, c
<1>8. ASSUME NEW n \in Int, NEW i \in 1..c, L + i < n, n <= L + c + 1
      PROVE  Reaches(Line', n, C[i].at)
  <2>1. i \in Int /\ L + i \in 1..(n - 1)
    BY <1>5, <1>6, <1>8
  <2>2. ASSUME NEW k \in (L + i)..(n - 1) PROVE ~Line'[k].partial
    <3>1. k - L \in 1..c /\ L + (k - L) = k
      BY <1>5, <1>6, <1>8, <2>1, SMTT(30)
    <3>2. Line'[k] = HistoryBars[k - L]
      BY <1>7, <3>1
    <3> QED BY <1>5, <3>1, <3>2
  <2>3. Line'[L + i].at = C[i].at
    <3>1. Line'[L + i] = HistoryBars[i]
      BY <1>7
    <3>2. HistoryBars[i].at = C[i].at
      BY <1>5
    <3> QED BY <3>1, <3>2, Zenon
  <2>4. C[i].at <= Line'[L + i].at
    <3>1. C[i].at \in Int
      BY <1>5
    <3>2. C[i].at <= C[i].at
      BY <3>1
    <3> QED BY <2>3, <3>2, Zenon
  <2> QED BY <2>1, <2>2, <2>4 DEF Reaches
<1>9. ASSUME NEW x \in Starts(quotes), OverBy(x) PROVE \E i \in 1..c : C[i].at = x
  BY <1>2, <1>5, <1>9 DEF AllOver
<1>10. WholeIn(queue)'
  <2>1. \A n \in DOMAIN queue : ~queue[n].partial => Whole(queue[n])
    BY <1>1, WholeIs
  <2>2. ASSUME NEW j \in 1..c PROVE Whole(HistoryBars[j])
    <3>1. /\ HistoryBars[j] = Tagged(C[j], TRUE) /\ HistoryBars[j].at = C[j].at
          /\ HistoryBars[j].warmup = TRUE
      <4>1. HistoryBars[j] = Tagged(C[j], TRUE) /\ HistoryBars[j].at = C[j].at
        BY <1>5
      <4>2. Tagged(C[j], TRUE).warmup = TRUE
        BY DEF Tagged
      <4> QED BY <4>1, <4>2, Zenon
    <3>2. C[j] = BarOf(C[j].at, quotes) /\ C[j].at \in Starts(quotes) /\ OverBy(C[j].at)
      BY <1>2, <1>5 DEF AllOver
    <3> QED BY <3>1, <3>2, Zenon DEF Whole
  <2>3. \A n \in DOMAIN queue' : ~queue'[n].partial => Whole(queue'[n])
    <3> SUFFICES ASSUME NEW n \in DOMAIN queue', ~queue'[n].partial PROVE Whole(queue'[n])
      OBVIOUS
    <3>1. DOMAIN queue = 1..Len(queue) /\ Len(queue) \in Nat /\ queue' = queue \o HistoryBars
      BY <1>0, <1>6, SeqFacts
    <3>2. DOMAIN queue' = 1..(Len(queue) + c)
      <4>1. DOMAIN (queue \o HistoryBars) = 1..(Len(queue) + Len(HistoryBars))
        <5>1. queue \in Seq(LineBar) /\ HistoryBars \in Seq(LineBar)
          BY <1>5, <1>6
        <5> QED BY <5>1, ConcatFacts, Zenon
      <4> QED BY <1>5, <3>1, <4>1
    <3>3. CASE n \in DOMAIN queue
      <4>1. queue'[n] = queue[n]
        BY <1>5, <1>6, <3>1, <3>3
      <4> QED BY <2>1, <3>3, <4>1
    <3>4. CASE n \notin DOMAIN queue
      <4>1. n - Len(queue) \in 1..c
        BY <1>5, <3>1, <3>2, <3>4
      <4>2. n \in 1..(Len(queue) + c) /\ n > Len(queue)
        BY <1>5, <3>1, <3>2, <3>4
      <4>3. queue'[n] = HistoryBars[n - Len(queue)]
        BY <1>5, <1>6, <3>1, <4>2
      <4> QED BY <2>2, <4>1, <4>3
    <3> QED BY <3>3, <3>4
  <2> QED BY <1>0, <1>3, <2>3 DEF WholeIn, Whole, OverBy, Starts
<1>11. WholeIn(series)'
  BY <1>0, <1>1, <1>3 DEF WholeIn, OverBy, Starts
<1>12. Starts(quotes)' = Starts(quotes)
  BY <1>0, <1>3 DEF Starts, StartFor
<1>13. Gapless(Line)'
  <2> SUFFICES ASSUME NEW n \in 1..(L + c), Continues(Line', n), ~Line'[n].partial,
                      NEW x \in Starts(quotes), x < Line'[n].at
               PROVE  Reaches(Line', n, x)
    <3>1. Gapless(Line)' <=> \A n \in DOMAIN Line' : Continues(Line', n) /\ ~Line'[n].partial
                               => \A x \in Starts(quotes)' : x < Line'[n].at => Reaches(Line', n, x)
      BY Zenon DEF Gapless, Continues, Follows, Reaches
    <3>2. DOMAIN Line' = 1..(L + c)
      BY <1>7
    <3> QED BY <1>12, <3>1, <3>2, Zenon
  <2>0. n \in Int /\ n <= L + c
    BY <1>5, <1>6
  <2>1. CASE n \in 1..L
    <3>1. n \in Nat /\ Line'[n] = Line[n] /\ \A k \in 1..(n - 1) : Line[k] = Line'[k]
      BY <1>6, <1>7, <2>1
    <3>2. Continues(Line, n)
      <4>1. n > 1 /\ n - 1 \in 1..(n - 1)
        BY <2>0 DEF Continues
      <4> QED BY <3>1, <4>1 DEF Continues
    <3>3. Follows(Line, n, Line[n].at)
      BY <1>1, <1>6, <2>1, <3>1, <3>2 DEF Gapless
    <3>4. Reaches(Line, n, x)
      BY <3>1, <3>3 DEF Follows
    <3> QED BY <3>1, <3>4, ReachesSame
  <2>2. CASE n \notin 1..L
    <3>1. n - L \in 1..c /\ L + (n - L) = n
      BY <1>5, <1>6, <2>2
    <3>2. Line'[n].at = C[n - L].at
      <4>1. Line'[L + (n - L)] = HistoryBars[n - L]
        BY <1>7, <3>1
      <4>2. HistoryBars[n - L].at = C[n - L].at
        BY <1>5, <3>1
      <4> QED BY <3>1, <4>1, <4>2, Zenon
    <3>3. C[n - L].at \in Int /\ OverBy(C[n - L].at) /\ x \in Int
      BY <1>2, <1>4, <1>5, <3>1 DEF AllOver
    <3>4. OverBy(x)
      BY <1>3, <3>2, <3>3 DEF OverBy
    <3>5. PICK i \in 1..c : C[i].at = x
      BY <1>9, <3>4
    <3>6. i < n - L
      <4> SUFFICES ASSUME n - L <= i PROVE FALSE
        BY <1>5, <3>1
      <4>1. CASE n - L = i
        BY <3>2, <3>3, <3>5, <4>1
      <4>2. CASE n - L < i
        <5>1. C[n - L].at < C[i].at
          BY <1>2, <1>5, <3>1, <4>2 DEF AllOver
        <5> QED BY <3>2, <3>3, <3>5, <5>1
      <4> QED BY <1>5, <3>1, <4>1, <4>2
    <3>7. L + i < n /\ n <= L + c + 1
      BY <1>5, <1>6, <2>0, <3>6
    <3> QED BY <1>8, <2>0, <3>5, <3>7
  <2> QED BY <2>1, <2>2
<1>14. ASSUME NEW x \in Starts(quotes), OverBy(x) PROVE Reaches(Line', L + c + 1, x)
  <2>1. PICK i \in 1..c : C[i].at = x
    BY <1>9, <1>14
  <2>2. L + c + 1 \in Int /\ L + i < L + c + 1 /\ L + c + 1 <= L + c + 1
    BY <1>5, <1>6
  <2> QED BY <1>8, <2>1, <2>2
<1>15. NextFollows'
  <2>1. BarIsCurrent'
    BY WarmupBar
  <2>2. ASSUME bar' # NoBar, offset' = base', NEW x \in Starts(quotes), x < bar'.at
        PROVE  Reaches(Line', L + c + 1, x)
    <3>1. bar'.at \in Starts(quotes)
      BY <1>12, <2>1, <2>2 DEF BarIsCurrent
    <3>2. PICK k \in 1..clock : tape[k] # 0 /\ x = StartFor(k, base)
      BY <1>3, StartsAre
    <3>3. PICK l \in 1..clock : tape[l] # 0 /\ bar'.at = StartFor(l, base)
      BY <1>3, <3>1, StartsAre
    <3>4. StartFor(k, base) < StartFor(l, base) /\ k \in Int /\ l \in Int
      BY <2>2, <3>2, <3>3
    <3>5. x + Size <= bar'.at
      BY <1>3, <3>2, <3>3, <3>4, BucketsApart
    <3>6. OverBy(x)
      BY <1>3, <1>4, <3>1, <3>5 DEF OverBy
    <3> QED BY <1>14, <3>6
  <2>3. ASSUME bar' = NoBar, NEW n \in 1..clock, Quote(n), n < Seen
        PROVE  Reaches(Line', L + c + 1, StartFor(n, base))
    <3>1. ~Forms(answer) /\ bar = NoBar
      BY <1>0, <2>3
    <3>2. PICK t \in 0..clock : MadeAt(t)
      BY <1>0, <1>1 DEF AnswerIsCurrent
    <3>3. Seen \in Int
      BY <1>0, <1>3, TypedFacts DEF Seen
    <3>4. n \in 1..t
      <4>1. t \in Int /\ n \in Int
        BY <1>3
      <4>2. ~(t < n)
        BY <2>3, <3>1, <3>2, <3>3, <4>1 DEF MadeAt
      <4> QED BY <4>1, <4>2
    <3> DEFINE q == SubSeq(tape, 1, t)
    <3>5. q \in Seq(Nat) /\ Len(q) = t /\ \A k \in 1..t : q[k] = tape[k]
      <4>1. t \in 0..Len(tape)
        BY <1>3
      <4> QED BY <1>3, <4>1, QuotesAre
    <3>6. AreBarsOf(answer, q, t)
      BY <1>3, <3>2, <3>5, BrokerBarsAre DEF MadeAt
    <3>7. C = answer
      BY <3>1 DEF C, Ended
    <3>8. q[n] # 0
      BY <2>3, <3>4, <3>5 DEF Quote
    <3>9. PICK i \in DOMAIN C : C[i].at = StartFor(n, base)
      BY <3>4, <3>6, <3>7, <3>8 DEF AreBarsOf
    <3>10. i \in 1..c /\ L + c + 1 \in Int /\ L + i < L + c + 1 /\ L + c + 1 <= L + c + 1
      BY <1>5, <1>6
    <3> QED BY <1>8, <3>9, <3>10
  <2>4. (bar # NoBar /\ offset = base /\ ~bar.partial => Follows(Line, Len(Line) + 1, bar.at))'
    BY <1>7, <1>12, <2>2 DEF Follows, Reaches
  <2>5. (bar = NoBar => \A n \in 1..clock : Quote(n) /\ n < Seen
                              => Reaches(Line, Len(Line) + 1, StartFor(n, base)))'
    <3> SUFFICES ASSUME bar' = NoBar, NEW n \in 1..clock', Quote(n)', n < Seen'
                 PROVE  Reaches(Line, Len(Line) + 1, StartFor(n, base))'
      OBVIOUS
    <3>1. n \in 1..clock /\ Quote(n) /\ n < Seen
      BY <1>0, <1>3 DEF Quote
    <3>2. Reaches(Line', L + c + 1, StartFor(n, base))
      BY <2>3, <3>1
    <3> QED BY <1>0, <1>7, <3>2 DEF Reaches, StartFor
  <2> QED BY <2>4, <2>5 DEF NextFollows
<1> QED BY <1>10, <1>11, <1>13, <1>15

\* An answer keeps the invariant (pumpQueue, seedForming).
LEMMA WarmupKeeps == ASSUME GapsConstants, GapsInv, WarmupDone PROVE GapsInv'
<1>0. /\ GapsTyped' /\ history' = "done"
      /\ UNCHANGED <<clock, tape, base, m1, series, zones, told>>
      /\ DOMAIN queue = 1..Len(queue) /\ Len(queue) \in Nat
      /\ \A n \in DOMAIN queue' : \/ n \in DOMAIN queue /\ queue'[n] = queue[n]
                                  \/ n \notin DOMAIN queue /\ queue'[n].warmup /\ ~queue'[n].partial
      /\ ~lost' => ~lost
      /\ \/ ~Forms(answer) /\ bar' = bar
         \/ /\ Forms(answer) /\ bar' # NoBar /\ ~OverBy(Seed.at) /\ Seed.at \in Int
            /\ \/ bar'.at = Seed.at /\ ~bar'.partial
               \/ bar' = bar /\ bar # NoBar
  BY WarmupIs DEF GapsInv
<1>1. SeriesGrows' /\ ZonesAreOpen' /\ ReportedOnce'
  BY <1>0 DEF GapsInv, SeriesGrows, ZonesAreOpen, ReportedOnce
<1>2. OnlyHistory'
  BY <1>0 DEF GapsInv, OnlyHistory
<1>3. NothingMissed'
  <2> SUFFICES ASSUME ~lost' PROVE LastIsSeen' /\ AnswerIsCurrent'
    BY WarmupBar, WarmupLine DEF NothingMissed
  <2>1. AnswerIsCurrent'
    BY <1>0 DEF AnswerIsCurrent
  <2>2. LastIsSeen'
    BY WarmupLast
  <2> QED BY <2>1, <2>2
<1>4. PartialFirst'
  <2> SUFFICES ASSUME NEW n \in DOMAIN queue'
               PROVE  /\ ~queue'[n].warmup /\ ~queue'[n].partial
                           => ~bar'.partial /\ \A m \in DOMAIN queue' : n < m => ~queue'[m].partial
                      /\ queue'[n].partial => ~queue'[n].warmup
    BY DEF PartialFirst
  <2>1. CASE n \in DOMAIN queue /\ queue'[n] = queue[n]
    <3>1. queue'[n].partial => ~queue'[n].warmup
      BY <2>1 DEF GapsInv, PartialFirst
    <3>2. ASSUME ~queue[n].warmup, ~queue[n].partial
          PROVE  ~bar'.partial /\ \A m \in DOMAIN queue' : n < m => ~queue'[m].partial
      <4>1. ~bar.partial /\ \A m \in DOMAIN queue : n < m => ~queue[m].partial
        BY <2>1, <3>2 DEF GapsInv, PartialFirst
      <4> QED BY <1>0, <4>1
    <3> QED BY <2>1, <3>1, <3>2
  <2>2. CASE queue'[n].warmup /\ ~queue'[n].partial
    BY <2>2
  <2> QED BY <1>0, <2>1, <2>2
<1>5. ToldInTime'
  <2>1. PICK r \in 0..clock : ToldBefore(r)
    BY DEF GapsInv, ToldInTime
  <2>2. clock \in Nat /\ Size \in Nat /\ r \in Nat /\ r <= clock
    BY TypedFacts DEF GapsInv
  <2>3. bar' # NoBar => bar'.at + Size > r
    <3>1. CASE bar' = bar
      BY <2>1, <3>1 DEF ToldBefore
    <3>2. CASE bar'.at = Seed.at /\ ~OverBy(Seed.at) /\ Seed.at \in Int
      BY <2>2, <3>2 DEF OverBy
    <3> QED BY <1>0, <3>1, <3>2
  <2>4. \A n \in DOMAIN queue' : ~queue'[n].warmup => queue'[n].at + Size > r
    BY <1>0, <2>1 DEF ToldBefore
  <2>5. NoMorePartials => NoMorePartials'
    BY <1>0 DEF NoMorePartials
  <2>6. ToldBefore(r)'
    BY <1>0, <2>1, <2>3, <2>4, <2>5 DEF ToldBefore, OverBy
  <2> QED BY <1>0, <2>6 DEF ToldInTime
<1> QED BY <1>0, <1>1, <1>2, <1>3, <1>4, <1>5 DEF GapsInv

-----------------------------------------------------------------------------
(* The worker and the line *)

\* With the first bars gone: what reached a bar does so still, when what went ended in a partial
\* bar or was a bar before a newer one.
LEMMA ShiftWorks ==
    ASSUME NEW s, NEW t, NEW N \in Nat, NEW d \in Nat,
           \A k \in 1..(N - d) : t[k] = s[k + d], \A k \in 1..N : s[k].at \in Int,
           d = 0 \/ s[d].partial \/ (d = 1 /\ s[1].at <= s[2].at),
           NEW n \in Int, 1 < n, n <= N - d + 1, ~t[n - 1].partial
    PROVE  /\ Continues(s, n + d)
           /\ \A x \in Int : Reaches(s, n + d, x) => Reaches(t, n, x)
<1>1. /\ \A k \in 1..(N - d) : t[k] = s[k + d]
      /\ \A k \in 1..N : s[k].at \in Int
      /\ d = 0 \/ s[d].partial \/ (d = 1 /\ s[1].at <= s[2].at)
      /\ 1 < n /\ n <= N - d + 1 /\ ~t[n - 1].partial
  OBVIOUS
<1>2. n - 1 \in 1..(N - d) /\ (n - 1) + d = (n + d) - 1 /\ n + d > 1
  BY <1>1
<1>3. t[n - 1] = s[(n + d) - 1]
  BY <1>1, <1>2
<1>4. Continues(s, n + d)
  BY <1>1, <1>2, <1>3 DEF Continues
<1>5. ASSUME NEW x \in Int, NEW m \in Int, d < m, m <= (n + d) - 1, \A k \in m..((n + d) - 1) : ~s[k].partial, x <= s[m].at
      PROVE  Reaches(t, n, x)
  <2>1. m - d \in 1..(n - 1) /\ m - d \in 1..(N - d) /\ (m - d) + d = m
    BY <1>1, <1>5
  <2>2. t[m - d] = s[m]
    BY <1>1, <2>1
  <2>3. ASSUME NEW k \in (m - d)..(n - 1) PROVE ~t[k].partial
    <3>1. k \in 1..(N - d) /\ k + d \in m..((n + d) - 1)
      BY <1>1, <1>5, <2>1
    <3> QED BY <1>1, <1>5, <3>1
  <2>4. x <= t[m - d].at
    BY <1>5, <2>2
  <2> QED BY <2>1, <2>3, <2>4 DEF Reaches
<1>6. ASSUME NEW x \in Int, Reaches(s, n + d, x) PROVE Reaches(t, n, x)
  <2>1. PICK m \in 1..((n + d) - 1) : (\A k \in m..((n + d) - 1) : ~s[k].partial) /\ x <= s[m].at
    BY <1>6 DEF Reaches
  <2>2. CASE d < m
    BY <1>5, <2>1, <2>2
  <2>3. CASE ~(d < m)
    <3>1. d # 0 /\ d \in m..((n + d) - 1)
      BY <1>1, <2>3
    <3>2. d = 1 /\ s[1].at <= s[2].at /\ m = 1
      BY <1>1, <2>1, <2>3, <3>1
    <3>3. 2 <= N /\ 1 \in 1..N /\ 2 \in 1..N /\ 2 \in Int /\ d < 2 /\ 2 <= (n + d) - 1
      BY <1>1, <3>2
    <3>4. s[1].at \in Int /\ s[2].at \in Int /\ x <= s[1].at
      BY <1>1, <2>1, <3>2, <3>3
    <3>5. x <= s[2].at
      BY <3>2, <3>4
    <3>6. \A k \in 2..((n + d) - 1) : ~s[k].partial
      BY <2>1, <3>2
    <3> QED BY <1>5, <3>3, <3>5, <3>6
  <2> QED BY <2>2, <2>3
<1> QED BY <1>4, <1>6

\* With a bar gone that was not newer than the one before it.
LEMMA SkipWorks ==
    ASSUME NEW s, NEW t, NEW N \in Nat, NEW L \in Nat, 1 <= L, L < N,
           \A k \in 1..L : t[k] = s[k], \A k \in (L + 1)..(N - 1) : t[k] = s[k + 1],
           \A k \in 1..N : s[k].at \in Int,
           ~s[L].partial, ~s[L + 1].partial, s[L + 1].at <= s[L].at,
           NEW n \in Int, 1 < n, n <= N, ~t[n - 1].partial,
           NEW g \in Int, g = IF n <= L THEN n ELSE n + 1
    PROVE  /\ Continues(s, g)
           /\ \A x \in Int : Reaches(s, g, x) => Reaches(t, n, x)
<1>1. /\ \A k \in 1..L : t[k] = s[k]
      /\ \A k \in (L + 1)..(N - 1) : t[k] = s[k + 1]
      /\ \A k \in 1..N : s[k].at \in Int
      /\ ~s[L].partial /\ ~s[L + 1].partial /\ s[L + 1].at <= s[L].at
      /\ 1 <= L /\ L < N /\ 1 < n /\ n <= N /\ ~t[n - 1].partial
      /\ (n <= L => g = n) /\ (n > L => g = n + 1)
  OBVIOUS
<1>2. Continues(s, g)
  <2>1. CASE n <= L
    <3>1. n - 1 \in 1..L /\ g = n
      BY <1>1, <2>1
    <3> QED BY <1>1, <3>1 DEF Continues
  <2>2. CASE n = L + 1
    <3>1. g > 1 /\ g - 1 = L + 1
      BY <1>1, <2>2
    <3> QED BY <1>1, <3>1 DEF Continues
  <2>3. CASE n > L + 1
    <3>1. n - 1 \in (L + 1)..(N - 1) /\ g > 1 /\ g - 1 = (n - 1) + 1
      BY <1>1, <2>3
    <3>2. t[n - 1] = s[g - 1]
      BY <1>1, <3>1
    <3> QED BY <1>1, <3>1, <3>2 DEF Continues
  <2> QED BY <2>1, <2>2, <2>3
<1>3. ASSUME NEW x \in Int, NEW i \in 1..(n - 1), \A k \in i..(n - 1) : ~t[k].partial, x <= t[i].at
      PROVE  Reaches(t, n, x)
  BY <1>3 DEF Reaches
<1>4. ASSUME NEW x \in Int, Reaches(s, g, x) PROVE Reaches(t, n, x)
  <2>1. PICK m \in 1..(g - 1) : (\A k \in m..(g - 1) : ~s[k].partial) /\ x <= s[m].at
    BY <1>4 DEF Reaches
  <2>2. ASSUME NEW k \in 1..(n - 1), k # L, m <= (IF k <= L THEN k ELSE k + 1) PROVE ~t[k].partial
    <3>1. CASE k <= L
      <4>1. k \in 1..L /\ k \in m..(g - 1)
        BY <1>1, <2>2, <3>1
      <4> QED BY <1>1, <2>1, <4>1
    <3>2. CASE k > L
      <4>1. k \in (L + 1)..(N - 1) /\ k + 1 \in m..(g - 1)
        BY <1>1, <2>2, <3>2
      <4> QED BY <1>1, <2>1, <4>1
    <3> QED BY <3>1, <3>2
  <2>3. ~t[L].partial /\ t[L] = s[L]
    BY <1>1
  <2>4. CASE m <= L
    <3>1. m \in 1..(n - 1) /\ m \in 1..L
      BY <1>1, <2>4
    <3>2. x <= t[m].at
      BY <1>1, <2>1, <3>1
    <3>3. ASSUME NEW k \in m..(n - 1) PROVE ~t[k].partial
      <4>1. k \in 1..(n - 1) /\ m <= (IF k <= L THEN k ELSE k + 1)
        BY <2>1
      <4> QED BY <2>2, <2>3, <4>1
    <3> QED BY <1>3, <3>1, <3>2, <3>3
  <2>5. CASE m = L + 1
    <3>1. L \in 1..(n - 1) /\ L \in 1..N /\ L + 1 \in 1..N
      BY <1>1, <2>1, <2>5
    <3>2. x <= t[L].at
      <4>1. s[L].at \in Int /\ s[L + 1].at \in Int /\ x <= s[L + 1].at
        BY <1>1, <2>1, <2>5, <3>1
      <4> QED BY <1>1, <2>3, <4>1
    <3>3. ASSUME NEW k \in L..(n - 1) PROVE ~t[k].partial
      <4>1. k = L \/ (k \in 1..(n - 1) /\ k # L /\ m <= (IF k <= L THEN k ELSE k + 1))
        BY <1>1, <2>5
      <4> QED BY <2>2, <2>3, <4>1
    <3> QED BY <1>3, <3>1, <3>2, <3>3
  <2>6. CASE m > L + 1
    <3>1. m - 1 \in 1..(n - 1) /\ m - 1 \in (L + 1)..(N - 1) /\ (m - 1) + 1 = m
      BY <1>1, <2>1, <2>6
    <3>2. x <= t[m - 1].at
      <4>1. t[m - 1] = s[m]
        BY <1>1, <3>1
      <4> QED BY <2>1, <4>1
    <3>3. ASSUME NEW k \in (m - 1)..(n - 1) PROVE ~t[k].partial
      <4>1. k \in 1..(n - 1) /\ k # L /\ m <= (IF k <= L THEN k ELSE k + 1)
        BY <2>6, <3>1
      <4> QED BY <2>2, <4>1
    <3> QED BY <1>3, <3>1, <3>2, <3>3
  <2> QED BY <1>1, <2>4, <2>5, <2>6
<1> QED BY <1>2, <1>4

\* The line after a step of the worker: the series it now has, and what is behind its head.
TailOf(q, p) == Len(q) > 0 /\ Len(p) = Len(q) - 1 /\ \A n \in 1..(Len(q) - 1) : p[n] = q[n + 1]
MovesUp(s, q, r, p) ==
    /\ \A k \in 1..Len(r) : (r \o p)[k] = r[k]
    /\ \A k \in Int : Len(r) < k /\ k < Len(r) + Len(q)
                      => (r \o p)[k] = (s \o q)[k + (Len(s) + 1 - Len(r))]
LEMMA ConcatRest ==
    ASSUME NEW S, NEW s \in Seq(S), NEW q \in Seq(S), NEW r \in Seq(S), NEW p \in Seq(S), TailOf(q, p)
    PROVE  MovesUp(s, q, r, p)
<1>0. Len(q) > 0 /\ Len(p) = Len(q) - 1 /\ \A n \in 1..(Len(q) - 1) : p[n] = q[n + 1]
  BY DEF TailOf
<1>1. Len(s) \in Nat /\ Len(q) \in Nat /\ Len(r) \in Nat
  OBVIOUS
<1>2. \A k \in 1..Len(r) : (r \o p)[k] = r[k]
  BY ConcatFacts, SMT
<1>3. ASSUME NEW k \in Int, Len(r) < k, k < Len(r) + Len(q)
      PROVE  (r \o p)[k] = (s \o q)[k + (Len(s) + 1 - Len(r))]
  <2> DEFINE j == k - Len(r)
  <2>1. j \in 1..Len(p) /\ j \in 1..(Len(q) - 1) /\ j + 1 \in 1..Len(q) /\ Len(r) + j = k
        /\ Len(s) + (j + 1) = k + (Len(s) + 1 - Len(r))
    BY <1>0, <1>1, <1>3
  <2> HIDE DEF j
  <2>2. (r \o p)[Len(r) + j] = p[j]
    <3>1. \A n \in 1..Len(p) : (r \o p)[Len(r) + n] = p[n]
      BY ConcatFacts, SMT
    <3> QED BY <2>1, <3>1
  <2>3. (s \o q)[Len(s) + (j + 1)] = q[j + 1]
    <3>1. \A n \in 1..Len(q) : (s \o q)[Len(s) + n] = q[n]
      BY ConcatFacts, SMT
    <3> QED BY <2>1, <3>1
  <2> QED BY <1>0, <2>1, <2>2, <2>3
<1> QED BY <1>2, <1>3 DEF MovesUp

Shifted(d) == /\ d \in Nat /\ d <= Len(Line) /\ Len(Line)' = Len(Line) - d
              /\ \A k \in 1..(Len(Line) - d) : Line'[k] = Line[k + d]
              /\ d = 0 \/ Line[d].partial \/ (d = 1 /\ Line[1].at <= Line[2].at)
Skipped == LET L == Len(series)
           IN  /\ 1 <= L /\ L < Len(Line) /\ Len(Line)' = Len(Line) - 1
               /\ \A k \in 1..L : Line'[k] = Line[k]
               /\ \A k \in (L + 1)..(Len(Line) - 1) : Line'[k] = Line[k + 1]
               /\ ~Line[L].partial /\ ~Line[L + 1].partial /\ Line[L + 1].at <= Line[L].at
\* The worker drops bars from the front of the line, or one in the middle that is late.
LEMMA WorkLineIs ==
    ASSUME GapsConstants, GapsTyped, SeriesGrows, Work
    PROVE  /\ Line' \in Seq(LineBar) /\ Len(Line)' \in Nat /\ DOMAIN Line' = 1..Len(Line)'
           /\ Skipped \/ \E d \in Nat : Shifted(d)
<1> DEFINE b == Head(queue)
           L == Len(series)
           Q == Len(queue)
           M == Len(series')
<1>1. /\ queue # <<>> /\ series' = SeriesWith(b) /\ queue' = Tail(queue) /\ GapsTyped'
  BY WorkTyped DEF Work
<1>2. /\ Q \in Nat /\ Q > 0 /\ b = queue[1] /\ b \in LineBar /\ queue' \in Seq(LineBar) /\ Len(queue') = Q - 1
      /\ \A n \in 1..(Q - 1) : queue'[n] = queue[n + 1]
  <2>1. queue \in Seq(LineBar)
    BY DEF GapsTyped
  <2> QED BY <1>1, <2>1, HeadOfQueue, TailFacts
<1>3. /\ series \in Seq(LineBar) /\ queue \in Seq(LineBar) /\ L \in Nat /\ L <= 3 /\ Line \in Seq(LineBar)
      /\ Len(Line) = L + Q /\ \A n \in 1..L : Line[n] = series[n]
      /\ \A n \in 1..Q : Line[n + L] = queue[n]
      /\ series' \in Seq(LineBar)
  BY <1>1, LineIs DEF GapsTyped
<1>4. M \in Nat /\ Line' \in Seq(LineBar) /\ Len(Line)' = M + (Q - 1)
  <2>1. Line' = series' \o queue'
    BY DEF Line
  <2>2. series' \in Seq(LineBar) /\ queue' \in Seq(LineBar) /\ Len(queue') = Q - 1
    BY <1>2, <1>3
  <2>3. Len(series') \in Nat
    BY <2>2, SeqFacts, Zenon
  <2>4. series' \o queue' \in Seq(LineBar) /\ Len(series' \o queue') = Len(series') + Len(queue')
    BY <2>2, ConcatFacts, Zenon
  <2> QED BY <2>1, <2>2, <2>3, <2>4
<1>5. /\ \A k \in 1..M : Line'[k] = series'[k]
      /\ \A k \in Int : M < k /\ k < M + Q => Line'[k] = Line[k + (L + 1 - M)]
  <2>1. Line' = series' \o queue' /\ Line = series \o queue
    BY DEF Line
  <2>2. /\ series \in Seq(LineBar) /\ queue \in Seq(LineBar) /\ series' \in Seq(LineBar) /\ queue' \in Seq(LineBar)
        /\ TailOf(queue, queue')
    BY <1>2, <1>3 DEF TailOf
  <2>3. MovesUp(series, queue, series', queue')
    BY <2>2, ConcatRest, Zenon
  <2> QED BY <2>1, <2>3, Zenon DEF MovesUp
<1>6. Line[L + 1] = b /\ b.at \in Int
  <2>1. 1 \in 1..Q /\ 1 + L = L + 1
    BY <1>2, <1>3
  <2> QED BY <1>2, <1>3, <2>1 DEF LineBar
<1>7. DOMAIN Line' = 1..Len(Line)' /\ Len(Line)' \in Nat
  BY <1>4, SeqFacts
<1> HIDE DEF b, L, Q, M
<1>8. ASSUME NEW d \in {0, 1}, Extends(b, d), d = 1 <=> L = 3 PROVE Shifted(d)
  <2>1. /\ M = L + 1 - d
        /\ \A n \in 1..M : series'[n] = IF n + d = L + 1 THEN b ELSE series[n + d]
    BY <1>1, <1>8 DEF Extends, M, L
  <2>2. L + 1 - M = d /\ Len(Line)' = Len(Line) - d /\ Len(Line) - d = M + (Q - 1) /\ d <= Len(Line) /\ d \in Nat
    <3>1. Q \in Nat /\ Q > 0 /\ L \in Nat /\ M \in Nat /\ d \in Nat /\ d <= 1
      BY <1>2, <1>3, <1>4
    <3>2. Len(Line) = L + Q /\ Len(Line)' = M + (Q - 1)
      BY <1>3, <1>4
    <3> QED BY <2>1, <3>1, <3>2
  <2>3. ASSUME NEW k \in 1..(Len(Line) - d) PROVE Line'[k] = Line[k + d]
    <3>1. CASE k <= M
      <4>1. k \in 1..M /\ (k + d # L + 1 => k + d \in 1..L)
        BY <1>3, <1>4, <2>1, <3>1
      <4>2. Line'[k] = IF k + d = L + 1 THEN b ELSE series[k + d]
        BY <1>5, <2>1, <4>1
      <4> QED BY <1>3, <1>6, <4>1, <4>2
    <3>2. CASE k > M
      <4>1. k \in Int /\ M < k /\ k < M + Q
        BY <1>2, <1>4, <2>2, <3>2
      <4> QED BY <1>5, <2>2, <4>1
    <3> QED BY <1>4, <3>1, <3>2
  <2>4. d = 0 \/ (d = 1 /\ Line[1].at <= Line[2].at)
    <3> SUFFICES ASSUME d = 1 PROVE Line[1].at <= Line[2].at
      OBVIOUS
    <3>1. L = 3 /\ 1 \in 1..L /\ 2 \in 1..L
      BY <1>8
    <3>2. 1 \in DOMAIN series /\ 2 \in DOMAIN series
      BY <1>3, <3>1, SeqFacts DEF L
    <3>3. series[1].at < series[2].at
      BY <3>2 DEF SeriesGrows
    <3>4. Line[1] = series[1] /\ Line[2] = series[2] /\ series[1] \in LineBar /\ series[2] \in LineBar
      BY <1>3, <3>1, <3>2
    <3>5. series[1].at \in Int /\ series[2].at \in Int
      BY <3>4 DEF LineBar
    <3> QED BY <3>3, <3>4, <3>5
  <2> QED BY <2>2, <2>3, <2>4 DEF Shifted
<1>9. ASSUME Clears(b) PROVE Shifted(L + 1)
  <2>1. M = 0 /\ b.partial
    <3>1. series' = <<>> /\ b.partial
      BY <1>1, <1>9 DEF Clears
    <3> QED BY <3>1 DEF M
  <2>2. L + 1 \in Nat /\ L + 1 <= Len(Line) /\ Len(Line)' = Len(Line) - (L + 1) /\ Len(Line) - (L + 1) = M + (Q - 1)
    BY <1>2, <1>3, <1>4, <2>1
  <2>3. ASSUME NEW k \in 1..(Len(Line) - (L + 1)) PROVE Line'[k] = Line[k + (L + 1)]
    <3>1. k \in Int /\ M < k /\ k < M + Q /\ L + 1 - M = L + 1
      BY <1>2, <1>3, <2>1, <2>2
    <3> QED BY <1>5, <3>1
  <2> QED BY <1>6, <2>1, <2>2, <2>3 DEF Shifted
<1>10. ASSUME Stays(b) PROVE Skipped
  <2>1. series' = series /\ M = L /\ ~b.partial /\ series # <<>> /\ b.at <= series[L].at
    BY <1>1, <1>10 DEF Stays, M, L
  <2>2. L # 0
    BY <1>3, <2>1, SeqFacts DEF L
  <2>3. 1 <= L /\ L < Len(Line) /\ Len(Line)' = Len(Line) - 1 /\ L \in 1..L /\ L + 1 - M = 1
    BY <1>2, <1>3, <1>4, <2>1, <2>2
  <2>4. \A k \in 1..L : Line'[k] = Line[k]
    BY <1>3, <1>5, <2>1
  <2>5. ASSUME NEW k \in (L + 1)..(Len(Line) - 1) PROVE Line'[k] = Line[k + 1]
    <3>1. k \in Int /\ M < k /\ k < M + Q
      BY <1>2, <1>3, <2>1
    <3> QED BY <1>5, <2>3, <3>1
  <2>6. ~Line[L].partial /\ Line[L + 1].at <= Line[L].at /\ ~Line[L + 1].partial
    <3>1. L \in DOMAIN series /\ Line[L] = series[L]
      BY <1>3, <2>3, SeqFacts DEF L
    <3> QED BY <1>6, <2>1, <3>1 DEF SeriesGrows
  <2> QED BY <2>3, <2>4, <2>5, <2>6 DEF Skipped, L
<1>11. Stays(b) \/ Clears(b) \/ \E d \in {0, 1} : Extends(b, d) /\ (d = 1 <=> L = 3)
  BY <1>2, SeriesIs DEF L
<1> QED
  <2>1. \A d \in {0, 1} : d \in Nat
    OBVIOUS
  <2>2. L + 1 \in Nat
    BY <1>3
  <2> QED BY <1>4, <1>7, <1>8, <1>9, <1>10, <1>11, <2>1, <2>2

\* A bar that continues a series did so before, and reaches what it reached.
LEMMA WorkFollows ==
    ASSUME GapsConstants, GapsTyped, SeriesGrows, Work, NEW n \in 1..(Len(Line)' + 1), Continues(Line', n)
    PROVE  \E g \in 1..(Len(Line) + 1) :
              /\ Continues(Line, g) /\ (n <= Len(Line)' => g <= Len(Line) /\ Line'[n] = Line[g])
              /\ n = Len(Line)' + 1 => g = Len(Line) + 1
              /\ \A x \in Int : Reaches(Line, g, x) => Reaches(Line', n, x)
<1> DEFINE N == Len(Line)
           L == Len(series)
<1>1. /\ N \in Nat /\ L \in Nat /\ Len(Line)' \in Nat /\ (Skipped \/ \E d \in Nat : Shifted(d))
      /\ \A k \in 1..N : Line[k].at \in Int
  BY WorkLineIs, LineIs
<1>2. n \in Int /\ 1 < n /\ ~Line'[n - 1].partial /\ n <= Len(Line)' + 1
  BY <1>1 DEF Continues
<1> HIDE DEF N, L
<1>3. ASSUME NEW d \in Nat, Shifted(d)
      PROVE  \E g \in 1..(N + 1) :
              /\ Continues(Line, g) /\ (n <= Len(Line)' => g <= N /\ Line'[n] = Line[g])
              /\ n = Len(Line)' + 1 => g = N + 1
              /\ \A x \in Int : Reaches(Line, g, x) => Reaches(Line', n, x)
  <2>1. /\ d <= N /\ Len(Line)' = N - d /\ \A k \in 1..(N - d) : Line'[k] = Line[k + d]
        /\ d = 0 \/ Line[d].partial \/ (d = 1 /\ Line[1].at <= Line[2].at)
    BY <1>3 DEF Shifted, N
  <2>2. n <= N - d + 1
    BY <1>2, <2>1
  <2>3. Continues(Line, n + d) /\ \A x \in Int : Reaches(Line, n + d, x) => Reaches(Line', n, x)
    <3> DEFINE s == Line
               t == Line'
    <3>1. /\ \A k \in 1..(N - d) : t[k] = s[k + d] 
          /\ \A k \in 1..N : s[k].at \in Int
          /\ d = 0 \/ s[d].partial \/ (d = 1 /\ s[1].at <= s[2].at)
          /\ ~t[n - 1].partial
      BY <1>1, <1>2, <2>1
    <3> HIDE DEF s, t
    <3>2. Continues(s, n + d) /\ \A x \in Int : Reaches(s, n + d, x) => Reaches(t, n, x)
      BY <1>1, <1>2, <2>2, <3>1, ShiftWorks
    <3> QED BY <3>2 DEF s, t
  <2>4. n + d \in 1..(N + 1) /\ (n <= Len(Line)' => n \in 1..(N - d) /\ n + d <= N)
        /\ (n = Len(Line)' + 1 => n + d = N + 1)
    BY <1>1, <1>2, <2>1
  <2>5. n <= Len(Line)' => Line'[n] = Line[n + d]
    BY <2>1, <2>4
  <2> QED BY <2>3, <2>4, <2>5
<1>4. ASSUME Skipped
      PROVE  \E g \in 1..(N + 1) :
              /\ Continues(Line, g) /\ (n <= Len(Line)' => g <= N /\ Line'[n] = Line[g])
              /\ n = Len(Line)' + 1 => g = N + 1
              /\ \A x \in Int : Reaches(Line, g, x) => Reaches(Line', n, x)
  <2>1. /\ 1 <= L /\ L < N /\ Len(Line)' = N - 1
        /\ \A k \in 1..L : Line'[k] = Line[k]
        /\ \A k \in (L + 1)..(N - 1) : Line'[k] = Line[k + 1]
        /\ ~Line[L].partial /\ ~Line[L + 1].partial /\ Line[L + 1].at <= Line[L].at
    BY <1>4 DEF Skipped, N, L
  <2>2. n <= N
    BY <1>1, <1>2, <2>1
  <2> DEFINE g == IF n <= L THEN n ELSE n + 1
  <2>3. g \in Int /\ g \in 1..(N + 1) /\ (n <= Len(Line)' => g <= N) /\ (n = Len(Line)' + 1 => g = N + 1)
    BY <1>1, <1>2, <2>1
  <2>4. n <= Len(Line)' => Line'[n] = Line[g]
    <3> SUFFICES ASSUME n <= Len(Line)' PROVE Line'[n] = Line[g]
      OBVIOUS
    <3>1. CASE n <= L
      <4>1. n \in 1..L /\ g = n
        BY <1>2, <3>1
      <4> QED BY <2>1, <4>1
    <3>2. CASE ~(n <= L)
      <4>1. n \in (L + 1)..(N - 1) /\ g = n + 1
        BY <1>1, <1>2, <2>1, <3>2
      <4> QED BY <2>1, <4>1
    <3> QED BY <3>1, <3>2
  <2>5. Continues(Line, g) /\ \A x \in Int : Reaches(Line, g, x) => Reaches(Line', n, x)
    <3> DEFINE s == Line
               t == Line'
    <3>1. /\ \A k \in 1..L : t[k] = s[k] 
          /\ \A k \in (L + 1)..(N - 1) : t[k] = s[k + 1]
          /\ \A k \in 1..N : s[k].at \in Int
          /\ ~s[L].partial /\ ~s[L + 1].partial /\ s[L + 1].at <= s[L].at
          /\ ~t[n - 1].partial
      BY <1>1, <1>2, <2>1
    <3>2. g = IF n <= L THEN n ELSE n + 1
      OBVIOUS
    <3> HIDE DEF s, t, g
    <3>3. Continues(s, g) /\ \A x \in Int : Reaches(s, g, x) => Reaches(t, n, x)
      BY <1>1, <1>2, <2>1, <2>2, <2>3, <3>1, <3>2, SkipWorks
    <3> QED BY <3>3 DEF s, t
  <2> HIDE DEF g
  <2> QED BY <2>3, <2>4, <2>5
<1> QED BY <1>1, <1>3, <1>4 DEF N

\* The worker's steps leave no gap.
LEMMA WorkGapless ==
    ASSUME GapsConstants, GapsTyped, SeriesGrows, Work, Gapless(Line), NextFollows
    PROVE  Gapless(Line)' /\ NextFollows'
<1>1. /\ UNCHANGED <<clock, tape, base, m1, bar, offset>> /\ quotes' = quotes
      /\ Starts(quotes)' = Starts(quotes) /\ \A x \in Starts(quotes) : x \in Int
      /\ clock \in Nat /\ base \in Int /\ DOMAIN Line = 1..Len(Line)
  <2>1. UNCHANGED <<clock, tape, base, m1, bar, offset>>
    BY DEF Work
  <2>2. quotes' = quotes
    BY <2>1 DEF quotes
  <2>3. clock \in Nat /\ base \in Int /\ Size \in Nat \ {0} /\ tape \in Seq(Nat) /\ clock \in 0..Len(tape)
        /\ quotes = SubSeq(tape, 1, clock)
    BY TypedFacts
  <2>4. \A x \in Starts(quotes) : x \in Int
    BY <2>3, StartHasBar
  <2>5. Starts(quotes)' = Starts(quotes)
    BY <2>1, <2>2 DEF Starts, StartFor
  <2> QED BY <2>1, <2>2, <2>3, <2>4, <2>5, LineIs
<1>2. /\ Line' \in Seq(LineBar) /\ Len(Line)' \in Nat /\ DOMAIN Line' = 1..Len(Line)' /\ Len(Line) \in Nat
  BY WorkLineIs, LineIs
<1>3. Gapless(Line)'
  <2> SUFFICES \A n \in 1..Len(Line)' : Continues(Line', n) /\ ~Line'[n].partial
                 => \A x \in Starts(quotes) : x < Line'[n].at => Reaches(Line', n, x)
    BY <1>1, <1>2 DEF Gapless, Continues, Follows, Reaches
  <2> SUFFICES ASSUME NEW n \in 1..Len(Line)', Continues(Line', n), ~Line'[n].partial,
                      NEW x \in Starts(quotes), x < Line'[n].at
               PROVE  Reaches(Line', n, x)
    OBVIOUS
  <2>1. n \in 1..(Len(Line)' + 1) /\ n <= Len(Line)'
    BY <1>2
  <2>2. PICK g \in 1..(Len(Line) + 1) :
              /\ Continues(Line, g) /\ (n <= Len(Line)' => g <= Len(Line) /\ Line'[n] = Line[g])
              /\ n = Len(Line)' + 1 => g = Len(Line) + 1
              /\ \A y \in Int : Reaches(Line, g, y) => Reaches(Line', n, y)
    BY <2>1, WorkFollows
  <2>3. g \in DOMAIN Line /\ Line'[n] = Line[g]
    BY <1>1, <1>2, <2>1, <2>2
  <2>4. Follows(Line, g, Line[g].at)
    BY <2>2, <2>3 DEF Gapless
  <2> QED BY <1>1, <2>2, <2>3, <2>4 DEF Follows
<1>4. ASSUME Continues(Line', Len(Line)' + 1)
      PROVE  /\ Continues(Line, Len(Line) + 1)
             /\ \A x \in Int : Reaches(Line, Len(Line) + 1, x) => Reaches(Line', Len(Line)' + 1, x)
  <2>1. Len(Line)' + 1 \in 1..(Len(Line)' + 1)
    BY <1>2
  <2>2. PICK g \in 1..(Len(Line) + 1) :
              /\ Continues(Line, g)
              /\ Len(Line)' + 1 = Len(Line)' + 1 => g = Len(Line) + 1
              /\ \A y \in Int : Reaches(Line, g, y) => Reaches(Line', Len(Line)' + 1, y)
    BY <1>4, <2>1, WorkFollows
  <2> QED BY <2>2
<1>5. NextFollows'
  <2> SUFFICES ASSUME Continues(Line', Len(Line)' + 1)
               PROVE  /\ (bar # NoBar /\ offset = base /\ ~bar.partial => Follows(Line, Len(Line) + 1, bar.at))'
                      /\ (bar = NoBar => \A n \in 1..clock : Quote(n) /\ n < Seen
                              => Reaches(Line, Len(Line) + 1, StartFor(n, base)))'
    BY DEF NextFollows, Continues
  <2>1. /\ Continues(Line, Len(Line) + 1)
        /\ \A x \in Int : Reaches(Line, Len(Line) + 1, x) => Reaches(Line', Len(Line)' + 1, x)
    BY <1>4
  <2>2. ASSUME bar # NoBar, offset = base, ~bar.partial, NEW x \in Starts(quotes), x < bar.at
        PROVE  Reaches(Line', Len(Line)' + 1, x)
    BY <1>1, <2>1, <2>2 DEF NextFollows, Follows
  <2>3. ASSUME bar = NoBar, NEW n \in 1..clock, Quote(n), n < Seen
        PROVE  Reaches(Line', Len(Line)' + 1, StartFor(n, base))
    <3>1. n \in Int
      BY <1>1
    <3>2. StartFor(n, base) \in Int
      BY <1>1, <3>1, InBucket
    <3> QED BY <2>1, <2>3, <3>2 DEF NextFollows
  <2>4. (bar # NoBar /\ offset = base /\ ~bar.partial => Follows(Line, Len(Line) + 1, bar.at))'
    BY <1>1, <2>2 DEF Follows, Reaches
  <2>5. (bar = NoBar => \A n \in 1..clock : Quote(n) /\ n < Seen
                              => Reaches(Line, Len(Line) + 1, StartFor(n, base)))'
    <3> SUFFICES ASSUME bar' = NoBar, NEW n \in 1..clock', Quote(n)', n < Seen'
                 PROVE  Reaches(Line, Len(Line) + 1, StartFor(n, base))'
      OBVIOUS
    <3>1. bar = NoBar /\ n \in 1..clock /\ Quote(n) /\ n < Seen
      BY <1>1 DEF Quote, Seen
    <3>2. Reaches(Line', Len(Line)' + 1, StartFor(n, base))
      BY <2>3, <3>1
    <3> QED BY <1>1, <3>2 DEF Reaches, StartFor
  <2> QED BY <2>4, <2>5
<1> QED BY <1>3, <1>5

\* What is in the series after the worker's step was there, before the bar that has come.
LEMMA SeriesAfter ==
    ASSUME GapsConstants, GapsTyped, SeriesGrows, Work
    PROVE  LET b == Head(queue) IN
           /\ SeriesGrows'
           /\ b \in LineBar /\ b.at \in Int
           /\ \A n \in DOMAIN series' : \/ series'[n] = b /\ ~b.partial
                                        \/ \E m \in DOMAIN series : series'[n] = series[m]
           /\ ~b.partial /\ series # <<>> => series' # <<>> /\ Last(series).at <= Last(series').at
           /\ \A d \in {0, 1} : Extends(b, d) => /\ series' # <<>> /\ Last(series') = b
                                                 /\ series # <<>> => Last(series).at < b.at
                                                 /\ \A m \in DOMAIN series : series[m].at < b.at
<1> DEFINE b == Head(queue)
           L == Len(series)
           M == Len(series')
<1>1. queue # <<>> /\ series' = SeriesWith(b) /\ GapsTyped'
  BY WorkTyped DEF Work
<1>2. b \in LineBar
  BY <1>1, HeadOfQueue
<1>3. /\ series \in Seq(LineBar) /\ L \in Nat /\ L <= 3 /\ DOMAIN series = 1..L /\ (series = <<>> <=> L = 0)
      /\ \A n \in 1..L : series[n] \in LineBar
  <2>1. series \in Seq(LineBar) /\ L <= 3
    BY DEF GapsTyped
  <2> QED BY <2>1, SeqFacts
<1>4. /\ series' \in Seq(LineBar) /\ M \in Nat /\ DOMAIN series' = 1..M /\ (series' = <<>> <=> M = 0)
  <2>1. series' \in Seq(LineBar)
    BY <1>1 DEF GapsTyped
  <2> QED BY <2>1, SeqFacts
<1>5. Last(series) = series[L] /\ Last(series') = series'[M]
  BY DEF Last
<1> HIDE DEF b, L, M
<1>6. /\ b.at \in Int /\ \A n \in 1..L : series[n].at \in Int /\ ~series[n].partial
      /\ \A m, n \in 1..L : m < n => series[m].at < series[n].at
  BY <1>2, <1>3 DEF LineBar, SeriesGrows
<1> DEFINE Fine == /\ SeriesGrows'
                   /\ \A n \in DOMAIN series' : \/ series'[n] = b /\ ~b.partial
                                                \/ \E m \in DOMAIN series : series'[n] = series[m]
                   /\ ~b.partial /\ series # <<>> => series' # <<>> /\ Last(series).at <= Last(series').at
                   /\ \A d \in {0, 1} : Extends(b, d) => /\ series' # <<>> /\ Last(series') = b
                                                         /\ series # <<>> => Last(series).at < b.at
                                                         /\ \A m \in DOMAIN series : series[m].at < b.at
<1>7. ASSUME Stays(b) PROVE Fine
  <2>1. series' = series /\ series # <<>> /\ b.at <= series[L].at
    BY <1>1, <1>7 DEF Stays, L
  <2>2. SeriesGrows'
    BY <2>1 DEF SeriesGrows
  <2>3. L \in 1..L /\ Last(series).at <= Last(series').at
    BY <1>3, <1>5, <1>6, <2>1
  <2>4. \A d \in {0, 1} : ~Extends(b, d)
    BY <1>6, <2>1, <2>3 DEF Extends, L
  <2> QED BY <2>1, <2>2, <2>3, <2>4
<1>8. ASSUME Clears(b) PROVE Fine
  <2>1. series' = <<>> /\ b.partial
    BY <1>1, <1>8 DEF Clears
  <2>2. DOMAIN series' = {}
    BY <2>1
  <2>3. \A d \in {0, 1} : ~Extends(b, d)
    BY <2>1 DEF Extends
  <2> QED BY <2>1, <2>2, <2>3 DEF SeriesGrows
<1>9. ASSUME NEW d \in {0, 1}, Extends(b, d), d = 1 <=> L = 3 PROVE Fine
  <2>1. /\ M = L + 1 - d /\ ~b.partial /\ (L # 0 => b.at > series[L].at)
        /\ \A n \in 1..M : series'[n] = IF n + d = L + 1 THEN b ELSE series[n + d]
    BY <1>1, <1>3, <1>9 DEF Extends, M, L
  <2>2. M \in 1..M /\ M + d = L + 1 /\ d \in Nat
    BY <1>3, <1>4, <1>9, <2>1
  <2>3. Last(series') = b /\ series' # <<>>
    BY <1>4, <1>5, <2>1, <2>2
  <2>4. ASSUME NEW m \in 1..L PROVE series[m].at < b.at
    <3>1. L \in 1..L /\ (m = L \/ m < L) /\ L # 0
      BY <1>3
    <3> QED BY <1>6, <2>1, <3>1
  <2>5. series # <<>> => Last(series).at < b.at
    <3>1. series # <<>> => L \in 1..L
      BY <1>3
    <3> QED BY <1>5, <2>4, <3>1
  <2>6. series # <<>> => Last(series).at <= b.at
    <3>1. series # <<>> => L \in 1..L
      BY <1>3
    <3>2. series # <<>> => series[L].at \in Int
      BY <1>6, <3>1
    <3> QED BY <1>5, <1>6, <2>5, <3>2
  <2>7. ASSUME NEW n \in 1..M PROVE (series'[n] = b /\ n = M) \/ (n + d \in 1..L /\ series'[n] = series[n + d])
    BY <1>3, <2>1, <2>2
  <2>8. SeriesGrows'
    <3>1. \A n \in 1..M : ~series'[n].partial
      BY <1>6, <2>1, <2>7
    <3>2. ASSUME NEW m \in 1..M, NEW n \in 1..M, m < n PROVE series'[m].at < series'[n].at
      <4>1. m + d \in 1..L /\ series'[m] = series[m + d] /\ m + d < n + d
        <5>1. m # M
          BY <1>4, <3>2
        <5> QED BY <2>2, <2>7, <3>2, <5>1
      <4> QED BY <1>6, <2>4, <2>7, <4>1
    <3> QED BY <1>4, <3>1, <3>2 DEF SeriesGrows
  <2>9. \A n \in DOMAIN series' : \/ series'[n] = b /\ ~b.partial
                                  \/ \E m \in DOMAIN series : series'[n] = series[m]
    BY <1>3, <1>4, <2>1, <2>7
  <2> QED BY <1>3, <2>3, <2>4, <2>5, <2>6, <2>8, <2>9
<1>10. Stays(b) \/ Clears(b) \/ \E d \in {0, 1} : Extends(b, d) /\ (d = 1 <=> L = 3)
  BY <1>2, SeriesIs DEF L
<1>11. Fine
  BY <1>7, <1>8, <1>9, <1>10
<1> QED BY <1>2, <1>6, <1>11 DEF b

\* The worker keeps the invariant (processCompletedBar).
LEMMA WorkKeeps == ASSUME GapsConstants, GapsInv, Work PROVE GapsInv'
<1> DEFINE b == Head(queue)
<1>1. /\ GapsTyped /\ SeriesGrows /\ OnlyHistory /\ NothingMissed
      /\ ZonesAreOpen /\ PartialFirst /\ ToldInTime /\ ReportedOnce
  BY DEF GapsInv
<1>2. /\ queue # <<>> /\ queue' = Tail(queue)
      /\ UNCHANGED <<clock, tape, base, online, m1, bar, offset, history, answer, joined, lost, faults>>
      /\ \/ UNCHANGED told
         \/ ~b.warmup /\ \E z \in NewGaps : told' = Append(told, [zone |-> z, lost |-> lost])
  BY DEF Work, NewGaps
<1>3. GapsTyped' /\ zones' \subseteq Mitigate(zones \cup NewGaps, b)
  BY <1>1, WorkTyped
<1>4. /\ SeriesGrows'
      /\ b \in LineBar /\ b.at \in Int
      /\ \A n \in DOMAIN series' : \/ series'[n] = b /\ ~b.partial
                                   \/ \E m \in DOMAIN series : series'[n] = series[m]
      /\ ~b.partial /\ series # <<>> => series' # <<>> /\ Last(series).at <= Last(series').at
      /\ \A d \in {0, 1} : Extends(b, d) => /\ series' # <<>> /\ Last(series') = b
                                            /\ series # <<>> => Last(series).at < b.at
                                            /\ \A m \in DOMAIN series : series[m].at < b.at
  BY <1>1, SeriesAfter
<1>5. /\ Len(queue) \in Nat /\ DOMAIN queue = 1..Len(queue) /\ 1 \in DOMAIN queue /\ b = queue[1]
      /\ \A n \in DOMAIN queue' : n \in Nat /\ n + 1 \in DOMAIN queue /\ queue'[n] = queue[n + 1]
  <2>1. queue \in Seq(LineBar) /\ queue' \in Seq(LineBar)
    BY <1>1, <1>3 DEF GapsTyped
  <2>2. DOMAIN queue' \subseteq Nat /\ Len(queue) \in Nat /\ DOMAIN queue = 1..Len(queue)
    BY <2>1, SeqFacts
  <2> QED BY <1>1, <1>2, <2>2, HeadOfQueue
<1>6. \A z \in NewGaps : z.at = b.at /\ \E d \in {0, 1} : Extends(b, d)
  BY <1>1, <1>2, NewGapsAre
<1> HIDE DEF b
<1>7. ZonesAreOpen'
  <2> SUFFICES ASSUME NEW z \in zones', NEW n \in DOMAIN series' PROVE ~Filled(z, series'[n])
    BY DEF ZonesAreOpen, Filled
  <2>1. z \in zones \cup NewGaps /\ ~Filled(z, b)
    BY <1>3 DEF Mitigate
  <2>2. CASE series'[n] = b
    BY <2>1, <2>2
  <2>3. ASSUME NEW m \in DOMAIN series, series'[n] = series[m] PROVE ~Filled(z, series'[n])
    <3>1. CASE z \in zones
      BY <1>1, <2>3, <3>1 DEF ZonesAreOpen
    <3>2. CASE z \in NewGaps
      <4>1. series[m].at < z.at /\ z.at \in Int
        BY <1>4, <1>6, <3>2
      <4>2. series[m].at \in Int
        <5>1. series \in Seq(LineBar)
          BY <1>1 DEF GapsTyped
        <5>2. series[m] \in LineBar
          BY <5>1, SeqFacts
        <5> QED BY <5>2 DEF LineBar
      <4> QED BY <2>3, <4>1, <4>2 DEF Filled
    <3> QED BY <2>1, <3>1, <3>2
  <2> QED BY <1>4, <2>2, <2>3
<1>8. PartialFirst'
  <2> SUFFICES ASSUME NEW n \in DOMAIN queue'
               PROVE  /\ ~queue'[n].warmup /\ ~queue'[n].partial
                           => ~bar'.partial /\ \A m \in DOMAIN queue' : n < m => ~queue'[m].partial
                      /\ queue'[n].partial => ~queue'[n].warmup
    BY DEF PartialFirst
  <2>1. n \in Nat /\ n + 1 \in DOMAIN queue /\ queue'[n] = queue[n + 1]
    BY <1>5
  <2>2. ASSUME ~queue'[n].warmup, ~queue'[n].partial, NEW m \in DOMAIN queue', n < m PROVE ~queue'[m].partial
    <3>1. m \in Nat /\ m + 1 \in DOMAIN queue /\ queue'[m] = queue[m + 1] /\ n + 1 < m + 1
      BY <1>5, <2>1, <2>2
    <3> QED BY <1>1, <2>1, <2>2, <3>1 DEF PartialFirst
  <2> QED BY <1>1, <1>2, <2>1, <2>2 DEF PartialFirst
<1>9. OnlyHistory'
  <2> SUFFICES ASSUME bar' = NoBar PROVE (/\ \A n \in DOMAIN queue : queue[n].warmup /\ ~queue[n].partial
                                          /\ \A n \in DOMAIN series : series[n].warmup
                                          /\ Line # <<>> => history = "done")'
    BY DEF OnlyHistory
  <2>1. /\ \A n \in DOMAIN queue : queue[n].warmup /\ ~queue[n].partial
        /\ \A n \in DOMAIN series : series[n].warmup
        /\ Line # <<>> => history = "done"
    BY <1>1, <1>2 DEF OnlyHistory
  <2>2. Line # <<>>
    <3>1. Line \in Seq(LineBar) /\ Len(Line) = Len(series) + Len(queue) /\ Len(series) \in Nat
      BY <1>1, LineIs
    <3>2. Len(Line) # 0
      BY <1>5, <3>1
    <3> QED BY <3>1, <3>2, SeqFacts
  <2> QED BY <1>2, <1>4, <1>5, <2>1, <2>2
<1>10. quotes' = quotes /\ Starts(quotes)' = Starts(quotes)
  <2>1. quotes' = quotes
    BY <1>2 DEF quotes
  <2> QED BY <1>2, <2>1 DEF Starts, StartFor
<1>11. ASSUME ~lost PROVE ~b.partial => Whole(b)
  <2>1. WholeIn(queue)
    BY <1>1, <1>11 DEF NothingMissed
  <2> QED BY <1>5, <2>1, WholeIs
<1>12. NothingMissed'
  <2> SUFFICES ASSUME ~lost'
               PROVE  /\ LastIsSeen' /\ BarIsCurrent' /\ AnswerIsCurrent' /\ WholeIn(series)' /\ WholeIn(queue)'
                      /\ Gapless(Line)' /\ NextFollows'
    BY DEF NothingMissed
  <2>0. ~lost
    BY <1>2
  <2>1. /\ LastIsSeen /\ BarIsCurrent /\ AnswerIsCurrent /\ WholeIn(series) /\ WholeIn(queue)
        /\ Gapless(Line) /\ NextFollows
    BY <1>1, <2>0 DEF NothingMissed
  <2>2. LastIsSeen'
    BY <1>2, <2>1 DEF LastIsSeen, InMinute, AllHeld, Held, BarHas, StartFor, Quote
  <2>3. BarIsCurrent'
    BY <1>2, <1>10, <2>1 DEF BarIsCurrent, Quote, Seen, Occurs, Within
  <2>4. AnswerIsCurrent'
    <3> SUFFICES ASSUME history' = "asked" PROVE (\E t \in 0..clock : MadeAt(t))'
      BY DEF AnswerIsCurrent
    <3>1. PICK t \in 0..clock : MadeAt(t)
      BY <1>2, <2>1 DEF AnswerIsCurrent
    <3>2. answer = BrokerBars(SubSeq(tape, 1, t))
      BY <3>1 DEF MadeAt
    <3>3. (answer = BrokerBars(SubSeq(tape, 1, t)))'
      BY <1>2, <3>2 DEF BrokerBars, Opens, BarOf, In, StartFor
    <3>4. MadeAt(t)'
      BY <1>2, <3>1, <3>3 DEF MadeAt, Quote, Seen, Within
    <3> QED BY <1>2, <3>4
  <2>5. ASSUME NEW x, Whole(x) PROVE x = Tagged(BarOf(x.at, quotes'), x.warmup) /\ x.at \in Starts(quotes') /\ x.at + Size <= clock'
    BY <1>2, <1>10, <2>5 DEF Whole, OverBy
  <2>6. WholeIn(series)'
    <3>1. ASSUME NEW n \in DOMAIN series', ~series'[n].partial PROVE Whole(series'[n])
      <4>1. CASE series'[n] = b /\ ~b.partial
        BY <1>11, <2>0, <4>1
      <4>2. ASSUME NEW m \in DOMAIN series, series'[n] = series[m] PROVE Whole(series'[n])
        BY <2>1, <3>1, <4>2, WholeIs
      <4> QED BY <1>4, <4>1, <4>2
    <3> QED BY <1>2, <1>10, <3>1 DEF WholeIn, Whole, OverBy
  <2>7. WholeIn(queue)'
    <3>1. ASSUME NEW n \in DOMAIN queue', ~queue'[n].partial PROVE Whole(queue'[n])
      BY <1>5, <2>1, <3>1, WholeIs
    <3> QED BY <1>2, <1>10, <3>1 DEF WholeIn, Whole, OverBy
  <2>8. Gapless(Line)' /\ NextFollows'
    BY <1>1, <2>1, WorkGapless
  <2> QED BY <2>2, <2>3, <2>4, <2>6, <2>7, <2>8
<1>13. PICK r \in 0..clock : ToldBefore(r)
  BY <1>1 DEF ToldInTime
<1>14. /\ Len(told) \in Nat /\ DOMAIN told = 1..Len(told)
       /\ \A n \in DOMAIN told : told[n].zone.at \in Int /\ told[n].lost \in BOOLEAN
       /\ clock \in Nat /\ r \in Nat /\ Size \in Nat
  BY <1>1, ToldAre, TypedFacts
\* What was told before stays in time.
<1>15. NoMorePartials => NoMorePartials' /\ ~b.partial
  BY <1>2, <1>5 DEF NoMorePartials
<1>16. ASSUME NEW n \in DOMAIN told, ~told[n].lost
       PROVE  /\ OverBy(told[n].zone.at)
              /\ \/ told[n].zone.at + Size <= r
                 \/ series' # <<>> /\ told[n].zone.at <= Last(series').at /\ NoMorePartials'
  <2>1. /\ OverBy(told[n].zone.at)
        /\ \/ told[n].zone.at + Size <= r
           \/ series # <<>> /\ told[n].zone.at <= Last(series).at /\ NoMorePartials
    BY <1>13, <1>16 DEF ToldBefore
  <2>2. ASSUME series # <<>>, told[n].zone.at <= Last(series).at, NoMorePartials
        PROVE  series' # <<>> /\ told[n].zone.at <= Last(series').at
    <3>1. series' # <<>> /\ Last(series).at <= Last(series').at
      BY <1>4, <1>15, <2>2
    <3>2. Last(series).at \in Int /\ Last(series').at \in Int
      <4>1. series \in Seq(LineBar) /\ series' \in Seq(LineBar)
        BY <1>1, <1>3 DEF GapsTyped
      <4>2. ASSUME NEW s \in Seq(LineBar), s # <<>> PROVE Last(s).at \in Int
        <5>1. s[Len(s)] \in LineBar
          BY <4>2
        <5> QED BY <5>1 DEF Last, LineBar
      <4> QED BY <2>2, <3>1, <4>1, <4>2
    <3> QED BY <1>14, <2>2, <3>1, <3>2
  <2> QED BY <1>15, <2>1, <2>2
\* A gap that is told now is of the last bar.
<1>17. ASSUME NEW z \in NewGaps, ~b.warmup
       PROVE  /\ z.at = b.at /\ b.at + Size > r
              /\ series' # <<>> /\ z.at <= Last(series').at /\ NoMorePartials'
              /\ ~lost => OverBy(z.at)
              /\ \A n \in DOMAIN told : told[n].zone.at = z.at => told[n].lost
  <2>1. PICK d \in {0, 1} : Extends(b, d)
    BY <1>6, <1>17
  <2>2. z.at = b.at /\ ~b.partial /\ series' # <<>> /\ Last(series') = b
    BY <1>4, <1>6, <1>17, <2>1 DEF Extends
  <2>3. b.at + Size > r
    BY <1>5, <1>13, <1>17 DEF ToldBefore
  <2>4. ~lost => OverBy(z.at)
    BY <1>11, <2>2 DEF Whole
  <2>5. NoMorePartials'
    <3>1. bar # NoBar
      BY <1>1, <1>5, <1>17 DEF OnlyHistory
    <3>2. ~bar.partial /\ \A m \in DOMAIN queue : 1 < m => ~queue[m].partial
      BY <1>1, <1>5, <1>17, <2>2 DEF PartialFirst
    <3>3. ASSUME NEW n \in DOMAIN queue' PROVE ~queue'[n].partial
      <4>1. n + 1 \in DOMAIN queue /\ queue'[n] = queue[n + 1] /\ n + 1 \in 1..Len(queue) /\ n \in Nat
        BY <1>5
      <4>2. CASE n = 0
        BY <1>5, <2>2, <4>1, <4>2
      <4>3. CASE n # 0
        <5>1. 1 < n + 1
          BY <4>1, <4>3
        <5> QED BY <3>2, <4>1, <5>1
      <4> QED BY <4>2, <4>3
    <3> QED BY <1>2, <3>1, <3>2, <3>3 DEF NoMorePartials
  <2>6. ASSUME NEW n \in DOMAIN told, told[n].zone.at = z.at, ~told[n].lost PROVE FALSE
    <3>1. \/ told[n].zone.at + Size <= r
          \/ series # <<>> /\ told[n].zone.at <= Last(series).at
      BY <1>13, <2>6 DEF ToldBefore
    <3>2. ~(told[n].zone.at + Size <= r)
      BY <1>4, <1>14, <2>2, <2>3, <2>6
    <3>3. series # <<>> /\ z.at <= Last(series).at /\ Last(series).at < b.at
      BY <1>4, <2>1, <2>6, <3>1, <3>2
    <3>4. Last(series).at \in Int
      <4>1. series \in Seq(LineBar)
        BY <1>1 DEF GapsTyped
      <4>2. series[Len(series)] \in LineBar
        BY <3>3, <4>1
      <4> QED BY <4>2 DEF Last, LineBar
    <3> QED BY <1>4, <2>2, <3>3, <3>4
  <2>7. z.at <= Last(series').at
    BY <1>4, <2>2
  <2>8. \A n \in DOMAIN told : told[n].zone.at = z.at => told[n].lost
    BY <1>14, <2>6
  <2> QED BY <2>2, <2>3, <2>4, <2>5, <2>7, <2>8
<1> DEFINE e(z) == [zone |-> z, lost |-> lost]
<1>18. ASSUME NEW z \in NewGaps, told' = Append(told, e(z))
       PROVE  /\ DOMAIN told' = 1..(Len(told) + 1) /\ told'[Len(told) + 1].zone = z
              /\ told'[Len(told) + 1].lost = lost
              /\ \A n \in DOMAIN told : told'[n] = told[n]
  <2> DEFINE R == [zone : ZoneSet, lost : BOOLEAN]
             x == e(z)
  <2>1. told \in Seq(R) /\ told' \in Seq(R) /\ NewGaps \subseteq ZoneSet /\ lost \in BOOLEAN
    BY <1>1, <1>2, <1>3, NewGapsAre DEF GapsTyped
  <2>2. x \in R /\ x.zone = z /\ x.lost = lost
    BY <2>1
  <2>3. told' = Append(told, x)
    BY <1>18
  <2> HIDE DEF R, x
  <2>4. Len(told') = Len(told) + 1 /\ \A n \in 1..(Len(told) + 1) : told'[n] = IF n = Len(told) + 1 THEN x ELSE told[n]
    BY <2>1, <2>2, <2>3, AppendFacts
  <2>5. DOMAIN told' = 1..(Len(told) + 1)
    BY <2>1, <2>4, SeqFacts
  <2>6. Len(told) + 1 \in 1..(Len(told) + 1) /\ \A n \in 1..Len(told) : n \in 1..(Len(told) + 1) /\ n # Len(told) + 1
    BY <1>14
  <2> QED BY <1>14, <2>2, <2>4, <2>5, <2>6
<1> HIDE DEF e
<1>19. \A n \in DOMAIN told' : \/ n \in DOMAIN told /\ told'[n] = told[n]
                               \/ /\ n = Len(told) + 1 /\ ~b.warmup /\ told'[n].lost = lost
                                  /\ told'[n].zone \in NewGaps
  <2>1. CASE UNCHANGED told
    BY <2>1
  <2>2. ASSUME ~b.warmup, NEW z \in NewGaps, told' = Append(told, e(z))
        PROVE  \A n \in DOMAIN told' : \/ n \in DOMAIN told /\ told'[n] = told[n]
                               \/ /\ n = Len(told) + 1 /\ ~b.warmup /\ told'[n].lost = lost
                                  /\ told'[n].zone \in NewGaps
    <3> SUFFICES ASSUME NEW n \in DOMAIN told', n \notin DOMAIN told PROVE n = Len(told) + 1
      BY <1>18, <2>2
    <3> QED BY <1>14, <1>18, <2>2
  <2> QED BY <1>2, <2>1, <2>2 DEF e
<1>20. ToldInTime'
  <2>1. ASSUME NEW n \in DOMAIN told', ~told'[n].lost
        PROVE  /\ OverBy(told'[n].zone.at)
               /\ \/ told'[n].zone.at + Size <= r
                  \/ series' # <<>> /\ told'[n].zone.at <= Last(series').at /\ NoMorePartials'
    <3>1. CASE n \in DOMAIN told /\ told'[n] = told[n]
      BY <1>16, <2>1, <3>1
    <3>2. CASE ~b.warmup /\ told'[n].lost = lost /\ told'[n].zone \in NewGaps
      BY <1>17, <2>1, <3>2
    <3> QED BY <1>19, <3>1, <3>2
  <2>2. \A n \in DOMAIN queue' : ~queue'[n].warmup => queue'[n].at + Size > r
    BY <1>5, <1>13 DEF ToldBefore
  <2>3. ToldBefore(r)'
    BY <1>2, <1>13, <2>1, <2>2 DEF ToldBefore, OverBy
  <2>4. r \in 0..clock'
    BY <1>2
  <2> QED BY <2>3, <2>4 DEF ToldInTime
<1>21. ReportedOnce'
  <2> SUFFICES ASSUME NEW n \in DOMAIN told', NEW m \in 1..(n - 1), told'[m].zone.at = told'[n].zone.at
               PROVE  told'[m].lost
    BY DEF ReportedOnce
  <2>1. m \in DOMAIN told /\ m \in DOMAIN told'
    <3>1. n \in 1..(Len(told) + 1)
      BY <1>14, <1>19
    <3>2. told' \in Seq([zone : ZoneSet, lost : BOOLEAN])
      BY <1>3 DEF GapsTyped
    <3>3. DOMAIN told' = 1..Len(told') /\ Len(told') \in Nat
      BY <3>2, SeqFacts
    <3> QED BY <1>14, <3>1, <3>3
  <2>2. told'[m] = told[m]
    <3>1. m # Len(told) + 1
      BY <1>14, <2>1
    <3> QED BY <1>19, <2>1, <3>1
  <2>3. CASE n \in DOMAIN told /\ told'[n] = told[n]
    BY <1>1, <2>1, <2>2, <2>3 DEF ReportedOnce
  <2>4. CASE ~b.warmup /\ told'[n].zone \in NewGaps
    BY <1>17, <2>1, <2>2, <2>4
  <2> QED BY <1>19, <2>3, <2>4
<1> QED BY <1>3, <1>4, <1>7, <1>8, <1>9, <1>12, <1>20, <1>21 DEF GapsInv

-----------------------------------------------------------------------------
(* What is reported *)

\* Three whole bars in a row without a gap in the line are neighbours at the broker.
ThreeBars == GapsTyped /\ SeriesGrows /\ WholeIn(series) /\ Gapless(Line) /\ Len(series) = 3
ZoneIsReal == \A z \in Zone(series[1], series[3]) : RealGap(z)
\* The gap between the first and the last of three bars in a row is one of the broker.
LEMMA ThreeInARow == GapsConstants /\ ThreeBars => ZoneIsReal
<1> SUFFICES ASSUME GapsConstants, GapsTyped, SeriesGrows, WholeIn(series), Gapless(Line), Len(series) = 3,
                    NEW z \in Zone(series[1], series[3])
             PROVE  RealGap(z)
  BY DEF ThreeBars, ZoneIsReal
<1>1. /\ DOMAIN series = 1..3 /\ DOMAIN Line = 1..Len(Line) /\ Len(Line) \in Nat /\ Len(Line) >= 3
      /\ Line[1] = series[1] /\ Line[2] = series[2] /\ Line[3] = series[3]
      /\ series[1] \in LineBar /\ series[2] \in LineBar /\ series[3] \in LineBar
  <2>1. series \in Seq(LineBar)
    BY DEF GapsTyped
  <2> QED BY <2>1, LineIs, SeqFacts
<1>2. 1 \in 1..3 /\ 2 \in 1..3 /\ 3 \in 1..3
  OBVIOUS
<1>3. /\ ~series[1].partial /\ ~series[2].partial /\ ~series[3].partial
      /\ series[1].at < series[2].at /\ series[2].at < series[3].at
  BY <1>1, <1>2 DEF SeriesGrows
<1>4. \A n \in 1..3 : Whole(series[n])
  <2>1. \A n \in DOMAIN series : ~series[n].partial => Whole(series[n])
    BY WholeIs
  <2> QED BY <1>1, <2>1 DEF SeriesGrows
<1> DEFINE s == series[1].at
           t == series[2].at
           u == series[3].at
<1>5. s \in Int /\ t \in Int /\ u \in Int /\ s < t /\ t < u
  BY <1>1, <1>3 DEF LineBar
<1>6. s \in Starts(quotes) /\ t \in Starts(quotes) /\ u \in Starts(quotes)
  BY <1>2, <1>4 DEF Whole
<1>7. \A x \in Starts(quotes) : x \in Int
  <2>1. clock \in Nat /\ base \in Int /\ Size \in Nat \ {0} /\ tape \in Seq(Nat) /\ clock \in 0..Len(tape)
        /\ quotes = SubSeq(tape, 1, clock)
    BY TypedFacts
  <2> QED BY <2>1, StartHasBar
<1>8. ASSUME NEW x \in Starts(quotes), s < x, x < u PROVE x = t
  <2>1. ASSUME NEW n \in {2, 3}, x < Line[n].at
        PROVE  \E m \in 1..(n - 1) : x <= Line[m].at
    <3>1. n \in DOMAIN Line /\ ~Line[n].partial /\ Continues(Line, n)
      BY <1>1, <1>3 DEF Continues
    <3>2. Reaches(Line, n, x)
      BY <2>1, <3>1 DEF Gapless, Follows
    <3> QED BY <3>2 DEF Reaches
  <2>2. PICK m \in 1..2 : x <= Line[m].at
    <3>1. \E m \in 1..(3 - 1) : x <= Line[m].at
      BY <1>1, <1>8, <2>1
    <3> QED BY <3>1
  <2>3. x <= t
    <3>1. m = 1 \/ m = 2
      BY <2>2
    <3> QED BY <1>1, <1>5, <1>7, <1>8, <2>2, <3>1
  <2>4. ~(x < t)
    <3> SUFFICES ASSUME x < t PROVE FALSE
      OBVIOUS
    <3>1. \E k \in 1..(2 - 1) : x <= Line[k].at
      BY <1>1, <2>1
    <3>2. x <= Line[1].at
      BY <3>1
    <3> QED BY <1>1, <1>5, <1>7, <1>8, <3>2
  <2> QED BY <1>5, <1>7, <2>3, <2>4
<1>9. z.at = u
  BY <1>1, ZoneIs
<1>10. {x \in Starts(quotes) : s < x /\ x < z.at} = {t}
  BY <1>5, <1>6, <1>8, <1>9
<1>11. Cardinality({x \in Starts(quotes) : s < x /\ x < z.at}) = 1
  BY <1>10, FS_Singleton
<1>12. z \in Zone(BarOf(s, quotes), BarOf(z.at, quotes))
  <2> DEFINE b1 == BarOf(s, quotes)
             b3 == BarOf(u, quotes)
  <2>1. series[1] = Tagged(b1, series[1].warmup) /\ series[3] = Tagged(b3, series[3].warmup)
    BY <1>2, <1>4 DEF Whole
  <2> HIDE DEF b1, b3
  <2>2. \A b, w : Tagged(b, w).at = b.at /\ Tagged(b, w).low = b.low /\ Tagged(b, w).high = b.high
    BY DEF Tagged
  <2>3. /\ series[1].low = b1.low /\ series[1].high = b1.high
        /\ series[3].at = b3.at /\ series[3].low = b3.low /\ series[3].high = b3.high
    BY <2>1, <2>2, ZenonT(40)
  <2>4. Zone(series[1], series[3]) = Zone(b1, b3)
    BY <2>3 DEF Zone
  <2> QED BY <1>9, <2>4 DEF b1, b3
<1> QED BY <1>6, <1>11, <1>12 DEF RealGap

\* What a step reports while nothing is missed is a gap of the broker's.
LEMMA StepReports ==
    ASSUME GapsConstants, GapsInv, GapsInv', [GapsNext]_gaps
    PROVE  \A n \in DOMAIN told' \ DOMAIN told : ~lost => RealGap(told'[n].zone)
<1> SUFFICES ASSUME NEW n \in DOMAIN told' \ DOMAIN told, ~lost PROVE RealGap(told'[n].zone)
  OBVIOUS
<1>1. Work
  <2>1. told' # told
    OBVIOUS
  <2> QED BY <2>1 DEF GapsNext, gaps, Moment, StartWarmup, WarmupDone, WarmupFailed, StartAgain, GoOffline, ComeOnline
<1>2. GapsTyped /\ GapsTyped'
  BY DEF GapsInv
<1> DEFINE b == Head(queue)
<1>3. /\ queue # <<>> /\ series' = SeriesWith(b) /\ UNCHANGED <<clock, tape, base, lost>>
      /\ \E z \in NewGaps : told' = Append(told, [zone |-> z, lost |-> lost])
  <2>1. told' # told
    OBVIOUS
  <2> QED BY <1>1, <2>1 DEF Work, NewGaps
<1>4. PICK z \in NewGaps : told' = Append(told, [zone |-> z, lost |-> lost])
  BY <1>3
<1>5. told'[n].zone = z
  <2> DEFINE R == [zone : ZoneSet, lost : BOOLEAN]
             x == [zone |-> z, lost |-> lost]
  <2>1. told \in Seq(R) /\ told' \in Seq(R) /\ NewGaps \subseteq ZoneSet /\ lost \in BOOLEAN
    BY <1>2, <1>3, NewGapsAre DEF GapsTyped
  <2>2. x \in R /\ x.zone = z
    BY <2>1
  <2>3. told' = Append(told, x)
    BY <1>4
  <2> HIDE DEF R, x
  <2>4. Len(told') = Len(told) + 1 /\ \A k \in 1..(Len(told) + 1) : told'[k] = IF k = Len(told) + 1 THEN x ELSE told[k]
    BY <2>1, <2>2, <2>3, AppendFacts
  <2>5. DOMAIN told' = 1..(Len(told) + 1) /\ DOMAIN told = 1..Len(told) /\ Len(told) \in Nat
    BY <2>1, <2>4, SeqFacts
  <2>6. n = Len(told) + 1 /\ n \in 1..(Len(told) + 1)
    BY <2>5
  <2> QED BY <2>2, <2>4, <2>6
<1>6. Len(series') = 3 /\ z \in Zone(series'[1], series'[3])
  BY <1>2, <1>3, NewGapsAre
<1>7. GapsConstants' /\ ThreeBars'
  BY <1>3, <1>6 DEF GapsInv, NothingMissed, GapsConstants, ThreeBars
<1>8. ZoneIsReal'
  <2>1. GapsConstants' /\ ThreeBars' => ZoneIsReal'
    BY ThreeInARow, PTL
  <2> QED BY <1>7, <2>1
<1>9. RealGap(z)'
  BY <1>6, <1>8 DEF ZoneIsReal, Zone
<1>10. quotes' = quotes
  BY <1>3 DEF quotes
<1>11. RealGap(z)
  <2>1. Starts(quotes)' = Starts(quotes)
    BY <1>3, <1>10 DEF Starts, StartFor
  <2>2. \A x : BarOf(x, quotes)' = BarOf(x, quotes)
    BY <1>10 DEF BarOf, In
  <2>3. PICK s \in Starts(quotes)' : /\ z \in Zone(BarOf(s, quotes)', BarOf(z.at, quotes)')
                                     /\ Cardinality({t \in Starts(quotes)' : s < t /\ t < z.at}) = 1
    BY <1>9 DEF RealGap, Zone
  <2>4. Zone(BarOf(s, quotes)', BarOf(z.at, quotes)') = Zone(BarOf(s, quotes), BarOf(z.at, quotes))
    BY <2>2
  <2>5. {t \in Starts(quotes)' : s < t /\ t < z.at} = {t \in Starts(quotes) : s < t /\ t < z.at}
    BY <2>1
  <2>6. s \in Starts(quotes) /\ z \in Zone(BarOf(s, quotes), BarOf(z.at, quotes))
    BY <2>1, <2>3, <2>4
  <2>7. Cardinality({t \in Starts(quotes) : s < t /\ t < z.at}) = 1
    BY <2>3, <2>5
  <2> QED BY <2>6, <2>7 DEF RealGap
<1> QED BY <1>5, <1>11, Zenon

\* Every step keeps the invariant.
LEMMA StepGaps == ASSUME GapsConstants, GapsInv, [GapsNext]_gaps PROVE GapsInv'
<1>1. CASE Moment
  BY <1>1, MomentKeeps
<1>2. CASE QuietStep
  BY <1>2, QuietKeeps
<1>3. CASE WarmupDone
  BY <1>3, WarmupKeeps
<1>4. CASE Work
  BY <1>4, WorkKeeps
<1>5. CASE StartAgain
  BY <1>5, StartAgainKeeps
<1> QED BY <1>1, <1>2, <1>3, <1>4, <1>5 DEF GapsNext, QuietStep

\* Bars that the detector takes for whole ones are the broker's, the registry has no gap that a
\* later bar has filled, and a gap is reported once (BarAggregator, FVGWarmupCoordinator,
\* FVGDetector, FVGRegistry), unless something was missed.
THEOREM GapsAreKept == ASSUME GapsConstants PROVE GapsSpec => []GapsKept
<1>1. GapsInit => GapsInv
  BY GapsStart
<1>2. GapsInv /\ [GapsNext]_gaps => GapsInv'
  BY StepGaps
<1>3. GapsInv => GapsKept
  <2> SUFFICES ASSUME GapsInv PROVE GapsKept
    OBVIOUS
  <2>1. GapsTypeOK
    BY DEF GapsInv, GapsTyped, GapsTypeOK
  <2>2. BarsAreWhole
    BY DEF GapsInv, SeriesGrows, NothingMissed, WholeIn, BarsAreWhole
  <2> QED BY <2>1, <2>2 DEF GapsInv, GapsKept
<1> QED BY <1>1, <1>2, <1>3, PTL DEF GapsSpec

\* A gap that processCompletedBar reports while nothing is missed is one between neighbouring
\* bars of the broker.
THEOREM ReportedGapsAreReal == ASSUME GapsConstants PROVE GapsSpec => GapsAreReal
<1> DEFINE Reports == \A n \in DOMAIN told' \ DOMAIN told : ~lost => RealGap(told'[n].zone)
<1>1. GapsInit => GapsInv
  BY GapsStart
<1>2. GapsInv /\ [GapsNext]_gaps => GapsInv' /\ [Reports]_gaps
  BY StepGaps, StepReports
<1> QED BY <1>1, <1>2, PTL DEF GapsSpec, GapsAreReal
=============================================================================
