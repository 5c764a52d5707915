--------------------------- MODULE RequestsProofs ---------------------------
(***************************************************************************)
(* What requests are told and what a plan allows: RequestsKept of          *)
(* AlertRequests and PlanKept of DeliveryQuota, which share no state.      *)
(*                                                                         *)
(* The requests about alerts, for any handlers, alerts and requests, and   *)
(* any number of failed writes and restarts.  The invariant says what each *)
(* handler knows of the alerts it has in hand and how far its creation is; *)
(* a step of a handler has a Result for it, and Preserved makes the        *)
(* invariant of that.                                                      *)
(*                                                                         *)
(* The plan, for any number of notifications and requests under way and    *)
(* any limits.  What went out is known only up to what was taken and not   *)
(* counted yet: that many may join those the counter shows, and those that *)
(* were under way at each restart.  Who reads the counter below the limit  *)
(* goes out, and the others who read it with him have their place among    *)
(* the Sends; a lapse lets one more out or leaves one uncounted.  Of the   *)
(* alerts, those let through and not yet made are added: a request that is *)
(* let through leaves room for what the others have been let through for.  *)
(***************************************************************************)
EXTENDS AlertRequests, DeliveryQuota, FiniteSetTheorems, TLAPS

-----------------------------------------------------------------------------
(* What a handler has in hand, by what it is doing: s is hand[h], c the      *)
(* cache, t the table, x the alerts two handlers have worked on at once.     *)

Ids(s) == Ask[s.ask].ids
HoldsIn(s) == IF s.at \in {"save", "found", "erase", "row", "undone", "checked"} THEN {s.id}
              ELSE IF s.at = "parent" THEN {s.id, Ask[s.ask].after}
              ELSE IF s.at \in {"rows", "unmake"} THEN Range(Ids(s)) ELSE {}
\* With what it is about to delete.
Touches(s) == HoldsIn(s) \cup IF s.at = "drop" THEN {s.id} ELSE {}
\* What it creates, or takes back, at this moment.
Own(s) == IF s.at \in {"insert", "row", "parent", "undo", "undone"} THEN {Ids(s)[s.n]}
          ELSE IF s.at \in {"commit", "rows", "unmake"} THEN Range(Ids(s)) ELSE {}

Making == {"insert", "parent", "row", "undo", "undone", "commit", "rows", "unmake"}
\* A handler at work has a request, which is of the kind it treats, and has checked it.
AtWork(s, answers) ==
    /\ s.at # "ready" => s.ask \in Asks /\ answers[s.ask] = "none" /\ s.n \in 1..Len(Ids(s))
    /\ s.at = "ready" => s = Ready
    /\ s.at \in Making \cup {"refuse"} => Creation(s.ask)
    /\ s.at \in Making => Fits(Ask[s.ask])
    /\ s.at = "commit" => s.n = 1
    /\ s.at \in {"parent", "row", "undone"} => s.id = Ids(s)[s.n]
    /\ s.at = "parent" => Ask[s.ask].after \in Alerts /\ s.other.live
    /\ s.at \in {"parent", "row", "save", "erase", "undone"} => s.row.live
    /\ s.at = "unmake" => \E k \in 1..Len(Ids(s)) : s.n < k /\ s.id = Ids(s)[k]
    /\ s.at \in {"found", "drop", "erase", "checked", "save"} => s.id = Ids(s)[1]
    /\ s.at = "own" => Ask[s.ask].kind \in {"delete", "get"}
    /\ s.at = "found" => Ask[s.ask].kind = "get"
    /\ s.at \in {"drop", "erase"} => Ask[s.ask].kind = "delete"
    /\ s.at \in {"check", "checked", "save"} => Ask[s.ask].kind = "update"
    /\ s.at = "save" => s.other.live
HandsRight == /\ \A h \in Handlers : AtWork(hand[h], reply)
              /\ \A g, h \in Handlers : g # h /\ hand[g].at # "ready" => hand[g].ask # hand[h].ask

\* There is nothing of an alert, and nobody has it in hand.
Clear(a, c, t, hs) == c[a] = Absent /\ t[a] = Absent /\ \A h \in Handlers : a \notin Touches(hs[h])
\* There never was: no alert waits for it either.
Unborn(a, c, t, hs) == /\ Clear(a, c, t, hs)
                       /\ \A b \in Alerts : c[b].after # a /\ t[b].after # a
                       /\ \A h \in Handlers : hs[h].row.after # a /\ hs[h].other.after # a
NotBegun(q, answers, hs) == answers[q] = "none" /\ \A h \in Handlers : hs[h].ask # q
Ahead(s, i) == \/ s.at \in {"refuse", "commit"}
               \/ s.at = "insert" /\ i >= s.n
               \/ s.at \in {"parent", "row"} /\ i > s.n
Begins(q, c, t, hs, answers) == NotBegun(q, answers, hs) => \A i \in 1..Len(Ask[q].ids) : Unborn(Ask[q].ids[i], c, t, hs)
Comes(s, c, t, hs) == s.at # "ready" => \A i \in 1..Len(Ids(s)) : Ahead(s, i) => Unborn(Ids(s)[i], c, t, hs)
NewAreNew == /\ \A q \in Asks : Creation(q) => Begins(q, cache, rows, hand, reply)
             /\ \A h \in Handlers : Comes(hand[h], cache, rows, hand)

-----------------------------------------------------------------------------
(* An alert that two handlers have not worked on at once                     *)

\* It is in the hands of one handler at most; when in those of none, the table has it as the
\* cache has.
OneHolder == \A g, h \in Handlers : g # h => HoldsIn(hand[g]) \cap HoldsIn(hand[h]) \subseteq torn
Agreed == \A a \in Alerts \ torn : (\A h \in Handlers : a \notin HoldsIn(hand[h])) => cache[a] = rows[a]

\* The handler knows what cache and table have.
BatchRow(s) == Row(None, None, Ask[s.ask].text, Ask[s.ask].msg)
Knows(s, c, t, x) ==
    /\ s.at \in {"found", "checked"} /\ s.id \notin x => c[s.id] = t[s.id] /\ c[s.id].live
    /\ s.at = "checked" /\ s.id \notin x => Fits(With(c[s.id], Ask[s.ask]))
    /\ s.at = "save" /\ s.id \notin x => c[s.id] = s.row /\ t[s.id] = s.other
    /\ s.at \in {"erase", "undone"} /\ s.id \notin x => c[s.id] = Absent
    /\ s.at \in {"row", "parent"} /\ s.id \notin x => c[s.id] = s.row /\ t[s.id] = Absent
    /\ s.at = "parent" /\ Ask[s.ask].after \notin x => c[Ask[s.ask].after] = s.other
    /\ s.at = "rows" => \A i \in 1..Len(Ids(s)) : Ids(s)[i] \notin x =>
          c[Ids(s)[i]] = BatchRow(s) /\ t[Ids(s)[i]] = IF i < s.n THEN BatchRow(s) ELSE Absent
    /\ s.at = "unmake" => \A i, k \in 1..Len(Ids(s)) : Ids(s)[i] \notin x /\ s.id = Ids(s)[k] =>
          c[Ids(s)[i]] = Absent /\ (i < s.n \/ i >= k => t[Ids(s)[i]] = Absent)
HandsKnow == \A h \in Handlers : Knows(hand[h], cache, rows, torn)

\* Its channels have a text, in cache and table.
HasText(row) == row.live => Fits(row)
TextsFit == \A a \in Alerts \ torn : HasText(cache[a]) /\ HasText(rows[a])

\* It is of the chain of the alert it waits for: in the cache only, while the row of that one
\* is due.
IsDue(a, p, hs) == \E h \in Handlers : hs[h].at = "parent" /\ hs[h].id = a /\ Ask[hs[h].ask].after = p
Waits(y, x) == y.live /\ y.after \in Alerts \ x
Linked(y, c, t, due) == /\ y.chain # None
                        /\ c[y.after].live => c[y.after].chain = y.chain
                        /\ t[y.after].live => t[y.after].chain = y.chain \/ due
Chained(a, c, t, hs, x) == /\ Waits(t[a], x) => Linked(t[a], c, t, FALSE)
                           /\ Waits(c[a], x) => Linked(c[a], c, t, IsDue(a, c[a].after, hs))
ChainsMatch == \A a \in Alerts \ torn : Chained(a, cache, rows, hand, torn)

-----------------------------------------------------------------------------
(* The alerts of a creation                                                  *)

Gone(a, c, t, hs, x) == a \notin x \cup Deleted => Clear(a, c, t, hs)
Made(a, c, t) == a \notin Deleted => c[a].live /\ t[a].live
Answered(q, c, t, hs, x, answers) == \A i \in 1..Len(Ask[q].ids) :
    /\ answers[q] = "made" => Made(Ask[q].ids[i], c, t)
    /\ answers[q] = "refused" => Gone(Ask[q].ids[i], c, t, hs, x)
RepliesRight == \A q \in Asks : Creation(q) => Answered(q, cache, rows, hand, torn, reply)

\* How far it is: the alerts before the one in hand, that one and those after it.
Before(s, i) == s.at \in {"insert", "parent", "row", "undo", "undone"} /\ (i < s.n \/ (s.at = "undo" /\ i = s.n))
After(s, i) == s.at \in {"undo", "undone"} /\ i > s.n
Progress(s, c, t, hs, x) == s.at # "ready" => \A i \in 1..Len(Ids(s)) :
    /\ Before(s, i) => Made(Ids(s)[i], c, t)
    /\ After(s, i) => Gone(Ids(s)[i], c, t, hs, x)
    /\ s.at \in {"row", "parent"} /\ i = s.n /\ Ids(s)[i] \notin Deleted => c[Ids(s)[i]].live
    /\ s.at = "rows" /\ Ids(s)[i] \notin Deleted => c[Ids(s)[i]].live /\ (i < s.n => t[Ids(s)[i]].live)
CreationsRight == \A h \in Handlers : Progress(hand[h], cache, rows, hand, torn)

\* Who was told that an alert is not there was told so of one that was worked on at once.
ReadsRight == \A q \in Asks : reply[q] = "undefined" => Range(Ask[q].ids) \subseteq torn

Basis == RequestsTypeOK /\ HandsRight /\ NewAreNew
RequestsInv == /\ Basis
               /\ OneHolder /\ Agreed /\ HandsKnow /\ TextsFit /\ ChainsMatch
               /\ RepliesRight /\ CreationsRight /\ ReadsRight

-----------------------------------------------------------------------------
(* A step of one handler *)

HandType == [at : Ats, ask : Asks \cup {None}, n : 0..Cardinality(Alerts),
             id : Alerts \cup {None}, row : RowType, other : RowType]

\* It goes on with its request, or is done with it.
GoesOn(h, s) == /\ s \in HandType /\ s.at # "ready" /\ s.ask = hand[h].ask /\ AtWork(s, reply)
                /\ hand' = [hand EXCEPT ![h] = s] /\ reply' = reply
IsDone(h, r) == /\ r \in Replies \ {"none"} /\ Answer(h, r)
                /\ r = "undefined" => Range(Ids(hand[h])) \subseteq torn'

\* What it does to the alerts: outside torn only to those it has in hand, and it takes none
\* that another has; what is not there, nor its own, stays away; what is there, and not its
\* own, stays unless there is a request to delete it; and it names no alert that was named
\* nowhere and is not there.
NotNamed(v, c, t, s) == /\ \A b \in Alerts : c[b].after # v /\ t[b].after # v
                        /\ s.row.after # v /\ s.other.after # v
Minds(h) ==
    /\ \A a \in Alerts \ torn' : a \notin HoldsIn(hand[h]) \cup HoldsIn(hand'[h]) =>
          cache'[a] = cache[a] /\ rows'[a] = rows[a]
    /\ \A g \in Handlers \ {h} : HoldsIn(hand'[h]) \cap HoldsIn(hand[g]) \subseteq torn' \cup HoldsIn(hand[h])
Creeps(h) ==
    /\ \A a \in Alerts \ Own(hand[h]) : ~cache[a].live /\ a \notin Touches(hand[h]) =>
          cache'[a] = cache[a] /\ rows'[a] = rows[a] /\ a \notin Touches(hand'[h])
    /\ \A a \in Alerts \ (Own(hand[h]) \cup Deleted) :
          (cache[a].live => cache'[a].live) /\ (rows[a].live => rows'[a].live)
    /\ \A v \in Alerts : ~cache[v].live /\ NotNamed(v, cache, rows, hand[h]) =>
          NotNamed(v, cache', rows', hand'[h])
Typed == /\ cache' \in [Alerts -> RowType] /\ rows' \in [Alerts -> RowType]
         /\ failures' \in 0..MaxFailures /\ crashes' \in 0..MaxCrashes
         /\ torn' \subseteq Alerts /\ torn \subseteq torn'
\* What it lets go of is the same in cache and table; it has no more ahead than before.
LetsGo(h) == \A a \in HoldsIn(hand[h]) \ (HoldsIn(hand'[h]) \cup torn') : cache'[a] = rows'[a]
Closer(h) == hand'[h].at # "ready" => \A i \in 1..Len(Ids(hand'[h])) :
                Ahead(hand'[h], i) => Ahead(hand[h], i) /\ Ids(hand[h])[i] \notin Own(hand[h])

\* Its hand has changed, and no other.
Moved(h) == /\ hand' \in [Handlers -> HandType] /\ reply' \in [Asks -> Replies]
            /\ HandsRight'
            /\ \A g \in Handlers \ {h} : hand'[g] = hand[g]
            /\ hand'[h].at # "ready" => hand'[h].ask = hand[h].ask
            /\ \A q \in Asks : q # hand[h].ask => reply'[q] = reply[q]
            /\ \A q \in Asks : NotBegun(q, reply', hand') => NotBegun(q, reply, hand) /\ q # hand[h].ask

\* Only its hand and its answer change, and it is still one handler to a request.
LEMMA Hands ==
    ASSUME RequestsConstants, RequestsTypeOK, HandsRight, NEW h \in Handlers, hand[h].at # "ready",
           (\E s : GoesOn(h, s)) \/ (\E r : IsDone(h, r))
    PROVE  Moved(h)
<1> DEFINE q0 == hand[h].ask
<1>0. /\ q0 \in Asks /\ reply[q0] = "none" /\ hand \in [Handlers -> HandType] /\ reply \in [Asks -> Replies]
      /\ \A g \in Handlers : g # h => hand[g].ask # q0
  BY DEF HandsRight, AtWork, RequestsTypeOK, HandType
<1>1. CASE \E s : GoesOn(h, s)
  <2> PICK s : GoesOn(h, s)
    BY <1>1
  <2>1. hand' \in [Handlers -> HandType] /\ reply' = reply /\ hand'[h] = s /\ s.ask = q0 /\ s.at # "ready"
    BY <1>0 DEF GoesOn
  <2>2. \A g \in Handlers \ {h} : hand'[g] = hand[g]
    BY <1>0 DEF GoesOn
  <2>3. \A g \in Handlers : AtWork(hand'[g], reply')
    BY <2>1, <2>2 DEF HandsRight, GoesOn
  <2>4. \A g, k \in Handlers : g # k /\ hand'[g].at # "ready" => hand'[g].ask # hand'[k].ask
    BY <1>0, <2>1, <2>2 DEF HandsRight
  <2>5. HandsRight'
    BY <2>3, <2>4 DEF HandsRight
  <2>6. \A q \in Asks : NotBegun(q, reply', hand') => NotBegun(q, reply, hand) /\ q # q0
    BY <1>0, <2>1, <2>2 DEF NotBegun
  <2> QED BY <1>0, <2>1, <2>2, <2>5, <2>6 DEF Moved
<1>2. CASE \E r : IsDone(h, r)
  <2> PICK r : IsDone(h, r)
    BY <1>2
  <2>1. hand'[h] = Ready /\ r # "none" /\ r \in Replies
    BY <1>0 DEF IsDone, Answer
  <2>2. \A g \in Handlers \ {h} : hand'[g] = hand[g]
    BY <1>0 DEF IsDone, Answer
  <2>3. reply' \in [Asks -> Replies] /\ reply'[q0] = r /\ \A q \in Asks : q # q0 => reply'[q] = reply[q]
    BY <1>0, <2>1 DEF IsDone, Answer
  <2>4. Ready \in HandType
    <3>1. \A b \in BOOLEAN : [live |-> b, chain |-> None, after |-> None, text |-> b, msg |-> b] \in RowType
      BY DEF RowType
    <3>2. Absent \in RowType
      BY <3>1, Zenon DEF Absent
    <3>3. Cardinality(Alerts) \in Nat
      BY FS_CardinalityType DEF RequestsConstants
    <3> QED BY <3>2, <3>3 DEF HandType, Ready, Ats
  <2>5. hand' \in [Handlers -> HandType]
    BY <1>0, <2>4 DEF IsDone, Answer
  <2>6. \A g \in Handlers : AtWork(hand'[g], reply')
    <3>1. AtWork(Ready, reply')
      BY DEF AtWork, Ready, Making
    <3>2. ASSUME NEW g \in Handlers \ {h} PROVE AtWork(hand[g], reply')
      <4>1. AtWork(hand[g], reply) /\ (hand[g].at # "ready" => hand[g].ask \in Asks /\ hand[g].ask # q0)
        BY <1>0 DEF HandsRight, AtWork
      <4>2. hand[g].at # "ready" => reply'[hand[g].ask] = reply[hand[g].ask]
        BY <4>1, <2>3
      <4> QED BY <4>1, <4>2 DEF AtWork
    <3> QED BY <2>1, <2>2, <3>1, <3>2
  <2>7. \A g, k \in Handlers : g # k /\ hand'[g].at # "ready" => hand'[g].ask # hand'[k].ask
    <3>1. Ready.at = "ready" /\ Ready.ask = None
      BY DEF Ready
    <3>2. \A g \in Handlers : hand[g].at # "ready" => hand[g].ask # None
      BY DEF HandsRight, AtWork, RequestsConstants
    <3> QED BY <2>1, <2>2, <3>1, <3>2 DEF HandsRight
  <2>8. HandsRight'
    BY <2>6, <2>7 DEF HandsRight
  <2>9. \A q \in Asks : NotBegun(q, reply', hand') => NotBegun(q, reply, hand) /\ q # q0
    <3> TAKE q \in Asks
    <3> HAVE NotBegun(q, reply', hand')
    <3>1. q # q0
      BY <2>1, <2>3 DEF NotBegun
    <3> QED BY <1>0, <2>2, <2>3, <3>1 DEF NotBegun
  <2>10. Ready.at = "ready"
    BY DEF Ready
  <2> QED BY <1>0, <2>1, <2>2, <2>3, <2>5, <2>8, <2>9, <2>10 DEF Moved
<1> QED BY <1>1, <1>2

-----------------------------------------------------------------------------
(* What a step of one handler leaves to the others *)

\* The alerts of one creation are not those of another.
LEMMA Apart ==
    ASSUME RequestsConstants, HandsRight, NEW h \in Handlers, NEW q \in Asks, Creation(q), q # hand[h].ask,
           NEW i \in 1..Len(Ask[q].ids)
    PROVE  Ask[q].ids[i] \in Alerts \ Own(hand[h])
<1> DEFINE s == hand[h]
<1>1. /\ \A r \in Asks : Ask[r].ids \in Seq(Alerts) /\ \A j \in 1..Len(Ask[r].ids) : Ask[r].ids[j] \in Range(Ask[r].ids)
      /\ Ask[q].ids[i] \in Alerts
  <2>1. \A r \in Asks : Ask[r].ids \in Seq(Alerts)
    BY DEF RequestsConstants
  <2> QED BY <2>1 DEF Range
<1>2. CASE s.at \notin Making
  BY <1>1, <1>2 DEF Own, Making
<1>3. CASE s.at \in Making
  <2>1. s.ask \in Asks /\ Creation(s.ask) /\ s.n \in 1..Len(Ask[s.ask].ids)
    BY <1>3 DEF HandsRight, AtWork, Making, Ids
  <2>2. Own(s) \subseteq Range(Ask[s.ask].ids)
    BY <1>1, <2>1 DEF Own, Ids
  <2>3. Range(Ask[q].ids) \cap Range(Ask[s.ask].ids) = {}
    BY <2>1 DEF RequestsConstants
  <2> QED BY <1>1, <2>2, <2>3
<1> QED BY <1>2, <1>3

\* Of one creation no alert comes twice.
LEMMA Distinct ==
    ASSUME RequestsConstants, NEW q \in Asks, Creation(q), NEW i \in 1..Len(Ask[q].ids), NEW j \in 1..Len(Ask[q].ids),
           Ask[q].ids[i] = Ask[q].ids[j]
    PROVE  i = j
<1>1. IsInjective(Ask[q].ids) /\ DOMAIN Ask[q].ids = 1..Len(Ask[q].ids)
  BY DEF RequestsConstants
<1> QED BY <1>1 DEF IsInjective

\* The same, of what a handler has to create.
LEMMA DistinctIds ==
    ASSUME RequestsConstants, NEW s, s.ask \in Asks, Creation(s.ask), NEW i \in 1..Len(Ids(s)), NEW j \in 1..Len(Ids(s)),
           Ids(s)[i] = Ids(s)[j]
    PROVE  i = j
BY Distinct DEF Ids

\* What is new, what is not there and what was made stay so.
LEMMA StaysUnborn ==
    ASSUME RequestsTypeOK, NEW h \in Handlers, Moved(h), Creeps(h), NEW a \in Alerts \ Own(hand[h])
    PROVE  /\ Clear(a, cache, rows, hand) => Clear(a, cache', rows', hand')
           /\ Unborn(a, cache, rows, hand) => Unborn(a, cache', rows', hand')
<1>1. ASSUME Clear(a, cache, rows, hand) PROVE Clear(a, cache', rows', hand')
  <2>1. ~cache[a].live /\ a \notin Touches(hand[h])
    BY <1>1 DEF Clear, Absent
  <2>2. cache'[a] = cache[a] /\ rows'[a] = rows[a] /\ a \notin Touches(hand'[h])
    BY <2>1 DEF Creeps
  <2> QED BY <1>1, <2>2 DEF Clear, Moved
<1>2. ASSUME Unborn(a, cache, rows, hand) PROVE Unborn(a, cache', rows', hand')
  <2>1. ~cache[a].live /\ NotNamed(a, cache, rows, hand[h])
    BY <1>2 DEF Unborn, Clear, Absent, NotNamed
  <2>2. NotNamed(a, cache', rows', hand'[h])
    BY <2>1 DEF Creeps
  <2>3. \A g \in Handlers : hand'[g].row.after # a /\ hand'[g].other.after # a
    BY <1>2, <2>2 DEF Unborn, NotNamed, Moved
  <2> QED BY <1>1, <1>2, <2>2, <2>3 DEF Unborn, NotNamed
<1> QED BY <1>1, <1>2

\* What no creation has begun is still nowhere after a step of a handler.
LEMMA NewStayNew ==
    ASSUME RequestsConstants, Basis, NEW h \in Handlers, hand[h].at # "ready", Moved(h), Creeps(h), Closer(h)
    PROVE  NewAreNew'
<1>1. ASSUME NEW q \in Asks, Creation(q) PROVE Begins(q, cache', rows', hand', reply')
  <2> SUFFICES ASSUME NotBegun(q, reply', hand'), NEW i \in 1..Len(Ask[q].ids)
               PROVE  Unborn(Ask[q].ids[i], cache', rows', hand')
    BY DEF Begins
  <2>1. NotBegun(q, reply, hand) /\ q # hand[h].ask
    BY DEF Moved
  <2>2. Unborn(Ask[q].ids[i], cache, rows, hand)
    BY <1>1, <2>1 DEF Basis, NewAreNew, Begins
  <2>3. Ask[q].ids[i] \in Alerts \ Own(hand[h])
    BY <1>1, <2>1, Apart DEF Basis
  <2> QED BY <2>2, <2>3, StaysUnborn DEF Basis
<1>2. ASSUME NEW g \in Handlers PROVE Comes(hand'[g], cache', rows', hand')
  <2> SUFFICES ASSUME hand'[g].at # "ready", NEW i \in 1..Len(Ids(hand'[g])), Ahead(hand'[g], i)
               PROVE  Unborn(Ids(hand'[g])[i], cache', rows', hand')
    BY DEF Comes
  <2>1. CASE g # h
    <3>1. hand'[g] = hand[g] /\ hand[g].ask # hand[h].ask
      BY <2>1 DEF Moved, Basis, HandsRight
    <3>2. AtWork(hand[g], reply) /\ hand[g].at \in Making \cup {"refuse"}
      BY <3>1 DEF Ahead, Making, Basis, HandsRight
    <3>3. hand[g].ask \in Asks /\ Creation(hand[g].ask)
      BY <3>1, <3>2 DEF AtWork
    <3>4. Unborn(Ids(hand[g])[i], cache, rows, hand)
      BY <3>1 DEF Basis, NewAreNew, Comes
    <3>5. Ids(hand[g])[i] \in Alerts \ Own(hand[h])
      BY <3>1, <3>3, Apart DEF Basis, Ids
    <3> QED BY <3>1, <3>4, <3>5, StaysUnborn DEF Basis
  <2>2. CASE g = h
    <3>1. Ids(hand'[h]) = Ids(hand[h])
      BY <2>2 DEF Moved, Ids
    <3>2. Ahead(hand[h], i) /\ Ids(hand[h])[i] \notin Own(hand[h])
      BY <2>2, <3>1 DEF Closer
    <3>3. Unborn(Ids(hand[h])[i], cache, rows, hand)
      BY <2>2, <3>1, <3>2 DEF Basis, NewAreNew, Comes
    <3>4. Ids(hand[h])[i] \in Alerts
      <4>1. hand[h].ask \in Asks
        BY DEF Basis, HandsRight, AtWork
      <4>2. Ids(hand[h]) \in Seq(Alerts)
        BY <4>1 DEF RequestsConstants, Ids
      <4> QED BY <2>2, <3>1, <4>2
    <3> QED BY <2>2, <3>1, <3>2, <3>3, <3>4, StaysUnborn DEF Basis
  <2> QED BY <2>1, <2>2
<1> QED BY <1>1, <1>2 DEF NewAreNew

\* What a handler has in hand are alerts.
LEMMA HoldsAlerts ==
    ASSUME RequestsConstants, HandsRight, NEW h \in Handlers
    PROVE  /\ HoldsIn(hand[h]) \subseteq Alerts
           /\ hand[h].at = "drop" => hand[h].id \in Alerts
           /\ hand[h].at # "ready" => /\ hand[h].ask \in Asks /\ reply[hand[h].ask] = "none"
                                      /\ Ids(hand[h]) \in Seq(Alerts) /\ Range(Ids(hand[h])) \subseteq Alerts
                                      /\ hand[h].n \in 1..Len(Ids(hand[h])) /\ 1 \in 1..Len(Ids(hand[h]))
<1> DEFINE s == hand[h]
<1>1. CASE s.at = "ready"
  BY <1>1 DEF HoldsIn
<1>2. CASE s.at # "ready"
  <2>1. AtWork(s, reply) /\ s.ask \in Asks /\ reply[s.ask] = "none" /\ s.n \in 1..Len(Ids(s))
    BY <1>2 DEF HandsRight, AtWork
  <2>2. Ids(s) \in Seq(Alerts) /\ Ids(s) # <<>>
    BY <2>1 DEF RequestsConstants, Ids
  <2>3. /\ \A i \in 1..Len(Ids(s)) : Ids(s)[i] \in Alerts
        /\ Range(Ids(s)) \subseteq Alerts /\ 1 \in 1..Len(Ids(s))
    BY <2>2 DEF Range
  <2>4. /\ s.at \in {"parent", "row", "undone"} => s.id = Ids(s)[s.n]
        /\ s.at \in {"found", "drop", "erase", "checked", "save"} => s.id = Ids(s)[1]
        /\ s.at = "parent" => Ask[s.ask].after \in Alerts
    BY <2>1 DEF AtWork
  <2>5. HoldsIn(s) \subseteq Alerts
    BY <2>1, <2>3, <2>4 DEF HoldsIn
  <2> QED BY <2>1, <2>2, <2>3, <2>4, <2>5
<1> QED BY <1>1, <1>2

\* What another has in hand is as it was, and it goes on knowing it.
LEMMA KnowsSame ==
    ASSUME NEW s, NEW c, NEW t, NEW c2, NEW t2, NEW x, NEW x2, Knows(s, c, t, x), x \subseteq x2,
           s.at # "ready" => Ids(s) \in Seq(Alerts),
           \A a \in HoldsIn(s) \ x2 : c2[a] = c[a] /\ t2[a] = t[a]
    PROVE  Knows(s, c2, t2, x2)
<1>1. CASE s.at \in {"save", "found", "erase", "row", "undone", "checked"}
  <2>1. s.id \notin x2 => c2[s.id] = c[s.id] /\ t2[s.id] = t[s.id]
    BY <1>1 DEF HoldsIn
  <2> QED BY <1>1, <2>1 DEF Knows
<1>2. CASE s.at = "parent"
  <2>1. \A a \in {s.id, Ask[s.ask].after} \ x2 : c2[a] = c[a] /\ t2[a] = t[a]
    BY <1>2 DEF HoldsIn
  <2> QED BY <1>2, <2>1 DEF Knows
<1>3. CASE s.at \in {"rows", "unmake"}
  <2>1. \A i \in 1..Len(Ids(s)) : Ids(s)[i] \in HoldsIn(s)
    <3>1. Ids(s) \in Seq(Alerts) /\ HoldsIn(s) = Range(Ids(s))
      BY <1>3 DEF HoldsIn
    <3> QED BY <3>1 DEF Range
  <2>2. \A i \in 1..Len(Ids(s)) : Ids(s)[i] \notin x2 =>
           Ids(s)[i] \notin x /\ c2[Ids(s)[i]] = c[Ids(s)[i]] /\ t2[Ids(s)[i]] = t[Ids(s)[i]]
    BY <2>1
  <2>3. CASE s.at = "rows"
    BY <2>2, <2>3 DEF Knows
  <2>4. CASE s.at = "unmake"
    BY <2>2, <2>4 DEF Knows
  <2> QED BY <1>3, <2>3, <2>4
<1>4. CASE s.at \notin {"save", "found", "erase", "row", "undone", "checked", "parent", "rows", "unmake"}
  BY <1>4 DEF Knows
<1> QED BY <1>1, <1>2, <1>3, <1>4

\* What the others know of the alerts in their hands is still so.
LEMMA OthersKnow ==
    ASSUME RequestsConstants, RequestsTypeOK, HandsRight, OneHolder, Agreed, HandsKnow, NEW h \in Handlers,
           Moved(h), Typed, Minds(h), LetsGo(h), Knows(hand'[h], cache', rows', torn')
    PROVE  OneHolder' /\ Agreed' /\ HandsKnow'
<1>1. \A g \in Handlers \ {h} : hand'[g] = hand[g]
  BY DEF Moved
<1>2. \A g \in Handlers \ {h} : HoldsIn(hand'[h]) \cap HoldsIn(hand[g]) \subseteq torn'
  BY DEF Minds, OneHolder, Typed
<1>3. OneHolder'
  BY <1>1, <1>2 DEF OneHolder, Typed
<1>4. ASSUME NEW g \in Handlers \ {h} PROVE Knows(hand'[g], cache', rows', torn')
  <2>1. \A a \in HoldsIn(hand[g]) \ torn' : a \in Alerts /\ a \notin HoldsIn(hand[h]) \cup HoldsIn(hand'[h])
    BY <1>2, HoldsAlerts DEF OneHolder, Typed
  <2>2. \A a \in HoldsIn(hand[g]) \ torn' : cache'[a] = cache[a] /\ rows'[a] = rows[a]
    BY <2>1 DEF Minds
  <2>3. Knows(hand[g], cache, rows, torn) /\ torn \subseteq torn'
    BY DEF HandsKnow, Typed
  <2>4. hand[g].at # "ready" => Ids(hand[g]) \in Seq(Alerts)
    BY HoldsAlerts
  <2> QED BY <1>1, <2>2, <2>3, <2>4, KnowsSame
<1>5. HandsKnow'
  BY <1>4 DEF HandsKnow
<1>6. Agreed'
  <2> SUFFICES ASSUME NEW a \in Alerts \ torn', \A g \in Handlers : a \notin HoldsIn(hand'[g])
               PROVE  cache'[a] = rows'[a]
    BY DEF Agreed
  <2>1. CASE a \in HoldsIn(hand[h])
    BY <2>1 DEF LetsGo
  <2>2. CASE a \notin HoldsIn(hand[h])
    <3>1. \A g \in Handlers : a \notin HoldsIn(hand[g])
      BY <1>1, <2>2
    <3>2. cache[a] = rows[a]
      BY <3>1 DEF Agreed, Typed
    <3> QED BY <2>2, <3>2 DEF Minds
  <2> QED BY <2>1, <2>2
<1> QED BY <1>3, <1>5, <1>6

\* What another creation has made, or has taken back, stays so, and so do answers.
LEMMA StaysMade ==
    ASSUME RequestsTypeOK, NEW h \in Handlers, Moved(h), Typed, Creeps(h), NEW a \in Alerts \ Own(hand[h])
    PROVE  /\ Made(a, cache, rows) => Made(a, cache', rows')
           /\ Gone(a, cache, rows, hand, torn) => Gone(a, cache', rows', hand', torn')
           /\ a \notin Deleted /\ cache[a].live => cache'[a].live
           /\ a \notin Deleted /\ rows[a].live => rows'[a].live
<1>1. a \notin Deleted => (cache[a].live => cache'[a].live) /\ (rows[a].live => rows'[a].live)
  BY DEF Creeps
<1>2. Made(a, cache, rows) => Made(a, cache', rows')
  BY <1>1 DEF Made
<1>3. Gone(a, cache, rows, hand, torn) => Gone(a, cache', rows', hand', torn')
  BY StaysUnborn DEF Gone, Typed
<1> QED BY <1>1, <1>2, <1>3

\* What other creations have made and been answered is still so.
LEMMA OthersCreate ==
    ASSUME RequestsConstants, RequestsTypeOK, HandsRight, RepliesRight, CreationsRight,
           NEW h \in Handlers, hand[h].at # "ready", Moved(h), Typed, Creeps(h),
           Progress(hand'[h], cache', rows', hand', torn'),
           Creation(hand[h].ask) => Answered(hand[h].ask, cache', rows', hand', torn', reply')
    PROVE  RepliesRight' /\ CreationsRight'
<1>1. ASSUME NEW q \in Asks, Creation(q) PROVE Answered(q, cache', rows', hand', torn', reply')
  <2>1. CASE q = hand[h].ask
    BY <1>1, <2>1
  <2>2. CASE q # hand[h].ask
    <3>1. reply'[q] = reply[q]
      BY <2>2 DEF Moved
    <3>2. \A i \in 1..Len(Ask[q].ids) : Ask[q].ids[i] \in Alerts \ Own(hand[h])
      BY <1>1, <2>2, Apart
    <3>3. Answered(q, cache, rows, hand, torn, reply)
      BY <1>1 DEF RepliesRight
    <3> QED BY <3>1, <3>2, <3>3, StaysMade DEF Answered
  <2> QED BY <2>1, <2>2
<1>2. ASSUME NEW g \in Handlers \ {h} PROVE Progress(hand'[g], cache', rows', hand', torn')
  <2> DEFINE s == hand[g]
  <2>1. hand'[g] = s /\ Progress(s, cache, rows, hand, torn)
    BY DEF Moved, CreationsRight
  <2>2. CASE s.at \notin Making
    BY <2>1, <2>2 DEF Progress, Before, After, Making
  <2>3. CASE s.at \in Making
    <3>1. s.ask \in Asks /\ Creation(s.ask) /\ s.ask # hand[h].ask
      BY <2>3 DEF HandsRight, AtWork, Making
    <3>2. \A i \in 1..Len(Ids(s)) : Ids(s)[i] \in Alerts \ Own(hand[h])
      BY <3>1, Apart DEF Ids
    <3>3. \A i \in 1..Len(Ids(s)) :
             /\ Made(Ids(s)[i], cache, rows) => Made(Ids(s)[i], cache', rows')
             /\ Gone(Ids(s)[i], cache, rows, hand, torn) => Gone(Ids(s)[i], cache', rows', hand', torn')
             /\ Ids(s)[i] \notin Deleted /\ cache[Ids(s)[i]].live => cache'[Ids(s)[i]].live
             /\ Ids(s)[i] \notin Deleted /\ rows[Ids(s)[i]].live => rows'[Ids(s)[i]].live
      BY <3>2, StaysMade
    <3> HIDE DEF s
    <3> QED BY <2>1, <3>3 DEF Progress
  <2> QED BY <2>2, <2>3
<1>3. \A g \in Handlers : Progress(hand'[g], cache', rows', hand', torn')
  BY <1>2
<1> QED BY <1>1, <1>3 DEF RepliesRight, CreationsRight

\* A row that is not there, or waits as another does.
Like(y, z) == y.live => z.live /\ y.after = z.after /\ y.chain = z.chain
\* No row is due of what a handler has in hand, unless it is to write it.
LEMMA NothingDue ==
    ASSUME RequestsConstants, HandsRight, OneHolder, NEW h \in Handlers, NEW a \in HoldsIn(hand[h]) \ torn, NEW b
    PROVE  /\ hand[h].at # "parent" => ~IsDue(a, b, hand) /\ ~IsDue(b, a, hand)
           /\ hand[h].at = "parent" /\ a = Ask[hand[h].ask].after => ~IsDue(a, b, hand)
<1>1. \A g \in Handlers : hand[g].at = "parent" => HoldsIn(hand[g]) = {hand[g].id, Ask[hand[g].ask].after}
  BY DEF HoldsIn
<1>2. \A g \in Handlers : g # h => a \notin HoldsIn(hand[g])
  BY DEF OneHolder
<1>3. hand[h].at = "parent" => Ask[hand[h].ask].after # hand[h].id
  <2> SUFFICES ASSUME hand[h].at = "parent" PROVE Ask[hand[h].ask].after # hand[h].id
    OBVIOUS
  <2>1. /\ hand[h].ask \in Asks /\ Creation(hand[h].ask)
        /\ hand[h].n \in 1..Len(Ask[hand[h].ask].ids) /\ hand[h].id = Ask[hand[h].ask].ids[hand[h].n]
    BY DEF HandsRight, AtWork, Making, Ids
  <2>2. Ask[hand[h].ask].ids \in Seq(Alerts)
    BY <2>1 DEF RequestsConstants
  <2>3. hand[h].id \in Range(Ask[hand[h].ask].ids)
    BY <2>1, <2>2 DEF Range
  <2>4. {First, Ask[hand[h].ask].after} \cap Range(Ask[hand[h].ask].ids) = {}
    BY <2>1 DEF RequestsConstants
  <2> QED BY <2>3, <2>4
<1> QED BY <1>1, <1>2, <1>3 DEF IsDue

\* Rows that are written as the cache has them, taken back or deleted keep the chains.
Keeps(h) ==
    /\ hand'[h].at # "parent"
    /\ \A a \in Alerts \ torn' :
         /\ \/ Like(cache'[a], cache[a])
            \/ Like(cache'[a], rows[a]) /\ a \in HoldsIn(hand[h]) /\ hand[h].at # "parent"
         /\ \/ Like(rows'[a], rows[a])
            \/ /\ Like(rows'[a], cache[a]) /\ a \in HoldsIn(hand[h])
               /\ hand[h].at = "parent" => a = Ask[hand[h].ask].after
    /\ hand[h].at = "parent" => \/ ~cache'[hand[h].id].live
                                \/ Ask[hand[h].ask].after \in torn'
                                \/ rows'[Ask[hand[h].ask].after] = cache'[Ask[hand[h].ask].after]

\* Chains still match when each alert is as it was in the cache or in the table.
LEMMA ChainsKept ==
    ASSUME RequestsConstants, RequestsTypeOK, HandsRight, OneHolder, ChainsMatch, NEW h \in Handlers,
           Moved(h), Typed, Keeps(h)
    PROVE  ChainsMatch'
<1>1. ASSUME NEW a \in Alerts \ torn', NEW p \in Alerts \ torn', IsDue(a, p, hand), ~IsDue(a, p, hand')
      PROVE  ~cache'[a].live \/ rows'[p] = cache'[p]
  <2>1. PICK g \in Handlers : hand[g].at = "parent" /\ hand[g].id = a /\ Ask[hand[g].ask].after = p
    BY <1>1 DEF IsDue
  <2>2. g = h
    BY <1>1, <2>1 DEF IsDue, Moved
  <2> QED BY <2>1, <2>2 DEF Keeps
<1>2. ASSUME NEW a \in Alerts \ torn' PROVE a \notin torn /\ (\A b : a \in HoldsIn(hand[h]) =>
           /\ hand[h].at # "parent" => ~IsDue(a, b, hand) /\ ~IsDue(b, a, hand)
           /\ hand[h].at = "parent" /\ a = Ask[hand[h].ask].after => ~IsDue(a, b, hand))
  BY NothingDue DEF Typed
<1> SUFFICES ASSUME NEW a \in Alerts \ torn' PROVE Chained(a, cache', rows', hand', torn')
  BY DEF ChainsMatch
<1>3. Chained(a, cache, rows, hand, torn) /\ a \notin torn
  BY <1>2 DEF ChainsMatch
<1>4. ASSUME NEW p \in Alerts \ torn', NEW ch, NEW due \in BOOLEAN,
             cache[p].live => cache[p].chain = ch, rows[p].live => rows[p].chain = ch \/ due,
             due => IsDue(a, p, hand)
      PROVE  /\ cache'[p].live => cache'[p].chain = ch
             /\ rows'[p].live => rows'[p].chain = ch \/ due
  <2>1. \A y : (Like(y, cache[p]) \/ Like(y, rows[p])) /\ y.live => y.chain = ch \/ due
    BY <1>4 DEF Like
  <2>2. rows'[p].live => rows'[p].chain = ch \/ due
    BY <2>1 DEF Keeps
  <2>3. cache'[p].live => cache'[p].chain = ch
    <3>1. CASE Like(cache'[p], cache[p])
      BY <3>1, <1>4 DEF Like
    <3>2. CASE Like(cache'[p], rows[p]) /\ p \in HoldsIn(hand[h]) /\ hand[h].at # "parent"
      <4>1. ~due
        BY <1>2, <1>4, <3>2
      <4> QED BY <3>2, <4>1, <1>4 DEF Like
    <3> QED BY <3>1, <3>2 DEF Keeps
  <2> QED BY <2>2, <2>3
<1>5. ASSUME NEW y, Waits(y, torn'), Like(y, rows[a]) PROVE Linked(y, cache', rows', FALSE)
  <2>1. Waits(rows[a], torn) /\ y.after = rows[a].after /\ y.chain = rows[a].chain /\ y.after \in Alerts \ torn'
    BY <1>5 DEF Waits, Like, Typed
  <2>2. Linked(rows[a], cache, rows, FALSE)
    BY <1>3, <2>1 DEF Chained
  <2>3. /\ cache[y.after].live => cache[y.after].chain = y.chain
        /\ rows[y.after].live => rows[y.after].chain = y.chain \/ FALSE
        /\ y.chain # None
    BY <2>1, <2>2 DEF Linked
  <2> QED BY <2>1, <2>3, <1>4 DEF Linked
<1>6. ASSUME NEW y, Waits(y, torn'), Like(y, cache[a]) PROVE Linked(y, cache', rows', IsDue(a, y.after, hand))
  <2>1. Waits(cache[a], torn) /\ y.after = cache[a].after /\ y.chain = cache[a].chain /\ y.after \in Alerts \ torn'
    BY <1>6 DEF Waits, Like, Typed
  <2>2. Linked(cache[a], cache, rows, IsDue(a, y.after, hand))
    BY <1>3, <2>1 DEF Chained
  <2>3. /\ cache[y.after].live => cache[y.after].chain = y.chain
        /\ rows[y.after].live => rows[y.after].chain = y.chain \/ IsDue(a, y.after, hand)
        /\ y.chain # None
    BY <2>1, <2>2 DEF Linked
  <2>4. IsDue(a, y.after, hand) \in BOOLEAN
    BY DEF IsDue
  <2> QED BY <2>1, <2>3, <2>4, <1>4 DEF Linked
<1>7. Waits(rows'[a], torn') => Linked(rows'[a], cache', rows', FALSE)
  <2> SUFFICES ASSUME Waits(rows'[a], torn') PROVE Linked(rows'[a], cache', rows', FALSE)
    OBVIOUS
  <2>1. CASE Like(rows'[a], rows[a])
    BY <2>1, <1>5
  <2>2. CASE /\ Like(rows'[a], cache[a]) /\ a \in HoldsIn(hand[h])
             /\ hand[h].at = "parent" => a = Ask[hand[h].ask].after
    <3>1. ~IsDue(a, rows'[a].after, hand)
      BY <1>2, <2>2
    <3> QED BY <2>2, <3>1, <1>6 DEF Linked
  <2> QED BY <2>1, <2>2 DEF Keeps
<1>8. Waits(cache'[a], torn') => Linked(cache'[a], cache', rows', IsDue(a, cache'[a].after, hand'))
  <2> SUFFICES ASSUME Waits(cache'[a], torn') PROVE Linked(cache'[a], cache', rows', IsDue(a, cache'[a].after, hand'))
    OBVIOUS
  <2> DEFINE p == cache'[a].after
  <2>1. CASE Like(cache'[a], rows[a])
    BY <2>1, <1>5 DEF Linked
  <2>2. CASE Like(cache'[a], cache[a])
    <3>1. Linked(cache'[a], cache', rows', IsDue(a, p, hand))
      BY <2>2, <1>6
    <3>2. CASE IsDue(a, p, hand) /\ ~IsDue(a, p, hand')
      <4>1. rows'[p] = cache'[p]
        BY <1>1, <3>2 DEF Waits
      <4> QED BY <3>1, <4>1 DEF Linked
    <3>3. CASE ~IsDue(a, p, hand) \/ IsDue(a, p, hand')
      BY <3>1, <3>3 DEF Linked
    <3> QED BY <3>2, <3>3
  <2> QED BY <2>1, <2>2 DEF Keeps
<1> QED BY <1>7, <1>8 DEF Chained

\* All there is to show of a step of a handler.
Result(h) ==
    /\ (\E s : GoesOn(h, s)) \/ (\E r : IsDone(h, r))
    /\ Typed /\ Minds(h) /\ Creeps(h) /\ LetsGo(h) /\ Closer(h)
    /\ Knows(hand'[h], cache', rows', torn')
    /\ Progress(hand'[h], cache', rows', hand', torn')
    /\ Creation(hand[h].ask) => Answered(hand[h].ask, cache', rows', hand', torn', reply')
    /\ TextsFit' /\ ChainsMatch'

\* A step with a result keeps the invariant.
LEMMA Preserved ==
    ASSUME RequestsConstants, RequestsInv, NEW h \in Handlers, hand[h].at # "ready", Result(h)
    PROVE  RequestsInv'
<1>0. RequestsTypeOK /\ HandsRight /\ Basis
  BY DEF RequestsInv, Basis
<1>1. Moved(h)
  BY <1>0, Hands DEF Result
<1>2. RequestsTypeOK'
  BY <1>1 DEF Moved, Result, Typed, RequestsTypeOK, HandType
<1>3. HandsRight' /\ NewAreNew'
  BY <1>0, <1>1, NewStayNew DEF Moved, Result
<1>4. OneHolder' /\ Agreed' /\ HandsKnow'
  BY <1>0, <1>1, OthersKnow DEF Result, RequestsInv
<1>5. RepliesRight' /\ CreationsRight'
  BY <1>0, <1>1, OthersCreate DEF Result, RequestsInv
<1>6. ReadsRight'
  <2> SUFFICES ASSUME NEW q \in Asks, reply'[q] = "undefined" PROVE Range(Ask[q].ids) \subseteq torn'
    BY DEF ReadsRight
  <2>1. CASE reply[q] = "undefined"
    BY <2>1 DEF RequestsInv, ReadsRight, Result, Typed
  <2>2. CASE reply[q] # "undefined"
    <3>1. q = hand[h].ask /\ ~\E s : GoesOn(h, s)
      BY <1>1, <2>2 DEF Moved, GoesOn
    <3>2. PICK r : IsDone(h, r)
      BY <3>1 DEF Result
    <3>3. reply'[q] = r
      BY <3>1, <3>2, <1>0 DEF IsDone, Answer, RequestsTypeOK
    <3> QED BY <3>1, <3>2, <3>3 DEF IsDone, Ids
  <2> QED BY <2>1, <2>2
<1> QED BY <1>2, <1>3, <1>4, <1>5, <1>6 DEF RequestsInv, Basis, Result

\* What is known of a handler at work.
LEMMA Working ==
    ASSUME RequestsConstants, RequestsInv, NEW h \in Handlers, hand[h].at # "ready"
    PROVE  /\ hand[h] \in HandType /\ AtWork(hand[h], reply) /\ hand[h].ask \in Asks
           /\ Ids(hand[h]) = Ask[hand[h].ask].ids /\ Ids(hand[h]) \in Seq(Alerts)
           /\ \A i \in 1..Len(Ids(hand[h])) : Ids(hand[h])[i] \in Alerts
           /\ hand[h].n \in 1..Len(Ids(hand[h])) /\ 1 \in 1..Len(Ids(hand[h])) /\ reply[hand[h].ask] = "none"
           /\ Knows(hand[h], cache, rows, torn) /\ Progress(hand[h], cache, rows, hand, torn)
           /\ Comes(hand[h], cache, rows, hand)
           /\ cache \in [Alerts -> RowType] /\ rows \in [Alerts -> RowType]
           /\ hand \in [Handlers -> HandType]
           /\ reply \in [Asks -> Replies] /\ torn \subseteq Alerts
           /\ failures \in 0..MaxFailures /\ crashes \in 0..MaxCrashes
           /\ Len(Ids(hand[h])) <= Cardinality(Alerts) /\ Cardinality(Alerts) \in Nat
<1>1. RequestsTypeOK /\ HandsRight
  BY DEF RequestsInv, Basis
<1>2. /\ hand[h].ask \in Asks /\ reply[hand[h].ask] = "none" /\ Ids(hand[h]) \in Seq(Alerts)
      /\ hand[h].n \in 1..Len(Ids(hand[h])) /\ 1 \in 1..Len(Ids(hand[h]))
  BY <1>1, HoldsAlerts
<1>3. Len(Ids(hand[h])) <= Cardinality(Alerts) /\ Cardinality(Alerts) \in Nat
  <2> DEFINE d == 1..Len(Ids(hand[h]))
  <2>1. IsFiniteSet(Alerts) /\ Cardinality(Alerts) \in Nat
    BY FS_CardinalityType DEF RequestsConstants
  <2>2. CASE Creation(hand[h].ask)
    <3>1. Len(Ids(hand[h])) \in Nat
      BY <1>2
    <3>2. IsFiniteSet(d) /\ Cardinality(d) = Len(Ids(hand[h]))
      <4>1. IsFiniteSet(1..Len(Ids(hand[h]))) /\ Cardinality(1..Len(Ids(hand[h]))) =
               IF 1 > Len(Ids(hand[h])) THEN 0 ELSE Len(Ids(hand[h])) - 1 + 1
        BY <3>1, FS_Interval, SMTT(30)
      <4> QED BY <3>1, <1>2, <4>1
    <3>3. Ids(hand[h]) \in Injection(d, Alerts)
      <4>1. \A i, j \in d : Ids(hand[h])[i] = Ids(hand[h])[j] => i = j
        BY <1>2, <2>2, Distinct DEF Ids
      <4>2. Ids(hand[h]) \in [d -> Alerts]
        BY <1>2
      <4> QED BY <4>1, <4>2 DEF Injection, IsInjective
    <3>4. Cardinality(d) <= Cardinality(Alerts)
      BY <2>1, <3>2, <3>3, FS_Injection
    <3> QED BY <2>1, <3>2, <3>4
  <2>3. CASE ~Creation(hand[h].ask)
    <3>1. Len(Ids(hand[h])) = 1
      BY <1>2, <2>3 DEF RequestsConstants, Ids
    <3>2. Cardinality(Alerts) # 0
      BY <2>1, FS_EmptySet DEF RequestsConstants
    <3> QED BY <2>1, <3>1, <3>2
  <2> QED BY <2>2, <2>3
<1>4. hand[h] \in HandType /\ hand \in [Handlers -> HandType]
  BY <1>1 DEF RequestsTypeOK, HandType
<1>5. AtWork(hand[h], reply) /\ Knows(hand[h], cache, rows, torn) /\ Progress(hand[h], cache, rows, hand, torn)
      /\ Comes(hand[h], cache, rows, hand)
  BY DEF RequestsInv, Basis, HandsRight, HandsKnow, CreationsRight, NewAreNew
<1> QED BY <1>1, <1>2, <1>3, <1>4, <1>5 DEF RequestsTypeOK, Ids

\* A handler without a request has nothing in hand and knows nothing.
LEMMA OfReady ==
    /\ Ready.at = "ready" /\ Ready.ask = None /\ Ready.row.after = None /\ Ready.other.after = None
    /\ HoldsIn(Ready) = {} /\ Touches(Ready) = {}
    /\ \A c, t, x : Knows(Ready, c, t, x)
    /\ \A c, t, hs, x : Progress(Ready, c, t, hs, x)
BY DEF Ready, Absent, HoldsIn, Touches, Knows, Progress

\* A change of at most one alert.
Alters(h, id, v, w) ==
    /\ id \in Alerts /\ v \in RowType /\ w \in RowType
    /\ cache' = [cache EXCEPT ![id] = v] /\ rows' = [rows EXCEPT ![id] = w]
    /\ v.after \in {None, cache[id].after, rows[id].after, hand[h].row.after, hand[h].other.after}
    /\ w.after \in {None, cache[id].after, rows[id].after, hand[h].row.after, hand[h].other.after}
    /\ id \in Own(hand[h]) \cup Touches(hand[h]) \/ cache[id].live \/ (v = cache[id] /\ w = rows[id])
    /\ id \in Own(hand[h]) \cup Deleted \/ ((cache[id].live => v.live) /\ (rows[id].live => w.live))

\* A change of one alert the handler may change creeps to no other.
LEMMA AltersCreeps ==
    ASSUME RequestsConstants, RequestsInv, NEW h \in Handlers, hand[h].at # "ready", NEW id, NEW v, NEW w, Alters(h, id, v, w),
           {hand'[h].row.after, hand'[h].other.after} \subseteq {None, cache[id].after, rows[id].after, hand[h].row.after, hand[h].other.after},
           Touches(hand'[h]) \subseteq Touches(hand[h]) \cup Own(hand[h]) \cup {a \in Alerts : cache[a].live}
    PROVE  Creeps(h)
<1>1. /\ cache \in [Alerts -> RowType] /\ rows \in [Alerts -> RowType] /\ None \notin Alerts
  BY Working DEF RequestsConstants
<1>2. /\ cache'[id] = v /\ rows'[id] = w
      /\ \A a \in Alerts \ {id} : cache'[a] = cache[a] /\ rows'[a] = rows[a]
  BY <1>1 DEF Alters
<1>3. ASSUME NEW a \in Alerts \ Own(hand[h]), ~cache[a].live, a \notin Touches(hand[h])
      PROVE  cache'[a] = cache[a] /\ rows'[a] = rows[a] /\ a \notin Touches(hand'[h])
  BY <1>2, <1>3 DEF Alters
<1>4. ASSUME NEW a \in Alerts \ (Own(hand[h]) \cup Deleted)
      PROVE  (cache[a].live => cache'[a].live) /\ (rows[a].live => rows'[a].live)
  BY <1>2, <1>4 DEF Alters
<1>5. ASSUME NEW x \in Alerts, NotNamed(x, cache, rows, hand[h]) PROVE NotNamed(x, cache', rows', hand'[h])
  <2>1. x \notin {None, cache[id].after, rows[id].after, hand[h].row.after, hand[h].other.after}
    BY <1>1, <1>5 DEF NotNamed, Alters
  <2>2. \A b \in Alerts : cache'[b].after # x /\ rows'[b].after # x
    BY <1>2, <1>5, <2>1 DEF NotNamed, Alters
  <2> QED BY <2>1, <2>2 DEF NotNamed
<1> QED BY <1>3, <1>4, <1>5 DEF Creeps

\* The texts and the chains after it.
LEMMA AltersTexts ==
    ASSUME RequestsConstants, RequestsInv, NEW h \in Handlers, hand[h].at # "ready", Typed, NEW id, NEW v, NEW w, Alters(h, id, v, w),
           id \notin torn' => (v = cache[id] \/ v = rows[id] \/ HasText(v)) /\ (w = cache[id] \/ w = rows[id] \/ HasText(w))
    PROVE  TextsFit'
<1>1. /\ cache \in [Alerts -> RowType] /\ rows \in [Alerts -> RowType]
  BY Working
<1>2. /\ cache'[id] = v /\ rows'[id] = w
      /\ \A a \in Alerts \ {id} : cache'[a] = cache[a] /\ rows'[a] = rows[a]
  BY <1>1 DEF Alters
<1>3. \A a \in Alerts \ torn' : HasText(cache[a]) /\ HasText(rows[a])
  BY DEF RequestsInv, TextsFit, Typed
<1> HIDE DEF HasText
<1>4. \A a \in Alerts \ torn' : HasText(cache'[a]) /\ HasText(rows'[a])
  BY <1>2, <1>3
<1> QED BY <1>4 DEF TextsFit

\* And chains match after it, when it brings no other chain.
LEMMA AltersChains ==
    ASSUME RequestsConstants, RequestsInv, NEW h \in Handlers, hand[h].at # "ready", Moved(h), Typed,
           NEW id, NEW v, NEW w, Alters(h, id, v, w), hand'[h].at # "parent",
           id \notin torn' => /\ \/ Like(v, cache[id])
                                 \/ Like(v, rows[id]) /\ id \in HoldsIn(hand[h]) /\ hand[h].at # "parent"
                              /\ \/ Like(w, rows[id])
                                 \/ /\ Like(w, cache[id]) /\ id \in HoldsIn(hand[h])
                                    /\ hand[h].at = "parent" => id = Ask[hand[h].ask].after,
           hand[h].at = "parent" => \/ id = hand[h].id /\ ~v.live
                                    \/ Ask[hand[h].ask].after \in torn'
                                    \/ id = Ask[hand[h].ask].after /\ v = w
    PROVE  ChainsMatch'
<1>1. /\ cache \in [Alerts -> RowType] /\ rows \in [Alerts -> RowType]
  BY Working
<1>2. /\ cache'[id] = v /\ rows'[id] = w
      /\ \A a \in Alerts \ {id} : cache'[a] = cache[a] /\ rows'[a] = rows[a]
  BY <1>1 DEF Alters
<1>3. \A y : Like(y, y)
  BY DEF Like
<1>4. Keeps(h)
  BY <1>2, <1>3 DEF Keeps
<1> QED BY <1>4, ChainsKept DEF RequestsInv, Basis

\* A request that is over.
LEMMA Ends ==
    ASSUME RequestsConstants, RequestsInv, NEW h \in Handlers, hand[h].at # "ready", NEW r, IsDone(h, r), Typed,
           NEW id, NEW v, NEW w, Alters(h, id, v, w),
           id \in HoldsIn(hand[h]) \cup torn' \/ (v = cache[id] /\ w = rows[id]),
           \A a \in HoldsIn(hand[h]) \ torn' : cache'[a] = rows'[a],
           id \notin torn' => /\ v = cache[id] \/ v = rows[id] \/ HasText(v)
                              /\ w = cache[id] \/ w = rows[id] \/ HasText(w)
                              /\ \/ Like(v, cache[id])
                                 \/ Like(v, rows[id]) /\ id \in HoldsIn(hand[h]) /\ hand[h].at # "parent"
                              /\ \/ Like(w, rows[id])
                                 \/ Like(w, cache[id]) /\ id \in HoldsIn(hand[h]) /\ hand[h].at # "parent",
           hand[h].at = "parent" => (id = hand[h].id /\ ~v.live) \/ Ask[hand[h].ask].after \in torn',
           Creation(hand[h].ask) => Answered(hand[h].ask, cache', rows', hand', torn', reply')
    PROVE  Result(h)
<1>0. /\ hand \in [Handlers -> HandType] /\ cache \in [Alerts -> RowType] /\ rows \in [Alerts -> RowType]
  BY Working
<1>1. hand'[h] = Ready
  BY <1>0 DEF IsDone, Answer
<1>2. Moved(h)
  BY Hands DEF RequestsInv, Basis
<1>3. Creeps(h)
  BY <1>1, AltersCreeps, OfReady
<1>4. TextsFit'
  BY AltersTexts
<1>5. ChainsMatch'
  BY <1>1, <1>2, AltersChains, OfReady
<1>6. Minds(h)
  <2>1. /\ cache'[id] = v /\ rows'[id] = w
        /\ \A a \in Alerts \ {id} : cache'[a] = cache[a] /\ rows'[a] = rows[a]
    BY <1>0 DEF Alters
  <2> QED BY <1>1, <2>1, OfReady DEF Minds
<1>7. LetsGo(h) /\ Closer(h)
  BY <1>1, OfReady DEF LetsGo, Closer
<1>8. Knows(hand'[h], cache', rows', torn') /\ Progress(hand'[h], cache', rows', hand', torn')
  BY <1>1, OfReady
<1> QED BY <1>3, <1>4, <1>5, <1>6, <1>7, <1>8 DEF Result

\* Nothing changes.
LEMMA NoChange ==
    ASSUME RequestsConstants, RequestsInv, NEW h \in Handlers, hand[h].at # "ready",
           UNCHANGED <<cache, rows, failures, crashes, torn>>, NEW id \in Alerts
    PROVE  Typed /\ Alters(h, id, cache[id], rows[id]) /\ Like(cache[id], cache[id]) /\ Like(rows[id], rows[id])
<1>1. /\ cache \in [Alerts -> RowType] /\ rows \in [Alerts -> RowType] /\ torn \subseteq Alerts
      /\ failures \in 0..MaxFailures /\ crashes \in 0..MaxCrashes
  BY Working
<1>2. Typed
  BY <1>1 DEF Typed
<1>3. cache' = [cache EXCEPT ![id] = cache[id]] /\ rows' = [rows EXCEPT ![id] = rows[id]]
  BY <1>1
<1>4. cache[id] \in RowType /\ rows[id] \in RowType
  BY <1>1
<1> QED BY <1>2, <1>3, <1>4 DEF Alters, Like

\* A request that is turned down.
LEMMA OfTurnDown ==
    ASSUME RequestsConstants, RequestsInv, NEW h \in Handlers, TurnDown(h)
    PROVE  Result(h)
<1> DEFINE q == hand[h].ask
<1>1. hand[h].at = "refuse" /\ HoldsIn(hand[h]) = {}
  BY DEF TurnDown, HoldsIn
<1>2. First \in Alerts
  BY DEF RequestsConstants
<1>3. /\ q \in Asks /\ Comes(hand[h], cache, rows, hand) /\ reply \in [Asks -> Replies] /\ hand \in [Handlers -> HandType]
      /\ \A i \in 1..Len(Ids(hand[h])) : Ids(hand[h])[i] \in Alerts
  BY <1>1, Working
<1>4. IsDone(h, "refused")
  BY DEF TurnDown, IsDone, Replies
<1>5. hand'[h] = Ready /\ reply'[q] = "refused" /\ \A g \in Handlers \ {h} : hand'[g] = hand[g]
  BY <1>3 DEF TurnDown, Answer
<1>6. Answered(q, cache', rows', hand', torn', reply')
  <2> SUFFICES ASSUME NEW i \in 1..Len(Ask[q].ids) PROVE Gone(Ask[q].ids[i], cache', rows', hand', torn')
    BY <1>5 DEF Answered
  <2>1. Clear(Ask[q].ids[i], cache, rows, hand)
    BY <1>1, <1>3 DEF Comes, Ahead, Ids, Unborn
  <2>2. Clear(Ask[q].ids[i], cache', rows', hand')
    BY <2>1, <1>5, OfReady DEF Clear, TurnDown
  <2> QED BY <2>2 DEF Gone
<1>7. UNCHANGED <<cache, rows, failures, crashes, torn>>
  BY DEF TurnDown
<1> QED BY <1>1, <1>2, <1>4, <1>6, <1>7, NoChange, Ends

\* The reader and the writer of a change.
LEMMA OfGet ==
    ASSUME RequestsConstants, RequestsInv, NEW h \in Handlers, Get(h)
    PROVE  Result(h)
<1> DEFINE q == hand[h].ask  id == hand[h].id
<1>1. hand[h].at = "found" /\ HoldsIn(hand[h]) = {id}
  BY DEF Get, HoldsIn
<1>2. /\ q \in Asks /\ AtWork(hand[h], reply) /\ Knows(hand[h], cache, rows, torn) /\ Ids(hand[h]) = Ask[q].ids
      /\ Ids(hand[h]) \in Seq(Alerts) /\ 1 \in 1..Len(Ids(hand[h]))
  BY <1>1, Working
<1>3. id = Ids(hand[h])[1] /\ id \in Alerts /\ ~Creation(q)
  BY <1>1, <1>2 DEF AtWork, Creation
<1>4. Range(Ids(hand[h])) = {id}
  <2>1. Len(Ids(hand[h])) = 1
    BY <1>2, <1>3 DEF RequestsConstants
  <2> QED BY <1>2, <1>3, <2>1 DEF Range
<1>5. id \notin torn => cache[id] = rows[id] /\ cache[id].live
  BY <1>1, <1>2 DEF Knows
<1>6. PICK r : IsDone(h, r)
  <2>1. CASE cache[id].live
    BY <2>1 DEF IsDone, Get, Replies
  <2>2. CASE ~cache[id].live
    <3>1. id \in torn'
      BY <1>5, <2>2 DEF Get
    <3> QED BY <1>4, <2>2, <3>1 DEF IsDone, Get, Replies
  <2> QED BY <2>1, <2>2
<1>7. UNCHANGED <<cache, rows, failures, crashes, torn>>
  BY DEF Get
<1> QED BY <1>1, <1>3, <1>5, <1>6, <1>7, NoChange, Ends

\* A change that is written, or put back.
LEMMA OfSave ==
    ASSUME RequestsConstants, RequestsInv, NEW h \in Handlers, Save(h) \/ FailSave(h)
    PROVE  Result(h)
<1> DEFINE q == hand[h].ask  id == hand[h].id  row == hand[h].row  other == hand[h].other
<1>1. hand[h].at = "save" /\ HoldsIn(hand[h]) = {id} /\ Touches(hand[h]) = {id}
  BY DEF Save, FailSave, HoldsIn, Touches
<1>2. /\ AtWork(hand[h], reply) /\ Knows(hand[h], cache, rows, torn) /\ hand[h] \in HandType
      /\ Ids(hand[h]) \in Seq(Alerts) /\ 1 \in 1..Len(Ids(hand[h]))
      /\ cache \in [Alerts -> RowType] /\ rows \in [Alerts -> RowType]
      /\ torn \subseteq Alerts /\ failures \in 0..MaxFailures /\ crashes \in 0..MaxCrashes
      /\ MaxFailures \in Nat
  BY <1>1, Working DEF RequestsConstants
<1>3. id = Ids(hand[h])[1] /\ id \in Alerts /\ ~Creation(q) /\ row.live /\ other.live /\ row \in RowType /\ other \in RowType
  BY <1>1, <1>2 DEF AtWork, Creation, HandType
<1>4. id \notin torn => cache[id] = row /\ rows[id] = other
  BY <1>1, <1>2 DEF Knows
<1>5. torn' = torn /\ crashes' = crashes
  BY DEF Save, FailSave
<1>6. \A a : Like(cache[a], cache[a]) /\ Like(rows[a], rows[a])
  BY DEF Like
<1>7. CASE Save(h)
  <2>1. IsDone(h, "changed")
    BY <1>7 DEF IsDone, Replies, Save
  <2>2. cache' = [cache EXCEPT ![id] = cache[id]] /\ rows' = [rows EXCEPT ![id] = row] /\ failures' = failures
    BY <1>2, <1>7 DEF Save, Writes
  <2>3. Typed
    BY <1>2, <1>3, <1>5, <1>7, <2>2 DEF Typed, Save
  <2>4. Alters(h, id, cache[id], row)
    BY <1>1, <1>2, <1>3, <2>2 DEF Alters
  <2>5. id \notin torn => cache'[id] = rows'[id]
    BY <1>2, <1>3, <1>4, <2>2
  <2> QED BY <1>1, <1>3, <1>4, <1>5, <1>6, <2>1, <2>3, <2>4, <2>5, Ends
<1>8. CASE FailSave(h)
  <2>1. IsDone(h, "refused")
    BY <1>8 DEF IsDone, Replies, FailSave
  <2>2. cache' = [cache EXCEPT ![id] = other] /\ rows' = [rows EXCEPT ![id] = rows[id]] /\ failures' = failures + 1 /\ failures < MaxFailures
    BY <1>2, <1>8 DEF FailSave, Fails
  <2>3. Typed
    BY <1>2, <1>3, <1>5, <1>8, <2>2 DEF Typed, FailSave
  <2>4. Alters(h, id, other, rows[id])
    BY <1>1, <1>2, <1>3, <2>2 DEF Alters
  <2>5. id \notin torn => cache'[id] = rows'[id]
    BY <1>2, <1>3, <1>4, <2>2
  <2> QED BY <1>1, <1>3, <1>4, <1>5, <1>6, <2>1, <2>3, <2>4, <2>5, Ends
<1> QED BY <1>7, <1>8

\* A deletion on request.
LEMMA OfErase ==
    ASSUME RequestsConstants, RequestsInv, NEW h \in Handlers, Erase(h) \/ FailErase(h), hand[h].at = "erase"
    PROVE  Result(h)
<1> DEFINE q == hand[h].ask  id == hand[h].id  row == hand[h].row
<1>1. HoldsIn(hand[h]) = {id} /\ Touches(hand[h]) = {id}
  BY DEF HoldsIn, Touches
<1>2. /\ AtWork(hand[h], reply) /\ Knows(hand[h], cache, rows, torn) /\ hand[h] \in HandType /\ hand[h].ask \in Asks
      /\ Ids(hand[h]) = Ask[q].ids /\ Ids(hand[h]) \in Seq(Alerts) /\ 1 \in 1..Len(Ids(hand[h]))
      /\ cache \in [Alerts -> RowType] /\ rows \in [Alerts -> RowType]
      /\ torn \subseteq Alerts /\ failures \in 0..MaxFailures /\ crashes \in 0..MaxCrashes
      /\ MaxFailures \in Nat
  BY <1>1, Working DEF RequestsConstants
<1>3. id = Ids(hand[h])[1] /\ id \in Alerts /\ ~Creation(q) /\ row.live /\ row \in RowType /\ Ask[q].kind = "delete"
  BY <1>1, <1>2 DEF AtWork, Creation, HandType
<1>4. id \in Deleted
  BY <1>2, <1>3 DEF Deleted, Range
<1>5. id \notin torn => cache[id] = Absent
  BY <1>1, <1>2 DEF Knows
<1>6. Absent \in RowType /\ Absent.after = None /\ ~Absent.live /\ \A a : Like(Absent, a)
  <2>1. \A b \in BOOLEAN : [live |-> b, chain |-> None, after |-> None, text |-> b, msg |-> b] \in RowType
    BY DEF RowType
  <2>2. Absent \in RowType
    BY <2>1, Zenon DEF Absent
  <2> QED BY <2>2 DEF Absent, Like
<1>7. HasText(Absent) /\ \A a : Like(cache[a], cache[a]) /\ Like(rows[a], rows[a])
  BY <1>6 DEF HasText, Like
<1>8. crashes' = crashes
  BY DEF Erase, FailErase
<1>9. CASE Erase(h)
  <2>1. IsDone(h, "deleted")
    BY <1>9 DEF IsDone, Replies, Erase, Settle
  <2>2. cache' = [cache EXCEPT ![id] = cache[id]] /\ rows' = [rows EXCEPT ![id] = Absent] /\ failures' = failures /\ torn' = torn
    BY <1>2, <1>9, SMTT(30) DEF Erase, Writes
  <2>3. Typed
    BY <1>2, <1>3, <1>6, <1>8, <1>9, <2>2 DEF Typed, Erase
  <2>4. Alters(h, id, cache[id], Absent)
    BY <1>1, <1>2, <1>3, <1>4, <1>6, <2>2 DEF Alters
  <2>5. id \notin torn' => cache'[id] = rows'[id]
    BY <1>2, <1>3, <1>5, <2>2
  <2> QED BY <1>1, <1>3, <1>6, <1>7, <2>1, <2>3, <2>4, <2>5, Ends
<1>10. CASE FailErase(h)
  <2>1. IsDone(h, "failed")
    BY <1>10 DEF IsDone, Replies, FailErase, Settle
  <2>2. cache' = [cache EXCEPT ![id] = row] /\ rows' = [rows EXCEPT ![id] = rows[id]] /\ failures' = failures + 1 /\ failures < MaxFailures
        /\ torn' = torn \cup {id}
    BY <1>2, <1>10 DEF FailErase, Fails
  <2>3. Typed
    <3>1. torn \subseteq torn' /\ torn' \subseteq Alerts /\ failures' \in 0..MaxFailures
      <4>1. failures \in 0..MaxFailures /\ MaxFailures \in Nat /\ torn \subseteq Alerts
        BY <1>2
      <4>2. torn' = torn \cup {id} /\ failures' = failures + 1 /\ failures < MaxFailures
        BY <2>2, SMTT(30)
      <4> HIDE DEF id
      <4> QED BY <1>3, <4>1, <4>2
    <3>2. cache' \in [Alerts -> RowType] /\ rows' \in [Alerts -> RowType]
      BY <1>2, <1>3, <2>2
    <3>3. crashes' \in 0..MaxCrashes
      BY <1>2, <1>10, SMTT(30) DEF FailErase
    <3> QED BY <3>1, <3>2, <3>3 DEF Typed
  <2>4. Alters(h, id, row, rows[id])
    BY <1>1, <1>2, <1>3, <1>4, <2>2 DEF Alters
  <2> QED BY <1>1, <1>3, <2>1, <2>2, <2>3, <2>4, Ends
<1> QED BY <1>9, <1>10

\* What is not there has no text to miss and waits for nothing.
LEMMA OfAbsent == /\ Absent \in RowType /\ Absent.after = None /\ ~Absent.live /\ HasText(Absent)
                  /\ \A a : Like(Absent, a) /\ Like(a, a)
<1>1. \A b \in BOOLEAN : [live |-> b, chain |-> None, after |-> None, text |-> b, msg |-> b] \in RowType
  BY DEF RowType
<1>2. Absent \in RowType
  BY <1>1, Zenon DEF Absent
<1> QED BY <1>2 DEF Absent, Like, HasText

\* The hand of a handler that takes back one alert more.
LEMMA Undoing ==
    ASSUME RequestsConstants, RequestsInv, NEW h \in Handlers, hand[h].at \in {"insert", "parent", "row", "undo", "undone"},
           hand[h].n > 1, GiveUp(h)
    PROVE  /\ GoesOn(h, hand'[h]) /\ hand'[h].at = "undo" /\ hand'[h].n = hand[h].n - 1
           /\ hand'[h].id = hand[h].id /\ hand'[h].row = hand[h].row /\ hand'[h].other = hand[h].other
<1> DEFINE s == hand[h]
           u == [at |-> "undo", ask |-> s.ask, n |-> s.n - 1, id |-> s.id, row |-> s.row, other |-> s.other]
<1>0. /\ s.n \in 1..Len(Ids(s)) /\ Len(Ids(s)) <= Cardinality(Alerts) /\ Cardinality(Alerts) \in Nat
      /\ Ids(s) \in Seq(Alerts)
  BY Working
<1>1. /\ s \in HandType /\ AtWork(s, reply) /\ s.ask \in Asks /\ reply[s.ask] = "none"
      /\ hand \in [Handlers -> HandType] /\ s.at # "ready"
  BY Working
<1>2. u \in HandType /\ s.n - 1 \in 1..Len(Ids(s))
  <2>1. s.n - 1 \in 0..Cardinality(Alerts) /\ s.n - 1 \in 1..Len(Ids(s))
    BY <1>0
  <2> QED BY <1>1, <2>1 DEF HandType, Ats
<1>3. hand' = [hand EXCEPT ![h] = u] /\ reply' = reply
  BY <1>1 DEF GiveUp, HandType
<1>4. AtWork(u, reply)
  <2>1. Creation(s.ask) /\ Fits(Ask[s.ask]) /\ Ids(u) = Ids(s)
    BY <1>1 DEF AtWork, Making, Ids
  <2> QED BY <1>1, <1>2, <2>1 DEF AtWork, Making
<1>5. /\ hand'[h] = u /\ u.at = "undo" /\ u.n = s.n - 1 /\ u.ask = s.ask
      /\ u.id = s.id /\ u.row = s.row /\ u.other = s.other
  BY <1>1, <1>3
<1> HIDE DEF u
<1> QED BY <1>2, <1>3, <1>4, <1>5 DEF GoesOn

\* Who is about to delete an alert does so on request.
LEMMA DropsDeleted ==
    ASSUME RequestsConstants, RequestsInv, NEW g \in Handlers, hand[g].at = "drop"
    PROVE  hand[g].id \in Deleted
<1>1. /\ AtWork(hand[g], reply) /\ hand[g].ask \in Asks /\ Ids(hand[g]) = Ask[hand[g].ask].ids
      /\ Ids(hand[g]) \in Seq(Alerts) /\ 1 \in 1..Len(Ids(hand[g]))
  BY Working
<1>2. Ask[hand[g].ask].kind = "delete" /\ hand[g].id = Ids(hand[g])[1]
  BY <1>1 DEF AtWork
<1> QED BY <1>1, <1>2 DEF Deleted, Range

\* One alert of a creation, the one in hand, is taken back or never was made; those before
\* it are next.
LEMMA GivesUp ==
    ASSUME RequestsConstants, RequestsInv, NEW h \in Handlers, hand[h].at \in {"insert", "parent", "row", "undo", "undone"},
           GiveUp(h), Typed, NEW id, id = Ids(hand[h])[hand[h].n], NEW v \in RowType, NEW w \in RowType,
           cache' = [cache EXCEPT ![id] = v], rows' = [rows EXCEPT ![id] = w],
           v.after \in {None, cache[id].after, rows[id].after, hand[h].row.after, hand[h].other.after},
           w.after \in {None, cache[id].after, rows[id].after, hand[h].row.after, hand[h].other.after},
           id \notin torn' => v \in {Absent, cache[id]} /\ w \in {Absent, rows[id]},
           id \in HoldsIn(hand[h]) \cup torn' \/ (v = cache[id] /\ w = rows[id]),
           \A a \in HoldsIn(hand[h]) \ torn' : a = id /\ v = w,
           hand[h].at = "parent" => ~v.live /\ Ask[hand[h].ask].after \in torn',
           id \notin torn' \cup Deleted => v = Absent /\ w = Absent /\ \A g \in Handlers \ {h} : id \notin HoldsIn(hand[g])
    PROVE  Result(h)
<1> DEFINE s == hand[h]  q == hand[h].ask
<1>1. /\ AtWork(s, reply) /\ q \in Asks /\ reply[q] = "none" /\ s.at # "ready" /\ reply \in [Asks -> Replies]
  BY Working
<1>c. /\ Ids(s) = Ask[q].ids /\ \A i \in 1..Len(Ids(s)) : Ids(s)[i] \in Alerts
  BY Working
<1>d. Progress(s, cache, rows, hand, torn) /\ Comes(s, cache, rows, hand)
  BY Working
<1>e. /\ hand \in [Handlers -> HandType] /\ cache \in [Alerts -> RowType] /\ rows \in [Alerts -> RowType]
  BY Working
<1>a. s.n \in 1..Len(Ids(s)) /\ Ids(s) \in Seq(Alerts)
  BY Working
<1>b. s.n \in Nat \ {0} /\ Len(Ids(s)) \in Nat /\ s.n <= Len(Ids(s)) /\ \A i \in 1..Len(Ids(s)) : i \in Nat
  BY <1>a, SMTT(30)
<1>2. Creation(q) /\ id \in Alerts /\ Own(s) = {id}
  BY <1>1, <1>a, <1>c DEF AtWork, Making, Own
<1>3. \/ s.n > 1 /\ GoesOn(h, hand'[h]) /\ hand'[h].at = "undo" /\ hand'[h].n = s.n - 1
         /\ hand'[h].row = s.row /\ hand'[h].other = s.other
      \/ s.n = 1 /\ IsDone(h, "refused") /\ hand'[h] = Ready
  <2>1. CASE s.n > 1
    BY <2>1, Undoing
  <2>2. CASE s.n = 1
    BY <1>b, <1>e, <2>2, SMTT(30) DEF GiveUp, IsDone, Answer, Replies
  <2> QED BY <1>b, <2>1, <2>2
<1>4. HoldsIn(hand'[h]) = {} /\ Touches(hand'[h]) = {}
      /\ {hand'[h].row.after, hand'[h].other.after} \subseteq {None, s.row.after, s.other.after}
  BY <1>3, OfReady DEF HoldsIn, Touches
<1>5. Alters(h, id, v, w)
  BY <1>2, SMTT(30) DEF Alters
<1>6. Moved(h) /\ Creeps(h)
  BY <1>1, <1>3, <1>4, <1>5, Hands, AltersCreeps DEF RequestsInv, Basis
<1>7. \A a \in Alerts \ {id} : cache'[a] = cache[a] /\ rows'[a] = rows[a]
  BY <1>e
<1>8. cache'[id] = v /\ rows'[id] = w
  BY <1>e, <1>2, SMTT(30)
<1>9. ASSUME NEW i \in 1..Len(Ids(s)), i < s.n PROVE Made(Ids(s)[i], cache', rows')
  <2>1. Made(Ids(s)[i], cache, rows)
    BY <1>1, <1>9, <1>d, SMTT(30) DEF Progress, Before
  <2>2. Ids(s)[i] # id
    <3>1. i # s.n
      BY <1>b, <1>9, SMTT(30)
    <3> QED BY <1>1, <1>2, <1>a, <1>c, <3>1, Distinct
  <2> QED BY <1>c, <1>7, <2>1, <2>2 DEF Made
<1>10. ASSUME NEW i \in 1..Len(Ids(s)), i > s.n PROVE Gone(Ids(s)[i], cache', rows', hand', torn')
  <2>1. Gone(Ids(s)[i], cache, rows, hand, torn)
    <3>1. CASE s.at \in {"undo", "undone"}
      BY <1>1, <1>d, <1>10, <3>1 DEF Progress, After
    <3>2. CASE s.at \in {"insert", "parent", "row"}
      <4>1. Ahead(s, i) /\ s.at # "ready"
        BY <1>b, <1>10, <3>2 DEF Ahead
      <4> QED BY <1>d, <4>1 DEF Comes, Unborn, Gone
    <3> QED BY <3>1, <3>2
  <2>2. Ids(s)[i] # id
    <3>1. i # s.n
      BY <1>b, <1>10
    <3> QED BY <1>1, <1>2, <1>a, <1>c, <3>1, Distinct
  <2> QED BY <1>c, <1>2, <1>6, <2>1, <2>2, StaysMade DEF RequestsInv, Basis
<1>11. Gone(id, cache', rows', hand', torn')
  <2> SUFFICES ASSUME id \notin torn' \cup Deleted PROVE Clear(id, cache', rows', hand')
    BY DEF Gone
  <2>1. \A g \in Handlers \ {h} : id \notin Touches(hand[g])
    BY DropsDeleted, SMTT(30) DEF Touches
  <2> QED BY <1>4, <1>6, <1>8, <2>1 DEF Clear, Moved
<1>12. \A i \in 1..Len(Ids(s)) : i >= s.n => Gone(Ids(s)[i], cache', rows', hand', torn')
  <2>1. \A i \in 1..Len(Ids(s)) : i >= s.n => i = s.n \/ i > s.n
    BY <1>b
  <2> QED BY <1>10, <1>11, <2>1
<1>13. CASE s.n = 1
  <2>1. IsDone(h, "refused")
    BY <1>3, <1>13
  <2>2. Answered(q, cache', rows', hand', torn', reply')
    <3>1. reply'[q] = "refused"
      BY <1>1, <2>1 DEF IsDone, Answer
    <3>2. \A i \in 1..Len(Ids(s)) : i >= s.n
      BY <1>b, <1>13
    <3> QED BY <1>c, <1>12, <3>1, <3>2 DEF Answered
  <2>3. \A a \in HoldsIn(s) \ torn' : cache'[a] = rows'[a]
    BY <1>8
  <2>4. id \notin torn' => /\ v = cache[id] \/ v = rows[id] \/ HasText(v)
                           /\ w = cache[id] \/ w = rows[id] \/ HasText(w)
                           /\ Like(v, cache[id]) /\ Like(w, rows[id])
    BY OfAbsent, SMTT(30)
  <2> QED BY <1>1, <1>5, <2>1, <2>2, <2>3, <2>4, Ends, ZenonT(40)
<1>14. CASE s.n > 1
  <2> DEFINE u == hand'[h]
  <2>1. GoesOn(h, u) /\ u.at = "undo" /\ u.n = s.n - 1 /\ u.ask = q /\ Ids(u) = Ids(s)
    <3>1. s.n # 1
      BY <1>14, <1>b
    <3> QED BY <1>3, <3>1 DEF GoesOn, Ids
  <2>2. Minds(h)
    <3>1. \A a \in Alerts \ torn' : a \notin HoldsIn(s) => cache'[a] = cache[a] /\ rows'[a] = rows[a]
      <4> SUFFICES ASSUME NEW a \in Alerts \ torn', a \notin HoldsIn(s)
                   PROVE  cache'[a] = cache[a] /\ rows'[a] = rows[a]
        OBVIOUS
      <4>1. CASE a = id
        BY <1>8, <4>1
      <4>2. CASE a # id
        BY <1>7, <4>2
      <4> QED BY <4>1, <4>2
    <3> HIDE DEF s
    <3> QED BY <1>4, <3>1 DEF Minds, s
  <2>3. LetsGo(h)
    BY <1>8 DEF LetsGo
  <2>4. Closer(h) /\ Knows(u, cache', rows', torn')
    BY <2>1 DEF Closer, Ahead, Knows
  <2>5. Progress(u, cache', rows', hand', torn')
    <3>1. \A i \in 1..Len(Ids(s)) : (i < s.n - 1 \/ i = s.n - 1 => i < s.n) /\ (i > s.n - 1 => i >= s.n)
      BY <1>b
    <3>3. \A i \in 1..Len(Ids(s)) : Before(u, i) => i < s.n
      BY <2>1, <3>1 DEF Before
    <3>4. \A i \in 1..Len(Ids(s)) : After(u, i) => i >= s.n
      BY <2>1, <3>1 DEF After
    <3> HIDE DEF u
    <3> QED BY <1>9, <1>12, <2>1, <3>3, <3>4 DEF Progress
  <2>6. Answered(q, cache', rows', hand', torn', reply')
    BY <1>1, <2>1 DEF Answered, GoesOn
  <2>7. TextsFit'
    BY <1>1, <1>5, AltersTexts, OfAbsent
  <2>8. ChainsMatch'
    <3>1. id \notin torn' => Like(v, cache[id]) /\ Like(w, rows[id])
      BY OfAbsent
    <3>2. hand'[h].at # "parent"
      BY <2>1
    <3> HIDE DEF s, q, u
    <3> QED BY <1>1, <1>5, <1>6, <3>1, <3>2, AltersChains DEF s
  <2> QED BY <1>6, <2>1, <2>2, <2>3, <2>4, <2>5, <2>6, <2>7, <2>8, SMTT(30) DEF Result
<1>15. s.n = 1 \/ s.n > 1
  BY <1>b
<1> QED BY <1>13, <1>14, <1>15

\* What another handler has in hand, outside torn.
LEMMA HeldByOne ==
    ASSUME RequestsConstants, RequestsInv, NEW h \in Handlers, NEW a \in HoldsIn(hand[h]), a \notin torn, NEW g \in Handlers \ {h}
    PROVE  a \notin HoldsIn(hand[g])
BY DEF RequestsInv, OneHolder

\* The chain of the alert waited for could not be written.
LEMMA OfFailParent ==
    ASSUME RequestsConstants, RequestsInv, NEW h \in Handlers, FailParent(h)
    PROVE  Result(h)
<1> DEFINE s == hand[h]  id == hand[h].id  after == Ask[hand[h].ask].after
<1>1. s.at = "parent" /\ HoldsIn(s) = {id, after} /\ GiveUp(h)
  BY DEF FailParent, HoldsIn
<1>2. /\ AtWork(s, reply) /\ Knows(s, cache, rows, torn) /\ Ids(s)[s.n] \in Alerts
  BY <1>1, Working
<1>3. id = Ids(s)[s.n] /\ after \in Alerts /\ id \in Alerts
  BY <1>1, <1>2 DEF AtWork
<1>4. cache \in [Alerts -> RowType] /\ rows \in [Alerts -> RowType] /\ torn \subseteq Alerts
      /\ failures \in 0..MaxFailures /\ crashes \in 0..MaxCrashes /\ MaxFailures \in Nat
  BY <1>1, Working DEF RequestsConstants
<1>5. cache' = [cache EXCEPT ![id] = Absent] /\ rows' = [rows EXCEPT ![id] = rows[id]] /\ rows' = rows
      /\ torn' = torn \cup {after} /\ failures' = failures + 1 /\ failures < MaxFailures /\ crashes' = crashes
  BY <1>4 DEF FailParent, Fails, Of
<1>6. Typed
  BY <1>3, <1>4, <1>5, OfAbsent DEF Typed
<1>7. id \notin torn => rows[id] = Absent
  BY <1>1, <1>2 DEF Knows
<1>8. id \notin torn => \A g \in Handlers \ {h} : id \notin HoldsIn(hand[g])
  BY <1>1, HeldByOne
<1>9. rows[id] \in RowType /\ Absent \in RowType
  BY <1>3, <1>4, OfAbsent
<1> HIDE DEF id, after
<1>a. Absent.after \in {None, cache[id].after, rows[id].after, s.row.after, s.other.after}
       /\ rows[id].after \in {None, cache[id].after, rows[id].after, s.row.after, s.other.after}
  BY <1>1, <1>5, <1>7, <1>8, OfAbsent
<1>b. id \notin torn' => Absent \in {Absent, cache[id]} /\ rows[id] \in {Absent, rows[id]}
  BY <1>1, <1>5, <1>7, <1>8, OfAbsent
<1>c. id \in HoldsIn(s) \cup torn' \/ (Absent = cache[id] /\ rows[id] = rows[id])
  BY <1>1, <1>5, <1>7, <1>8, OfAbsent
<1>d. \A a \in HoldsIn(s) \ torn' : a = id /\ Absent = rows[id]
  BY <1>1, <1>5, <1>7, <1>8, OfAbsent
<1>e. id \notin torn' \cup Deleted => Absent = Absent /\ rows[id] = Absent /\ \A g \in Handlers \ {h} : id \notin HoldsIn(hand[g])
  BY <1>1, <1>5, <1>7, <1>8, OfAbsent
<1>f. ~Absent.live /\ Ask[s.ask].after \in torn'
  BY <1>5, OfAbsent DEF after
<1>g. cache' = [cache EXCEPT ![id] = Absent] /\ rows' = [rows EXCEPT ![id] = rows[id]]
  BY <1>5
<1>h. GiveUp(h) /\ s.at \in {"insert", "parent", "row", "undo", "undone"}
  BY <1>1
<1>i. id = Ids(s)[s.n]
  BY <1>3
<1> QED BY <1>6, <1>9, <1>a, <1>b, <1>c, <1>d, <1>e, <1>f, <1>g, <1>h, <1>i, GivesUp, ZenonT(60)

\* The row of a new alert could not be written.
LEMMA OfFailRow ==
    ASSUME RequestsConstants, RequestsInv, NEW h \in Handlers, FailRow(h)
    PROVE  Result(h)
<1> DEFINE s == hand[h]  id == hand[h].id
<1>1. s.at = "row" /\ HoldsIn(s) = {id} /\ GiveUp(h)
  BY DEF FailRow, HoldsIn
<1>2. /\ AtWork(s, reply) /\ Knows(s, cache, rows, torn) /\ Ids(s)[s.n] \in Alerts
  BY <1>1, Working
<1>3. id = Ids(s)[s.n] /\ id \in Alerts
  BY <1>1, <1>2 DEF AtWork
<1>4. cache \in [Alerts -> RowType] /\ rows \in [Alerts -> RowType] /\ torn \subseteq Alerts
      /\ failures \in 0..MaxFailures /\ crashes \in 0..MaxCrashes /\ MaxFailures \in Nat
  BY <1>1, Working DEF RequestsConstants
<1>5. cache' = [cache EXCEPT ![id] = Absent] /\ rows' = [rows EXCEPT ![id] = rows[id]] /\ rows' = rows
      /\ torn' = torn /\ failures' = failures + 1 /\ failures < MaxFailures /\ crashes' = crashes
  BY <1>4 DEF FailRow, Fails
<1>6. Typed
  BY <1>3, <1>4, <1>5, OfAbsent DEF Typed
<1>7. id \notin torn => rows[id] = Absent
  BY <1>1, <1>2 DEF Knows
<1>8. id \notin torn => \A g \in Handlers \ {h} : id \notin HoldsIn(hand[g])
  BY <1>1, HeldByOne
<1>9. rows[id] \in RowType /\ Absent \in RowType
  BY <1>3, <1>4, OfAbsent
<1> HIDE DEF id
<1>a. Absent.after \in {None, cache[id].after, rows[id].after, s.row.after, s.other.after}
       /\ rows[id].after \in {None, cache[id].after, rows[id].after, s.row.after, s.other.after}
  BY <1>1, <1>5, <1>7, <1>8, OfAbsent
<1>b. id \notin torn' => Absent \in {Absent, cache[id]} /\ rows[id] \in {Absent, rows[id]}
  BY <1>1, <1>5, <1>7, <1>8, OfAbsent
<1>c. id \in HoldsIn(s) \cup torn' \/ (Absent = cache[id] /\ rows[id] = rows[id])
  BY <1>1, <1>5, <1>7, <1>8, OfAbsent
<1>d. \A a \in HoldsIn(s) \ torn' : a = id /\ Absent = rows[id]
  BY <1>1, <1>5, <1>7, <1>8, OfAbsent
<1>e. id \notin torn' \cup Deleted => Absent = Absent /\ rows[id] = Absent /\ \A g \in Handlers \ {h} : id \notin HoldsIn(hand[g])
  BY <1>1, <1>5, <1>7, <1>8, OfAbsent
<1> QED BY <1>1, <1>3, <1>5, <1>6, <1>9, <1>a, <1>b, <1>c, <1>d, <1>e, GivesUp

\* The alert to take back is gone already.
LEMMA OfUndoNothing ==
    ASSUME RequestsConstants, RequestsInv, NEW h \in Handlers, Undo(h), ~cache[Ids(hand[h])[hand[h].n]].live
    PROVE  Result(h)
<1> DEFINE s == hand[h]  id == Ids(hand[h])[hand[h].n]
<1>1. s.at = "undo" /\ HoldsIn(s) = {} /\ GiveUp(h)
  BY DEF Undo, HoldsIn, Of, Ids
<1>2. /\ AtWork(s, reply) /\ Progress(s, cache, rows, hand, torn) /\ id \in Alerts /\ s.n \in 1..Len(Ids(s))
  BY <1>1, Working
<1>3. id \in Deleted
  BY <1>1, <1>2 DEF Progress, Before, Made
<1>4. cache \in [Alerts -> RowType] /\ rows \in [Alerts -> RowType]
  BY <1>1, Working
<1>5. UNCHANGED <<cache, rows, failures, crashes, torn>>
  BY DEF Undo, Of, Ids
<1>6. Typed
  BY <1>1, <1>2, <1>5, NoChange
<1>7. cache' = [cache EXCEPT ![id] = cache[id]] /\ rows' = [rows EXCEPT ![id] = rows[id]]
  BY <1>4, <1>5
<1>9. rows[id] \in RowType /\ cache[id] \in RowType
  BY <1>2, <1>4
<1> HIDE DEF id
<1> QED BY <1>1, <1>3, <1>6, <1>7, <1>9, GivesUp DEF s, id

\* It is taken back, or cannot be.
LEMMA OfEraseUndone ==
    ASSUME RequestsConstants, RequestsInv, NEW h \in Handlers, Erase(h) \/ FailErase(h), hand[h].at = "undone"
    PROVE  Result(h)
<1> DEFINE s == hand[h]  id == hand[h].id
<1>1. HoldsIn(s) = {id} /\ GiveUp(h)
  BY DEF Erase, FailErase, Settle, HoldsIn
<1>2. /\ AtWork(s, reply) /\ Knows(s, cache, rows, torn) /\ Ids(s)[s.n] \in Alerts /\ s \in HandType
  BY <1>1, Working
<1>3. id = Ids(s)[s.n] /\ id \in Alerts /\ s.row \in RowType
  BY <1>1, <1>2 DEF AtWork, HandType
<1>4. cache \in [Alerts -> RowType] /\ rows \in [Alerts -> RowType] /\ torn \subseteq Alerts
      /\ failures \in 0..MaxFailures /\ crashes \in 0..MaxCrashes /\ MaxFailures \in Nat
  BY <1>1, Working DEF RequestsConstants
<1>5. id \notin torn => cache[id] = Absent
  BY <1>1, <1>2 DEF Knows
<1>6. id \notin torn => \A g \in Handlers \ {h} : id \notin HoldsIn(hand[g])
  BY <1>1, HeldByOne
<1>7. rows[id] \in RowType /\ cache[id] \in RowType /\ Absent \in RowType
  BY <1>3, <1>4, OfAbsent
<1>8. CASE Erase(h)
  <2>1. cache' = [cache EXCEPT ![id] = cache[id]] /\ rows' = [rows EXCEPT ![id] = Absent] /\ torn' = torn /\ failures' = failures
        /\ crashes' = crashes /\ cache' = cache
    BY <1>4, <1>8 DEF Erase, Writes
  <2>2. Typed
    BY <1>3, <1>4, <1>7, <2>1 DEF Typed
  <2> HIDE DEF id
  <2>a. cache[id].after \in {None, cache[id].after, rows[id].after, s.row.after, s.other.after}
         /\ Absent.after \in {None, cache[id].after, rows[id].after, s.row.after, s.other.after}
    BY <1>1, <1>5, <1>6, <2>1, OfAbsent
  <2>b. id \notin torn' => cache[id] \in {Absent, cache[id]} /\ Absent \in {Absent, rows[id]}
    BY <1>1, <1>5, <1>6, <2>1, OfAbsent
  <2>c. id \in HoldsIn(s) \cup torn' \/ (cache[id] = cache[id] /\ Absent = rows[id])
    BY <1>1, <1>5, <1>6, <2>1, OfAbsent
  <2>d. \A a \in HoldsIn(s) \ torn' : a = id /\ cache[id] = Absent
    BY <1>1, <1>5, <1>6, <2>1, OfAbsent
  <2>e. id \notin torn' \cup Deleted => cache[id] = Absent /\ Absent = Absent /\ \A g \in Handlers \ {h} : id \notin HoldsIn(hand[g])
    BY <1>1, <1>5, <1>6, <2>1, OfAbsent
  <2> QED BY <1>1, <1>3, <1>7, <2>1, <2>2, <2>a, <2>b, <2>c, <2>d, <2>e, GivesUp
<1>9. CASE FailErase(h)
  <2>1. cache' = [cache EXCEPT ![id] = s.row] /\ rows' = [rows EXCEPT ![id] = rows[id]] /\ torn' = torn \cup {id}
        /\ failures' = failures + 1 /\ failures < MaxFailures /\ crashes' = crashes /\ rows' = rows
    BY <1>4, <1>9 DEF FailErase, Fails
  <2>2. Typed
    BY <1>3, <1>4, <1>7, <2>1 DEF Typed
  <2> HIDE DEF id
  <2> QED BY <1>1, <1>3, <1>6, <1>7, <2>1, <2>2, GivesUp DEF s
<1> QED BY <1>8, <1>9

\* The alert to wait for is not there, or for another pair.
LEMMA OfInsertRefused ==
    ASSUME RequestsConstants, RequestsInv, NEW h \in Handlers, Insert(h),
           ~MayWaitFor(Ids(hand[h])[hand[h].n], Ask[hand[h].ask].after)
    PROVE  Result(h)
<1> DEFINE s == hand[h]  id == Ids(hand[h])[hand[h].n]
<1>1. s.at = "insert" /\ HoldsIn(s) = {} /\ GiveUp(h) /\ UNCHANGED <<cache, rows, failures, crashes, torn>>
  BY DEF Insert, HoldsIn, Of, Ids
<1>2. /\ Comes(s, cache, rows, hand) /\ id \in Alerts /\ s.n \in 1..Len(Ids(s)) /\ Ids(s) \in Seq(Alerts)
  BY <1>1, Working
<1>3. s.n >= s.n /\ s.n \in Nat
  BY <1>2
<1>4. Clear(id, cache, rows, hand)
  BY <1>1, <1>2, <1>3 DEF Comes, Ahead, Unborn
<1>5. cache[id] = Absent /\ rows[id] = Absent /\ \A g \in Handlers : id \notin HoldsIn(hand[g])
  BY <1>4 DEF Clear, Touches
<1>6. cache \in [Alerts -> RowType] /\ rows \in [Alerts -> RowType]
  BY <1>1, Working
<1>7. Typed
  BY <1>1, <1>2, NoChange
<1>8. cache' = [cache EXCEPT ![id] = cache[id]] /\ rows' = [rows EXCEPT ![id] = rows[id]]
  BY <1>1, <1>6
<1>9. rows[id] \in RowType /\ cache[id] \in RowType
  BY <1>2, <1>6
<1> HIDE DEF id
<1>a. cache[id].after \in {None, cache[id].after, rows[id].after, s.row.after, s.other.after}
       /\ rows[id].after \in {None, cache[id].after, rows[id].after, s.row.after, s.other.after}
  BY <1>1, <1>5
<1>b. id \notin torn' => cache[id] \in {Absent, cache[id]} /\ rows[id] \in {Absent, rows[id]}
  BY <1>1, <1>5
<1>c. id \in HoldsIn(s) \cup torn' \/ (cache[id] = cache[id] /\ rows[id] = rows[id])
  BY <1>1, <1>5
<1>d. \A a \in HoldsIn(s) \ torn' : a = id /\ cache[id] = rows[id]
  BY <1>1, <1>5
<1>e. id \notin torn' \cup Deleted => cache[id] = Absent /\ rows[id] = Absent /\ \A g \in Handlers \ {h} : id \notin HoldsIn(hand[g])
  BY <1>1, <1>5
<1>f. id = Ids(s)[s.n]
  BY DEF id
<1>h. GiveUp(h) /\ s.at \in {"insert", "parent", "row", "undo", "undone"} /\ s.at # "parent"
  BY <1>1
<1> QED BY <1>7, <1>8, <1>9, <1>a, <1>b, <1>c, <1>d, <1>e, <1>f, <1>h, GivesUp, ZenonT(60)

\* What two handlers work on at once.
LEMMA WorksAtOnce ==
    ASSUME NEW h \in Handlers, NEW S, Works(h, S)
    PROVE  /\ torn \subseteq torn' /\ torn' \subseteq torn \cup S
           /\ \A g \in Handlers \ {h} : S \cap HoldsIn(hand[g]) \subseteq torn'
<1>1. \A g \in Handlers : Holds(g) = HoldsIn(hand[g])
  BY DEF Holds, HoldsIn, Of, Ids
<1> QED BY <1>1 DEF Works

\* A request that goes on.
LEMMA Continues ==
    ASSUME RequestsConstants, RequestsInv, NEW h \in Handlers, hand[h].at # "ready", NEW s, GoesOn(h, s), Typed,
           NEW id, NEW v, NEW w, Alters(h, id, v, w),
           {s.row.after, s.other.after} \subseteq {None, cache[id].after, rows[id].after, hand[h].row.after, hand[h].other.after},
           Touches(s) \subseteq Touches(hand[h]) \cup Own(hand[h]) \cup {a \in Alerts : cache[a].live},
           id \in HoldsIn(hand[h]) \cup HoldsIn(s) \cup torn' \/ (v = cache[id] /\ w = rows[id]),
           \A g \in Handlers \ {h} : HoldsIn(s) \cap HoldsIn(hand[g]) \subseteq torn' \cup HoldsIn(hand[h]),
           \A a \in HoldsIn(hand[h]) \ (HoldsIn(s) \cup torn') : cache'[a] = rows'[a],
           \A i \in 1..Len(Ids(hand[h])) : Ahead(s, i) => Ahead(hand[h], i) /\ Ids(hand[h])[i] \notin Own(hand[h]),
           Knows(s, cache', rows', torn'), Progress(s, cache', rows', hand', torn'),
           id \notin torn' => /\ v = cache[id] \/ v = rows[id] \/ HasText(v)
                              /\ w = cache[id] \/ w = rows[id] \/ HasText(w)
                              /\ \/ Like(v, cache[id])
                                 \/ Like(v, rows[id]) /\ id \in HoldsIn(hand[h]) /\ hand[h].at # "parent"
                              /\ \/ Like(w, rows[id])
                                 \/ /\ Like(w, cache[id]) /\ id \in HoldsIn(hand[h])
                                    /\ hand[h].at = "parent" => id = Ask[hand[h].ask].after,
           s.at # "parent",
           hand[h].at = "parent" => \/ Ask[hand[h].ask].after \in torn'
                                    \/ id = Ask[hand[h].ask].after /\ v = w
    PROVE  Result(h)
<1>0. /\ hand \in [Handlers -> HandType] /\ cache \in [Alerts -> RowType] /\ rows \in [Alerts -> RowType]
      /\ reply[hand[h].ask] = "none" /\ hand[h].ask \in Asks
  BY Working
<1>1. hand'[h] = s /\ s.ask = hand[h].ask /\ reply' = reply
  BY <1>0 DEF GoesOn
<1>2. Moved(h)
  BY Hands DEF RequestsInv, Basis
<1>3. Creeps(h)
  BY <1>1, AltersCreeps
<1>4. TextsFit'
  BY AltersTexts
<1>5. ChainsMatch'
  BY <1>1, <1>2, AltersChains
<1>6. Minds(h)
  <2>1. /\ cache'[id] = v /\ rows'[id] = w
        /\ \A a \in Alerts \ {id} : cache'[a] = cache[a] /\ rows'[a] = rows[a]
    BY <1>0 DEF Alters
  <2> QED BY <1>1, <2>1 DEF Minds
<1>7. LetsGo(h)
  BY <1>1 DEF LetsGo
<1>8. Closer(h)
  <2>1. Ids(s) = Ids(hand[h])
    BY <1>1 DEF Ids
  <2> QED BY <1>1, <2>1 DEF Closer
<1>9. Knows(hand'[h], cache', rows', torn') /\ Progress(hand'[h], cache', rows', hand', torn')
  BY <1>1
<1>10. Answered(hand[h].ask, cache', rows', hand', torn', reply')
  BY <1>0, <1>1 DEF Answered
<1> QED BY <1>3, <1>4, <1>5, <1>6, <1>7, <1>8, <1>9, <1>10 DEF Result

\* The alert is not there, or the change is not good.
LEMMA OfNothing ==
    ASSUME RequestsConstants, RequestsInv, NEW h \in Handlers, hand[h].at \in {"own", "drop", "check"}, NEW r \in Replies \ {"none", "undefined"},
           Answer(h, r), UNCHANGED <<cache, rows, failures, crashes, torn>>
    PROVE  Result(h)
<1>1. HoldsIn(hand[h]) = {} /\ First \in Alerts /\ hand[h].at \notin {"ready", "parent"}
  BY DEF HoldsIn, RequestsConstants
<1>2. ~Creation(hand[h].ask)
  <2>1. AtWork(hand[h], reply)
    BY <1>1, Working
  <2> QED BY <2>1 DEF AtWork, Creation
<1>3. IsDone(h, r)
  BY DEF IsDone
<1>4. Typed /\ Alters(h, First, cache[First], rows[First]) /\ Like(cache[First], cache[First]) /\ Like(rows[First], rows[First])
  BY <1>1, NoChange
<1> QED BY <1>1, <1>2, <1>3, <1>4, Ends

\* What was checked is gone when it is changed.
LEMMA OfChangeNothing ==
    ASSUME RequestsConstants, RequestsInv, NEW h \in Handlers, Change(h), ~cache[hand[h].id].live
    PROVE  Result(h)
<1> DEFINE id == hand[h].id
<1>1. hand[h].at = "checked" /\ HoldsIn(hand[h]) = {id} /\ Answer(h, "missing")
  BY DEF HoldsIn, Change
<1>2. AtWork(hand[h], reply) /\ Knows(hand[h], cache, rows, torn) /\ 1 \in 1..Len(Ids(hand[h]))
      /\ \A i \in 1..Len(Ids(hand[h])) : Ids(hand[h])[i] \in Alerts
  BY <1>1, Working
<1>3. id \in Alerts /\ ~Creation(hand[h].ask)
  BY <1>1, <1>2 DEF AtWork, Creation
<1>4. id \in torn
  BY <1>1, <1>2 DEF Knows
<1>5. IsDone(h, "missing")
  BY <1>1 DEF IsDone, Replies
<1>6. UNCHANGED <<cache, rows, failures, crashes, torn>>
  BY DEF Change
<1>7. Typed /\ Alters(h, id, cache[id], rows[id]) /\ Like(cache[id], cache[id]) /\ Like(rows[id], rows[id])
  BY <1>1, <1>3, <1>6, NoChange
<1>8. id \in torn'
  BY <1>4, <1>6
<1> QED BY <1>1, <1>3, <1>5, <1>7, <1>8, Ends

\* An alert that a handler takes in hand and no other has: table and cache agree.
LEMMA Taken ==
    ASSUME RequestsConstants, RequestsInv, NEW h \in Handlers, NEW S, Works(h, S), NEW a \in S \cap Alerts, a \notin torn',
           a \notin HoldsIn(hand[h])
    PROVE  cache[a] = rows[a] /\ \A g \in Handlers : a \notin HoldsIn(hand[g])
<1>1. torn \subseteq torn' /\ \A g \in Handlers \ {h} : S \cap HoldsIn(hand[g]) \subseteq torn'
  BY WorksAtOnce
<1>2. a \notin torn /\ \A g \in Handlers : a \notin HoldsIn(hand[g])
  BY <1>1
<1> QED BY <1>2 DEF RequestsInv, Agreed

\* A handler goes on to another step, with another alert or row.
LEMMA Goes2 ==
    ASSUME hand \in [Handlers -> HandType], NEW h \in Handlers, NEW at, NEW id, hand' = [hand EXCEPT ![h].at = at, ![h].id = id]
    PROVE  hand' = [hand EXCEPT ![h] = [at |-> at, ask |-> hand[h].ask, n |-> hand[h].n, id |-> id,
                                        row |-> hand[h].row, other |-> hand[h].other]]
<1> DEFINE s == hand[h]
           u == [at |-> at, ask |-> s.ask, n |-> s.n, id |-> id, row |-> s.row, other |-> s.other]
<1>1. s \in HandType
  OBVIOUS
<1>2. [s EXCEPT !.at = at, !.id = id] = u
  <2> DEFINE r == [at |-> at, ask |-> s.ask, n |-> s.n, id |-> s.id, row |-> s.row, other |-> s.other]
  <2>1. [s EXCEPT !.at = at] = r
    BY <1>1 DEF HandType
  <2>2. [r EXCEPT !.id = id] = u
    OBVIOUS
  <2> QED BY <2>1, <2>2
<1>3. hand' = [hand EXCEPT ![h] = [s EXCEPT !.at = at, !.id = id]]
  OBVIOUS
<1> QED BY <1>2, <1>3

\* A look at an alert, before it is read again or deleted.
LEMMA OfOwned ==
    ASSUME RequestsConstants, RequestsInv, NEW h \in Handlers, Owned(h)
    PROVE  Result(h)
<1> DEFINE s == hand[h]  id == Ids(hand[h])[1]
           at == IF Ask[hand[h].ask].kind = "get" THEN "found" ELSE "drop"
           u == [at |-> at, ask |-> s.ask, n |-> s.n, id |-> id, row |-> s.row, other |-> s.other]
<1>1. s.at = "own" /\ HoldsIn(s) = {} /\ Own(s) = {} /\ s.at \notin {"ready", "parent"}
  BY DEF Owned, HoldsIn, Own
<1>2. UNCHANGED <<cache, rows, failures, crashes>>
  BY DEF Owned
<1>3. CASE ~cache[id].live
  <2>1. Answer(h, "missing") /\ torn' = torn
    BY <1>3 DEF Owned, Of, Ids
  <2>2. "missing" \in Replies \ {"none", "undefined"}
    BY DEF Replies
  <2> QED BY <1>1, <1>2, <2>1, <2>2, OfNothing
<1>4. CASE cache[id].live
  <2>1. /\ hand' = [hand EXCEPT ![h].at = at, ![h].id = id] /\ reply' = reply
        /\ Works(h, IF Ask[s.ask].kind = "get" THEN {id} ELSE {})
    BY <1>4 DEF Owned, Of, Ids
  <2>2. /\ AtWork(s, reply) /\ s.ask \in Asks /\ id \in Alerts /\ s \in HandType /\ hand \in [Handlers -> HandType]
        /\ s.n \in 1..Len(Ids(s)) /\ reply[s.ask] = "none"
    BY <1>1, Working
  <2>3. hand' = [hand EXCEPT ![h] = u]
    <3> HIDE DEF at, id
    <3> QED BY <2>1, <2>2, Goes2
  <2>4. u \in HandType
    BY <2>2 DEF HandType, Ats
  <2>5. Ask[s.ask].kind \in {"delete", "get"}
    BY <1>1, <2>2 DEF AtWork
  <2>6. /\ u.at = at /\ u.ask = s.ask /\ u.n = s.n /\ u.id = id /\ u.row = s.row /\ u.other = s.other /\ Ids(u) = Ids(s)
        /\ hand'[h] = u
    BY <2>2, <2>3 DEF Ids
  <2>7. at \in {"found", "drop"} /\ (at = "found" <=> Ask[s.ask].kind = "get")
    OBVIOUS
  <2> HIDE DEF u, at
  <2>8. AtWork(u, reply)
    BY <2>2, <2>5, <2>6, <2>7 DEF AtWork, Making
  <2>9. GoesOn(h, u)
    BY <2>1, <2>3, <2>4, <2>6, <2>7, <2>8 DEF GoesOn
  <2>10. HoldsIn(u) = (IF Ask[s.ask].kind = "get" THEN {id} ELSE {}) /\ Touches(u) = {id}
    BY <2>6, <2>7 DEF HoldsIn, Touches
  <2>11. /\ torn \subseteq torn' /\ torn' \subseteq Alerts
         /\ \A g \in Handlers \ {h} : HoldsIn(u) \cap HoldsIn(hand[g]) \subseteq torn'
    <3>1. torn \subseteq Alerts
      BY <1>1, Working
    <3> QED BY <2>1, <2>2, <2>10, <3>1, WorksAtOnce
  <2>12. Typed
    <3>1. /\ cache \in [Alerts -> RowType] /\ rows \in [Alerts -> RowType]
          /\ failures \in 0..MaxFailures /\ crashes \in 0..MaxCrashes
      BY <1>1, Working
    <3> QED BY <1>2, <2>11, <3>1 DEF Typed
  <2>13. Alters(h, id, cache[id], rows[id]) /\ Like(cache[id], cache[id]) /\ Like(rows[id], rows[id])
    <3>1. /\ cache \in [Alerts -> RowType] /\ rows \in [Alerts -> RowType]
      BY <1>1, Working
    <3>2. cache' = [cache EXCEPT ![id] = cache[id]] /\ rows' = [rows EXCEPT ![id] = rows[id]]
      BY <1>2, <3>1
    <3> QED BY <2>2, <3>1, <3>2 DEF Alters, Like
  <2>14. Knows(u, cache', rows', torn')
    <3>1. u.at = "found" /\ id \notin torn' => cache[id] = rows[id]
      BY <1>1, <2>1, <2>2, <2>6, <2>7, Taken
    <3>2. u.at = "found" /\ id \notin torn' => cache'[id] = rows'[id] /\ cache'[id].live
      BY <1>2, <1>4, <3>1
    <3> QED BY <2>6, <2>7, <3>2 DEF Knows
  <2>15. Progress(u, cache', rows', hand', torn')
    BY <2>6, <2>7 DEF Progress, Before, After
  <2>16. \A i \in 1..Len(Ids(s)) : ~Ahead(u, i)
    BY <2>6, <2>7 DEF Ahead
  <2>17. /\ {u.row.after, u.other.after} \subseteq {None, cache[id].after, rows[id].after, s.row.after, s.other.after}
         /\ Touches(u) \subseteq Touches(s) \cup Own(s) \cup {a \in Alerts : cache[a].live}
         /\ \A g \in Handlers \ {h} : HoldsIn(u) \cap HoldsIn(hand[g]) \subseteq torn' \cup HoldsIn(s)
         /\ u.at # "parent"
    BY <1>4, <2>2, <2>6, <2>7, <2>10, <2>11
  <2> HIDE DEF s, id
  <2> QED BY <1>1, <2>9, <2>12, <2>13, <2>14, <2>15, <2>16, <2>17, Continues DEF s
<1> QED BY <1>3, <1>4

\* A change is judged by the alert as it is read.
LEMMA OfCheck ==
    ASSUME RequestsConstants, RequestsInv, NEW h \in Handlers, Check(h)
    PROVE  Result(h)
<1> DEFINE s == hand[h]  id == Ids(hand[h])[1]
           u == [at |-> "checked", ask |-> s.ask, n |-> s.n, id |-> id, row |-> s.row, other |-> s.other]
<1>1. s.at = "check" /\ HoldsIn(s) = {} /\ Own(s) = {} /\ s.at \notin {"ready", "parent"}
  BY DEF Check, HoldsIn, Own
<1>2. UNCHANGED <<cache, rows, failures, crashes>>
  BY DEF Check
<1>3. CASE ~(cache[id].live /\ Fits(With(cache[id], Ask[s.ask])))
  <2>1. (Answer(h, "missing") \/ Answer(h, "refused")) /\ torn' = torn
    BY <1>3 DEF Check, Of, Ids
  <2>2. {"missing", "refused"} \subseteq Replies \ {"none", "undefined"}
    BY DEF Replies
  <2> QED BY <1>1, <1>2, <2>1, <2>2, OfNothing, SMTT(30)
<1>4. CASE cache[id].live /\ Fits(With(cache[id], Ask[s.ask]))
  <2>1. /\ hand' = [hand EXCEPT ![h].at = "checked", ![h].id = id] /\ reply' = reply
        /\ Works(h, {id})
    BY <1>4 DEF Check, Of, Ids
  <2>2. /\ AtWork(s, reply) /\ s.ask \in Asks /\ id \in Alerts /\ s \in HandType /\ hand \in [Handlers -> HandType]
        /\ s.n \in 1..Len(Ids(s)) /\ reply[s.ask] = "none"
    BY <1>1, Working
  <2>3. hand' = [hand EXCEPT ![h] = u]
    BY <2>1, <2>2, Goes2
  <2>4. u \in HandType
    BY <2>2 DEF HandType, Ats
  <2>5. Ask[s.ask].kind = "update"
    BY <1>1, <2>2 DEF AtWork
  <2>6. /\ u.at = "checked" /\ u.ask = s.ask /\ u.n = s.n /\ u.id = id /\ u.row = s.row /\ u.other = s.other /\ Ids(u) = Ids(s)
        /\ hand'[h] = u
    BY <2>2, <2>3 DEF Ids
  <2> HIDE DEF u
  <2>8. AtWork(u, reply)
    BY <2>2, <2>5, <2>6 DEF AtWork, Making
  <2>9. GoesOn(h, u)
    BY <2>1, <2>3, <2>4, <2>6, <2>8 DEF GoesOn
  <2>10. HoldsIn(u) = {id} /\ Touches(u) = {id}
    BY <2>6 DEF HoldsIn, Touches
  <2>11. /\ torn \subseteq torn' /\ torn' \subseteq Alerts
         /\ \A g \in Handlers \ {h} : HoldsIn(u) \cap HoldsIn(hand[g]) \subseteq torn'
    <3>1. torn \subseteq Alerts
      BY <1>1, Working
    <3> QED BY <2>1, <2>2, <2>10, <3>1, WorksAtOnce
  <2>12. Typed
    <3>1. /\ cache \in [Alerts -> RowType] /\ rows \in [Alerts -> RowType]
          /\ failures \in 0..MaxFailures /\ crashes \in 0..MaxCrashes
      BY <1>1, Working
    <3> QED BY <1>2, <2>11, <3>1 DEF Typed
  <2>13. Alters(h, id, cache[id], rows[id]) /\ Like(cache[id], cache[id]) /\ Like(rows[id], rows[id])
    <3>1. /\ cache \in [Alerts -> RowType] /\ rows \in [Alerts -> RowType]
      BY <1>1, Working
    <3>2. cache' = [cache EXCEPT ![id] = cache[id]] /\ rows' = [rows EXCEPT ![id] = rows[id]]
      BY <1>2, <3>1
    <3> QED BY <2>2, <3>1, <3>2 DEF Alters, Like
  <2>14. Knows(u, cache', rows', torn')
    <3>1. id \notin torn' => cache[id] = rows[id]
      BY <1>1, <2>1, <2>2, <2>6, Taken
    <3>2. id \notin torn' => cache'[id] = rows'[id] /\ cache'[id].live /\ Fits(With(cache'[id], Ask[u.ask]))
      BY <1>2, <1>4, <2>6, <3>1
    <3> QED BY <2>6, <3>2 DEF Knows
  <2>15. Progress(u, cache', rows', hand', torn')
    BY <2>6 DEF Progress, Before, After
  <2>16. \A i \in 1..Len(Ids(s)) : ~Ahead(u, i)
    BY <2>6 DEF Ahead
  <2>17. /\ {u.row.after, u.other.after} \subseteq {None, cache[id].after, rows[id].after, s.row.after, s.other.after}
         /\ Touches(u) \subseteq Touches(s) \cup Own(s) \cup {a \in Alerts : cache[a].live}
         /\ \A g \in Handlers \ {h} : HoldsIn(u) \cap HoldsIn(hand[g]) \subseteq torn' \cup HoldsIn(s)
         /\ u.at # "parent"
    BY <1>4, <2>2, <2>6, <2>10, <2>11
  <2> HIDE DEF s, id
  <2> QED BY <1>1, <2>9, <2>12, <2>13, <2>14, <2>15, <2>16, <2>17, Continues, SMTT(30) DEF s
<1> QED BY <1>3, <1>4

\* An alert leaves the cache, and its row is to go.
LEMMA TakesOut ==
    ASSUME RequestsConstants, RequestsInv, NEW h \in Handlers, NEW id, NEW at, TakeOut(h, id, at),
           UNCHANGED <<rows, failures, crashes>>, id \in Alerts, cache[id].live,
           \/ hand[h].at = "drop" /\ at = "erase" /\ id = hand[h].id
           \/ hand[h].at = "undo" /\ at = "undone" /\ id = Ids(hand[h])[hand[h].n]
    PROVE  Result(h)
<1> DEFINE s == hand[h]
           u == [at |-> at, ask |-> s.ask, n |-> s.n, id |-> id, row |-> cache[id], other |-> s.other]
<1>1. HoldsIn(s) = {} /\ s.at \in {"drop", "undo"} /\ at \in {"erase", "undone"}
  BY DEF HoldsIn
<1>2. /\ AtWork(s, reply) /\ s.ask \in Asks /\ s \in HandType /\ hand \in [Handlers -> HandType]
      /\ s.n \in 1..Len(Ids(s)) /\ reply[s.ask] = "none"
  BY <1>1, Working
<1>3. /\ cache \in [Alerts -> RowType] /\ rows \in [Alerts -> RowType] /\ torn \subseteq Alerts
      /\ failures \in 0..MaxFailures /\ crashes \in 0..MaxCrashes
  BY <1>1, Working
<1>4. hand' = [hand EXCEPT ![h] = u] /\ reply' = reply /\ Works(h, {id})
  <2> DEFINE r1 == [at |-> at, ask |-> s.ask, n |-> s.n, id |-> s.id, row |-> s.row, other |-> s.other]
             r2 == [at |-> at, ask |-> s.ask, n |-> s.n, id |-> id, row |-> s.row, other |-> s.other]
  <2>1. [s EXCEPT !.at = at] = r1
    BY <1>2 DEF HandType
  <2>2. [r1 EXCEPT !.id = id] = r2
    OBVIOUS
  <2>3. [r2 EXCEPT !.row = cache[id]] = u
    OBVIOUS
  <2>4. hand' = [hand EXCEPT ![h] = [s EXCEPT !.at = at, !.id = id, !.row = cache[id]]]
    BY DEF TakeOut
  <2> HIDE DEF r1, r2, u
  <2> QED BY <2>1, <2>2, <2>3, <2>4 DEF TakeOut
<1>5. u \in HandType
  BY <1>1, <1>2, <1>3 DEF HandType, Ats
<1>6. /\ u.at = at /\ u.ask = s.ask /\ u.n = s.n /\ u.id = id /\ u.row = cache[id] /\ u.other = s.other /\ Ids(u) = Ids(s)
      /\ hand'[h] = u
  BY <1>2, <1>4 DEF Ids
<1> HIDE DEF u
<1>7. AtWork(u, reply)
  <2>1. CASE s.at = "drop"
    BY <1>2, <1>6, <2>1 DEF AtWork, Making
  <2>2. CASE s.at = "undo"
    BY <1>2, <1>6, <2>2 DEF AtWork, Making
  <2> QED BY <1>1, <2>1, <2>2
<1>8. GoesOn(h, u)
  BY <1>1, <1>4, <1>5, <1>6, <1>7 DEF GoesOn
<1>9. HoldsIn(u) = {id} /\ Touches(u) = {id} /\ id \in Own(s) \cup Deleted
  <2>1. s.at = "drop" => s.id \in Deleted
    BY DropsDeleted
  <2> QED BY <1>1, <1>6, <2>1 DEF HoldsIn, Touches, Own
<1>10. /\ torn \subseteq torn' /\ torn' \subseteq Alerts
       /\ \A g \in Handlers \ {h} : HoldsIn(u) \cap HoldsIn(hand[g]) \subseteq torn'
  BY <1>3, <1>4, <1>9, WorksAtOnce
<1>11. cache' = [cache EXCEPT ![id] = Absent] /\ rows' = [rows EXCEPT ![id] = rows[id]]
  BY <1>3 DEF TakeOut
<1>12. Typed
  BY <1>3, <1>10, <1>11, OfAbsent DEF Typed
<1>13. Alters(h, id, Absent, rows[id])
  <2>1. rows[id] \in RowType
    BY <1>3
  <2> QED BY <1>9, <1>11, <2>1, OfAbsent DEF Alters
<1>14. Knows(u, cache', rows', torn')
  <2>1. cache'[id] = Absent
    BY <1>3, <1>11
  <2> QED BY <1>1, <1>6, <2>1 DEF Knows
<1>15. {u.row.after, u.other.after} \subseteq {None, cache[id].after, rows[id].after, s.row.after, s.other.after}
       /\ Touches(u) \subseteq Touches(s) \cup Own(s) \cup {a \in Alerts : cache[a].live}
  BY <1>6, <1>9
<1>16. Progress(u, cache', rows', hand', torn')
  <2>1. CASE s.at = "drop"
    BY <1>6, <2>1 DEF Progress, Before, After
  <2>2. CASE s.at = "undo"
    <3>1. Own(s) = {id} /\ s.n \in Nat /\ Len(Ids(s)) \in Nat
      BY <1>2, <2>2 DEF Own
    <3>2. Moved(h) /\ Creeps(h)
      <4>1. s.at # "ready"
        BY <1>1
      <4>2. Moved(h)
        BY <4>1, <1>8, Hands DEF RequestsInv, Basis
      <4> QED BY <4>1, <4>2, <1>6, <1>13, <1>15, AltersCreeps
    <3>3. Progress(s, cache, rows, hand, torn) /\ Creation(s.ask) /\ Ids(s) = Ask[s.ask].ids
          /\ \A i \in 1..Len(Ids(s)) : Ids(s)[i] \in Alerts
      BY <1>1, <1>2, <2>2, Working DEF AtWork, Making
    <3>4. ASSUME NEW i \in 1..Len(Ids(s)), i # s.n PROVE Ids(s)[i] \in Alerts \ Own(s)
      <4>1. Ids(s)[i] # id
        BY <1>2, <2>2, <3>3, <3>4, Distinct
      <4> QED BY <3>1, <3>3, <4>1
    <3>5. \A i \in 1..Len(Ids(s)) : (i < s.n => i # s.n) /\ (i > s.n => i # s.n)
      BY <3>1
    <3>6. ASSUME NEW i \in 1..Len(Ids(s)), i < s.n PROVE Made(Ids(s)[i], cache', rows')
      <4>1. Made(Ids(s)[i], cache, rows)
        BY <2>2, <3>3, <3>6 DEF Progress, Before
      <4> QED BY <1>12, <3>2, <3>4, <3>5, <3>6, <4>1, StaysMade DEF RequestsInv, Basis
    <3>7. ASSUME NEW i \in 1..Len(Ids(s)), i > s.n PROVE Gone(Ids(s)[i], cache', rows', hand', torn')
      <4>1. Gone(Ids(s)[i], cache, rows, hand, torn)
        BY <2>2, <3>3, <3>7 DEF Progress, After
      <4> QED BY <1>12, <3>2, <3>4, <3>5, <3>7, <4>1, StaysMade DEF RequestsInv, Basis
    <3>8. u.at = "undone"
      BY <1>6, <2>2
    <3> QED BY <1>6, <3>6, <3>7, <3>8 DEF Progress, Before, After
  <2> QED BY <1>1, <2>1, <2>2
<1>17. \A i \in 1..Len(Ids(s)) : ~Ahead(u, i)
  BY <1>1, <1>6 DEF Ahead
<1>18. s.at \notin {"ready", "parent"} /\ u.at # "parent" /\ id \in HoldsIn(u) /\ id \in Alerts
  BY <1>1, <1>6, <1>9
<1> HIDE DEF s
<1> QED BY <1>1, <1>8, <1>10, <1>12, <1>13, <1>14, <1>15, <1>16, <1>17, <1>18, OfAbsent, Continues DEF s

\* A deletion on request leaves the cache.
LEMMA OfDrop ==
    ASSUME RequestsConstants, RequestsInv, NEW h \in Handlers, Drop(h)
    PROVE  Result(h)
<1> DEFINE s == hand[h]
<1>1. s.at = "drop" /\ UNCHANGED <<rows, failures, crashes>>
  BY DEF Drop
<1>2. CASE cache[s.id].live
  <2>1. TakeOut(h, s.id, "erase")
    BY <1>2 DEF Drop
  <2>2. s.id \in Alerts
    BY <1>1, HoldsAlerts DEF RequestsInv, Basis
  <2> QED BY <1>1, <1>2, <2>1, <2>2, TakesOut
<1>3. CASE ~cache[s.id].live
  <2>1. Answer(h, "failed") /\ UNCHANGED <<cache, torn>>
    BY <1>3 DEF Drop
  <2>2. "failed" \in Replies \ {"none", "undefined"}
    BY DEF Replies
  <2> QED BY <1>1, <2>1, <2>2, OfNothing
<1> QED BY <1>2, <1>3

\* And so does one of previous-day alerts that are given up.
LEMMA OfUndo ==
    ASSUME RequestsConstants, RequestsInv, NEW h \in Handlers, Undo(h)
    PROVE  Result(h)
<1> DEFINE s == hand[h]  id == Ids(s)[s.n]
<1>1. s.at = "undo" /\ UNCHANGED <<rows, failures, crashes>>
  BY DEF Undo
<1>2. CASE cache[id].live
  <2>1. TakeOut(h, id, "undone")
    BY <1>2 DEF Undo, Of, Ids
  <2>2. id \in Alerts
    BY <1>1, Working
  <2> QED BY <1>1, <1>2, <2>1, <2>2, TakesOut
<1>3. CASE ~cache[id].live
  BY <1>3, OfUndoNothing
<1> QED BY <1>2, <1>3

\* A change is made in the cache.
LEMMA OfChange ==
    ASSUME RequestsConstants, RequestsInv, NEW h \in Handlers, Change(h)
    PROVE  Result(h)
<1> DEFINE s == hand[h]  id == s.id  v == With(cache[id], Ask[s.ask])
           u == [at |-> "save", ask |-> s.ask, n |-> s.n, id |-> s.id, row |-> v, other |-> cache[id]]
<1>1. s.at = "checked" /\ HoldsIn(s) = {id} /\ Own(s) = {} /\ Touches(s) = {id} /\ s.at \notin {"ready", "parent"}
  BY DEF Change, HoldsIn, Own, Touches
<1>2. UNCHANGED <<rows, failures, crashes>>
  BY DEF Change
<1>3. SUFFICES ASSUME cache[id].live PROVE Result(h)
  BY OfChangeNothing
<1>4. /\ cache' = [cache EXCEPT ![id] = v] /\ reply' = reply /\ Works(h, {id})
  BY <1>3 DEF Change, Of
<1>5. /\ AtWork(s, reply) /\ s.ask \in Asks /\ s \in HandType /\ hand \in [Handlers -> HandType]
      /\ s.n \in 1..Len(Ids(s)) /\ reply[s.ask] = "none" /\ Knows(s, cache, rows, torn) /\ Ids(s)[1] \in Alerts
  BY <1>1, Working
<1>6. id \in Alerts /\ id = Ids(s)[1] /\ Ask[s.ask].kind = "update"
  BY <1>1, <1>5 DEF AtWork
<1>7. /\ cache \in [Alerts -> RowType] /\ rows \in [Alerts -> RowType] /\ torn \subseteq Alerts
      /\ failures \in 0..MaxFailures /\ crashes \in 0..MaxCrashes
  BY <1>1, Working
<1>8. v \in RowType /\ v.live /\ v.after = cache[id].after /\ v.chain = cache[id].chain
  <2>1. Ask[s.ask].text \in BOOLEAN /\ Ask[s.ask].msg \in BOOLEAN
    BY <1>5 DEF RequestsConstants
  <2>2. \A y \in RowType, m \in BOOLEAN : [y EXCEPT !.msg = m] \in RowType /\ [y EXCEPT !.text = m] \in RowType
    BY DEF RowType
  <2>3. cache[id] \in RowType
    BY <1>6, <1>7
  <2>4. \A y \in RowType : y.text \in BOOLEAN /\ y.msg \in BOOLEAN
    BY DEF RowType
  <2>5. \A m1, m2 : /\ [cache[id] EXCEPT !.text = m1, !.msg = m2].live = cache[id].live
                    /\ [cache[id] EXCEPT !.text = m1, !.msg = m2].after = cache[id].after
                    /\ [cache[id] EXCEPT !.text = m1, !.msg = m2].chain = cache[id].chain
    BY <2>3 DEF RowType
  <2>6. \E m1 \in BOOLEAN, m2 \in BOOLEAN : v = [cache[id] EXCEPT !.text = m1, !.msg = m2]
    <3> DEFINE m1 == IF "text" \in Ask[s.ask].sets THEN Ask[s.ask].text ELSE cache[id].text
               m2 == IF "msg" \in Ask[s.ask].sets THEN Ask[s.ask].msg ELSE cache[id].msg
    <3>1. m1 \in BOOLEAN /\ m2 \in BOOLEAN
      BY <2>1, <2>3, <2>4
    <3>2. v = [cache[id] EXCEPT !.text = m1, !.msg = m2]
      BY <2>3 DEF With, RowType
    <3> QED BY <3>1, <3>2
  <2>7. \A m1 \in BOOLEAN, m2 \in BOOLEAN : [cache[id] EXCEPT !.text = m1, !.msg = m2] \in RowType
    BY <2>3 DEF RowType
  <2> HIDE DEF v
  <2>8. PICK m1 \in BOOLEAN, m2 \in BOOLEAN : v = [cache[id] EXCEPT !.text = m1, !.msg = m2]
    BY <2>6
  <2>9. v \in RowType
    BY <2>7, <2>8
  <2>10. v.live = cache[id].live /\ v.after = cache[id].after /\ v.chain = cache[id].chain
    BY <2>5, <2>8
  <2> QED BY <1>3, <2>9, <2>10
<1> HIDE DEF v
<1>9. hand' = [hand EXCEPT ![h] = u]
  <2> DEFINE r1 == [at |-> "save", ask |-> s.ask, n |-> s.n, id |-> s.id, row |-> s.row, other |-> s.other]
             r2 == [at |-> "save", ask |-> s.ask, n |-> s.n, id |-> s.id, row |-> v, other |-> s.other]
  <2>1. [s EXCEPT !.at = "save"] = r1
    BY <1>5 DEF HandType
  <2>2. [r1 EXCEPT !.row = v] = r2
    OBVIOUS
  <2>3. [r2 EXCEPT !.other = cache[id]] = u
    OBVIOUS
  <2>4. cache'[id] = v
    BY <1>4, <1>6, <1>7
  <2>5. hand' = [hand EXCEPT ![h] = [s EXCEPT !.at = "save", !.row = v, !.other = cache[id]]]
    BY <1>3, <2>4 DEF Change, Of
  <2> HIDE DEF r1, r2, u
  <2> QED BY <2>1, <2>2, <2>3, <2>5
<1>10. u \in HandType
  BY <1>5, <1>6, <1>7, <1>8 DEF HandType, Ats
<1>11. /\ u.at = "save" /\ u.ask = s.ask /\ u.n = s.n /\ u.id = id /\ u.row = v /\ u.other = cache[id] /\ Ids(u) = Ids(s)
       /\ hand'[h] = u
  BY <1>5, <1>9 DEF Ids
<1> HIDE DEF u
<1>12. AtWork(u, reply)
  BY <1>3, <1>5, <1>6, <1>8, <1>11 DEF AtWork, Making
<1>13. GoesOn(h, u)
  BY <1>4, <1>9, <1>10, <1>11, <1>12 DEF GoesOn
<1>14. HoldsIn(u) = {id} /\ Touches(u) = {id}
  BY <1>11 DEF HoldsIn, Touches
<1>15. torn \subseteq torn' /\ torn' \subseteq Alerts
  BY <1>4, <1>6, <1>7, WorksAtOnce
<1>16. cache' = [cache EXCEPT ![id] = v] /\ rows' = [rows EXCEPT ![id] = rows[id]] /\ cache[id] \in RowType /\ rows[id] \in RowType
  BY <1>2, <1>4, <1>6, <1>7
<1>17. Typed
  BY <1>2, <1>7, <1>8, <1>15, <1>16 DEF Typed
<1>18. Alters(h, id, v, rows[id])
  BY <1>3, <1>6, <1>8, <1>16 DEF Alters
<1>19. Knows(u, cache', rows', torn')
  <2>1. id \notin torn' => cache[id] = rows[id]
    BY <1>1, <1>5, <1>15 DEF Knows
  <2>2. cache'[id] = v /\ rows'[id] = rows[id]
    BY <1>6, <1>7, <1>16
  <2> QED BY <1>11, <2>1, <2>2 DEF Knows
<1>20. Progress(u, cache', rows', hand', torn') /\ \A i \in 1..Len(Ids(s)) : ~Ahead(u, i)
  BY <1>11 DEF Progress, Before, After, Ahead
<1>21. id \notin torn' => HasText(v)
  BY <1>1, <1>5, <1>15 DEF Knows, HasText, v
<1>22. Like(v, cache[id]) /\ Like(rows[id], rows[id])
  BY <1>3, <1>8 DEF Like
<1>23. /\ {u.row.after, u.other.after} \subseteq {None, cache[id].after, rows[id].after, s.row.after, s.other.after}
       /\ Touches(u) \subseteq Touches(s) \cup Own(s) \cup {a \in Alerts : cache[a].live}
       /\ \A g \in Handlers \ {h} : HoldsIn(u) \cap HoldsIn(hand[g]) \subseteq torn' \cup HoldsIn(s)
       /\ u.at # "parent" /\ id \in HoldsIn(u)
  BY <1>1, <1>8, <1>11, <1>14
<1> HIDE DEF s
<1> QED BY <1>1, <1>13, <1>14, <1>17, <1>18, <1>19, <1>20, <1>21, <1>22, <1>23, Continues DEF s

\* What a creation has made before the alert in hand stays.
LEMMA MadeBefore ==
    ASSUME RequestsConstants, RequestsInv, NEW h \in Handlers, hand[h].at \in {"insert", "parent", "row"},
           Moved(h), Typed, Creeps(h)
    PROVE  /\ Own(hand[h]) = {Ids(hand[h])[hand[h].n]} /\ Creation(hand[h].ask)
           /\ \A i \in 1..Len(Ids(hand[h])) : i < hand[h].n => Made(Ids(hand[h])[i], cache', rows')
           /\ \A i \in 1..Len(Ids(hand[h])) : i > hand[h].n => Ids(hand[h])[i] \notin Own(hand[h])
<1> DEFINE s == hand[h]  id == Ids(s)[s.n]
<1>1. s.n \in 1..Len(Ids(s)) /\ Ids(s) \in Seq(Alerts) /\ AtWork(s, reply) /\ s.ask \in Asks
  BY Working
<1>2. Ids(s) = Ask[s.ask].ids /\ \A i \in 1..Len(Ids(s)) : Ids(s)[i] \in Alerts
  BY Working
<1>3. Own(s) = {id} /\ Creation(s.ask) /\ s.n \in Nat /\ Len(Ids(s)) \in Nat /\ s.at # "ready"
  BY <1>1 DEF Own, AtWork, Making
<1>4. Progress(s, cache, rows, hand, torn)
  BY <1>3, Working
<1>5. ASSUME NEW i \in 1..Len(Ids(s)), i # s.n PROVE Ids(s)[i] \in Alerts \ Own(s)
  <2>1. Ids(s)[i] # id
    BY <1>1, <1>2, <1>3, <1>5, Distinct
  <2> QED BY <1>2, <1>3, <2>1
<1>6. \A i \in 1..Len(Ids(s)) : (i < s.n => i # s.n) /\ (i > s.n => i # s.n)
  BY <1>3
<1>7. ASSUME NEW i \in 1..Len(Ids(s)), i < s.n PROVE Made(Ids(s)[i], cache', rows')
  <2>1. Made(Ids(s)[i], cache, rows)
    BY <1>3, <1>4, <1>7 DEF Progress, Before
  <2> QED BY <1>5, <1>6, <1>7, <2>1, StaysMade DEF RequestsInv, Basis
<1> QED BY <1>3, <1>5, <1>6, <1>7

\* The row of a new alert is written.
LEMMA OfWriteRow ==
    ASSUME RequestsConstants, RequestsInv, NEW h \in Handlers, WriteRow(h)
    PROVE  Result(h)
<1> DEFINE s == hand[h]  id == s.id  row == s.row
           u == [at |-> "insert", ask |-> s.ask, n |-> s.n + 1, id |-> s.id, row |-> s.row, other |-> s.other]
<1>1. s.at = "row" /\ HoldsIn(s) = {id} /\ Touches(s) = {id} /\ s.at \notin {"ready", "parent"}
  BY DEF WriteRow, HoldsIn, Touches
<1>2. /\ AtWork(s, reply) /\ s.ask \in Asks /\ s \in HandType /\ hand \in [Handlers -> HandType]
      /\ reply[s.ask] = "none" /\ Knows(s, cache, rows, torn)
  BY <1>1, Working
<1>3. /\ s.n \in 1..Len(Ids(s)) /\ Ids(s) \in Seq(Alerts) /\ Ids(s)[s.n] \in Alerts
      /\ Len(Ids(s)) <= Cardinality(Alerts) /\ Cardinality(Alerts) \in Nat
  BY <1>1, Working
<1>4. /\ cache \in [Alerts -> RowType] /\ rows \in [Alerts -> RowType] /\ torn \subseteq Alerts
      /\ failures \in 0..MaxFailures /\ crashes \in 0..MaxCrashes
  BY <1>1, Working
<1>5. id \in Alerts /\ id = Ids(s)[s.n] /\ Creation(s.ask) /\ Fits(Ask[s.ask]) /\ row.live /\ row \in RowType
  BY <1>1, <1>2, <1>3 DEF AtWork, Making, HandType
<1>6. cache' = [cache EXCEPT ![id] = cache[id]] /\ rows' = [rows EXCEPT ![id] = row] /\ failures' = failures /\ crashes' = crashes
      /\ torn' = torn
  BY <1>4 DEF WriteRow, Writes
<1>7. Typed
  BY <1>4, <1>5, <1>6 DEF Typed
<1>8. Alters(h, id, cache[id], row)
  <2>1. cache[id] \in RowType
    BY <1>4, <1>5
  <2> QED BY <1>1, <1>5, <1>6, <2>1 DEF Alters
<1>9. cache'[id] = cache[id] /\ rows'[id] = row
  BY <1>4, <1>5, <1>6
<1>10. id \notin torn' => cache[id] = row
  BY <1>1, <1>2, <1>6 DEF Knows
<1>11. id \notin Deleted => cache[id].live
  <2>1. Progress(s, cache, rows, hand, torn)
    BY <1>1, Working
  <2> QED BY <1>1, <1>3, <1>5, <2>1 DEF Progress
<1>12. Made(id, cache', rows')
  BY <1>5, <1>9, <1>11 DEF Made
<1>13. s.n \in Nat /\ Len(Ids(s)) \in Nat /\ Ids(s) = Ask[s.ask].ids /\ (s.n < Len(Ids(s)) \/ s.n = Len(Ids(s)))
  BY <1>3, SMTT(30) DEF Ids
<1>14. CASE s.n = Len(Ids(s))
  <2>1. Answer(h, "made")
    BY <1>3, <1>13, <1>14 DEF WriteRow, Of
  <2>2. IsDone(h, "made")
    BY <2>1 DEF IsDone, Replies
  <2>3. Moved(h) /\ hand'[h] = Ready
    BY <1>1, <1>2, <2>2, Hands DEF RequestsInv, Basis, IsDone, Answer
  <2>4. Creeps(h)
    BY <1>1, <1>8, <2>3, AltersCreeps, OfReady
  <2>5. \A i \in 1..Len(Ids(s)) : i < s.n \/ i = s.n
    BY <1>13, <1>14
  <2>6. \A i \in 1..Len(Ids(s)) : Made(Ids(s)[i], cache', rows')
    BY <1>1, <1>5, <1>7, <1>12, <2>3, <2>4, <2>5, MadeBefore
  <2>7. reply'[s.ask] = "made"
    <3>1. reply \in [Asks -> Replies]
      BY <1>1, Working
    <3> QED BY <1>2, <2>1, <3>1 DEF Answer
  <2>8. Answered(s.ask, cache', rows', hand', torn', reply')
    BY <1>13, <2>6, <2>7 DEF Answered
  <2>9. Like(cache[id], cache[id]) /\ (id \notin torn' => Like(row, cache[id]))
    BY <1>10 DEF Like
  <2> HIDE DEF s
  <2> QED BY <1>1, <1>7, <1>8, <1>9, <1>10, <2>2, <2>8, <2>9, Ends DEF s
<1>15. CASE s.n < Len(Ids(s))
  <2>1. hand' = [hand EXCEPT ![h] = u] /\ reply' = reply
    <3> DEFINE r1 == [at |-> "insert", ask |-> s.ask, n |-> s.n, id |-> s.id, row |-> s.row, other |-> s.other]
    <3>1. [s EXCEPT !.at = "insert"] = r1
      BY <1>2 DEF HandType
    <3>2. [r1 EXCEPT !.n = s.n + 1] = u
      OBVIOUS
    <3>3. hand' = [hand EXCEPT ![h] = [s EXCEPT !.at = "insert", !.n = s.n + 1]]
      BY <1>13, <1>15 DEF WriteRow, Of
    <3>4. reply' = reply
      BY <1>13, <1>15 DEF WriteRow, Of
    <3> HIDE DEF r1, u
    <3> QED BY <3>1, <3>2, <3>3, <3>4
  <2>2. s.n + 1 \in 0..Cardinality(Alerts) /\ s.n + 1 \in 1..Len(Ids(s))
    BY <1>3, <1>13, <1>15
  <2>3. u \in HandType
    BY <1>2, <2>2 DEF HandType, Ats
  <2>4. /\ u.at = "insert" /\ u.ask = s.ask /\ u.n = s.n + 1 /\ u.id = id /\ u.row = s.row /\ u.other = s.other /\ Ids(u) = Ids(s)
        /\ hand'[h] = u
    BY <1>2, <2>1 DEF Ids
  <2> HIDE DEF u
  <2>5. AtWork(u, reply)
    BY <1>2, <1>5, <2>2, <2>4 DEF AtWork, Making
  <2>6. GoesOn(h, u)
    BY <2>1, <2>3, <2>4, <2>5 DEF GoesOn
  <2>7. HoldsIn(u) = {} /\ Touches(u) = {} /\ Knows(u, cache', rows', torn')
    BY <2>4 DEF HoldsIn, Touches, Knows
  <2>8. {u.row.after, u.other.after} \subseteq {None, cache[id].after, rows[id].after, s.row.after, s.other.after}
    BY <2>4
  <2>9. Moved(h) /\ Creeps(h)
    <3>1. Moved(h)
      BY <1>1, <2>6, Hands DEF RequestsInv, Basis
    <3> QED BY <1>1, <1>8, <2>4, <2>7, <2>8, <3>1, AltersCreeps
  <2>10. /\ \A i \in 1..Len(Ids(s)) : i < s.n => Made(Ids(s)[i], cache', rows')
         /\ \A i \in 1..Len(Ids(s)) : i > s.n => Ids(s)[i] \notin Own(s)
    BY <1>1, <1>7, <2>9, MadeBefore
  <2>11. \A i \in 1..Len(Ids(s)) : /\ i < s.n + 1 => i < s.n \/ i = s.n
                                   /\ i >= s.n + 1 => i > s.n
    BY <1>13
  <2>12. Progress(u, cache', rows', hand', torn')
    BY <1>5, <1>12, <2>4, <2>10, <2>11 DEF Progress, Before, After
  <2>13. \A i \in 1..Len(Ids(s)) : Ahead(u, i) => Ahead(s, i) /\ Ids(s)[i] \notin Own(s)
    BY <1>1, <2>4, <2>10, <2>11 DEF Ahead
  <2>14. Like(cache[id], cache[id]) /\ (id \notin torn' => Like(row, cache[id]))
    BY <1>10 DEF Like
  <2>15. /\ \A a \in HoldsIn(s) \ (HoldsIn(u) \cup torn') : cache'[a] = rows'[a]
         /\ \A g \in Handlers \ {h} : HoldsIn(u) \cap HoldsIn(hand[g]) \subseteq torn' \cup HoldsIn(s)
         /\ id \in HoldsIn(s) /\ u.at # "parent" /\ Touches(u) \subseteq Touches(s) \cup Own(s) \cup {a \in Alerts : cache[a].live}
    BY <1>1, <1>9, <1>10, <2>4, <2>7, SMTT(30)
  <2> HIDE DEF s
  <2> QED BY <1>1, <1>7, <1>8, <1>10, <2>6, <2>7, <2>8, <2>12, <2>13, <2>14, <2>15, Continues DEF s
<1> QED BY <1>13, <1>14, <1>15

\* The chain of the alert waited for is written.
LEMMA OfWriteParent ==
    ASSUME RequestsConstants, RequestsInv, NEW h \in Handlers, WriteParent(h)
    PROVE  Result(h)
<1> DEFINE s == hand[h]  id == s.id  after == Ask[s.ask].after  other == s.other
           u == [at |-> "row", ask |-> s.ask, n |-> s.n, id |-> s.id, row |-> s.row, other |-> s.other]
<1>1. s.at = "parent" /\ HoldsIn(s) = {id, after} /\ Touches(s) = {id, after} /\ s.at # "ready"
  BY DEF WriteParent, HoldsIn, Touches
<1>2. /\ AtWork(s, reply) /\ s.ask \in Asks /\ s \in HandType /\ hand \in [Handlers -> HandType]
      /\ reply[s.ask] = "none" /\ Knows(s, cache, rows, torn)
  BY <1>1, Working
<1>3. /\ s.n \in 1..Len(Ids(s)) /\ Ids(s) \in Seq(Alerts) /\ Ids(s)[s.n] \in Alerts /\ Ids(s) = Ask[s.ask].ids
  BY <1>1, Working
<1>4. /\ cache \in [Alerts -> RowType] /\ rows \in [Alerts -> RowType] /\ torn \subseteq Alerts
      /\ failures \in 0..MaxFailures /\ crashes \in 0..MaxCrashes
  BY <1>1, Working
<1>5. /\ id \in Alerts /\ id = Ids(s)[s.n] /\ Creation(s.ask) /\ Fits(Ask[s.ask]) /\ s.row.live /\ other \in RowType
      /\ other.live /\ after \in Alerts
  BY <1>1, <1>2, <1>3 DEF AtWork, Making, HandType
<1>6. id # after
  <2>1. id \in Range(Ask[s.ask].ids)
    BY <1>3, <1>5 DEF Range
  <2> QED BY <1>2, <1>5, <2>1 DEF RequestsConstants
<1>7. cache' = [cache EXCEPT ![after] = cache[after]] /\ rows' = [rows EXCEPT ![after] = other] /\ failures' = failures
      /\ crashes' = crashes /\ torn' = torn /\ cache' = cache /\ reply' = reply
  BY <1>4 DEF WriteParent, Writes, Of
<1>8. Typed
  BY <1>4, <1>5, <1>7 DEF Typed
<1>9. Alters(h, after, cache[after], other)
  <2>1. cache[after] \in RowType
    BY <1>4, <1>5
  <2> QED BY <1>1, <1>5, <1>7, <2>1 DEF Alters
<1>10. cache'[after] = cache[after] /\ rows'[after] = other /\ cache'[id] = cache[id] /\ rows'[id] = rows[id]
  BY <1>4, <1>5, <1>6, <1>7
<1>11. (after \notin torn' => cache[after] = other) /\ (id \notin torn' => cache[id] = s.row /\ rows[id] = Absent)
  BY <1>1, <1>2, <1>7 DEF Knows
<1>12. hand' = [hand EXCEPT ![h] = u]
  <2>1. [s EXCEPT !.at = "row"] = u
    BY <1>2 DEF HandType
  <2>2. hand' = [hand EXCEPT ![h] = [s EXCEPT !.at = "row"]]
    BY DEF WriteParent, Goes
  <2> HIDE DEF u
  <2> QED BY <2>1, <2>2
<1>13. u \in HandType
  BY <1>2 DEF HandType, Ats
<1>14. /\ u.at = "row" /\ u.ask = s.ask /\ u.n = s.n /\ u.id = id /\ u.row = s.row /\ u.other = s.other /\ Ids(u) = Ids(s)
       /\ hand'[h] = u
  BY <1>2, <1>12 DEF Ids
<1> HIDE DEF u
<1>15. AtWork(u, reply)
  BY <1>2, <1>3, <1>5, <1>14 DEF AtWork, Making
<1>16. GoesOn(h, u)
  BY <1>7, <1>12, <1>13, <1>14, <1>15 DEF GoesOn
<1>17. HoldsIn(u) = {id} /\ Touches(u) = {id}
  BY <1>14 DEF HoldsIn, Touches
<1>18. {u.row.after, u.other.after} \subseteq {None, cache[after].after, rows[after].after, s.row.after, s.other.after}
       /\ Touches(u) \subseteq Touches(s) \cup Own(s) \cup {a \in Alerts : cache[a].live}
  BY <1>1, <1>14, <1>17, SMTT(30)
<1>19. Moved(h) /\ Creeps(h)
  <2>1. Moved(h)
    BY <1>1, <1>16, Hands DEF RequestsInv, Basis
  <2> QED BY <1>1, <1>9, <1>14, <1>18, <2>1, AltersCreeps
<1>20. /\ \A i \in 1..Len(Ids(s)) : i < s.n => Made(Ids(s)[i], cache', rows')
       /\ \A i \in 1..Len(Ids(s)) : i > s.n => Ids(s)[i] \notin Own(s)
  BY <1>1, <1>8, <1>19, MadeBefore, SMTT(30)
<1>21. id \notin Deleted => cache'[id].live
  <2>1. Progress(s, cache, rows, hand, torn)
    BY <1>1, Working
  <2> QED BY <1>1, <1>3, <1>5, <1>10, <2>1 DEF Progress
<1>22. Progress(u, cache', rows', hand', torn')
  BY <1>5, <1>14, <1>20, <1>21 DEF Progress, Before, After
<1>23. \A i \in 1..Len(Ids(s)) : Ahead(u, i) => Ahead(s, i) /\ Ids(s)[i] \notin Own(s)
  BY <1>1, <1>14, <1>20 DEF Ahead
<1>24. Knows(u, cache', rows', torn')
  BY <1>10, <1>11, <1>14 DEF Knows
<1>25. Like(cache[after], cache[after]) /\ (after \notin torn' => Like(other, cache[after]))
  BY <1>11 DEF Like
<1>26. /\ \A a \in HoldsIn(s) \ (HoldsIn(u) \cup torn') : cache'[a] = rows'[a]
       /\ \A g \in Handlers \ {h} : HoldsIn(u) \cap HoldsIn(hand[g]) \subseteq torn' \cup HoldsIn(s)
       /\ after \in HoldsIn(s) /\ u.at # "parent"
  BY <1>1, <1>10, <1>11, <1>14, <1>17
<1>27. after \in torn' \/ cache[after] = other
  BY <1>11, SMTT(30)
<1> HIDE DEF s
<1> QED BY <1>1, <1>8, <1>9, <1>11, <1>16, <1>18, <1>22, <1>23, <1>24, <1>25, <1>26, <1>27, Continues DEF s

\* What a new alert is when its handler inserts it.
LEMMA ToInsert ==
    ASSUME RequestsConstants, RequestsInv, NEW h \in Handlers, hand[h].at = "insert",
           NEW id, id = Ids(hand[h])[hand[h].n], NEW after, after = Ask[hand[h].ask].after
    PROVE  /\ id \in Alerts /\ id # after /\ after \in Alerts \cup {None} /\ None \notin Alerts /\ Unborn(id, cache, rows, hand)
           /\ Creation(hand[h].ask) /\ Fits(Ask[hand[h].ask]) /\ Own(hand[h]) = {id} /\ HoldsIn(hand[h]) = {} /\ Touches(hand[h]) = {}
           /\ Ask[hand[h].ask].text \in BOOLEAN /\ Ask[hand[h].ask].msg \in BOOLEAN
<1> DEFINE s == hand[h]
<1>1. /\ AtWork(s, reply) /\ s.ask \in Asks /\ Comes(s, cache, rows, hand) /\ s.n \in 1..Len(Ids(s))
      /\ Ids(s) \in Seq(Alerts) /\ id \in Alerts /\ Ids(s) = Ask[s.ask].ids
  BY Working
<1>2. Creation(s.ask) /\ Fits(Ask[s.ask]) /\ Own(s) = {id} /\ HoldsIn(s) = {} /\ Touches(s) = {}
  BY <1>1 DEF AtWork, Making, Own, HoldsIn, Touches
<1>3. Ask[s.ask].after \in Alerts \cup {None} /\ None \notin Alerts /\ {Ask[s.ask].text, Ask[s.ask].msg} \subseteq BOOLEAN
  BY <1>1 DEF RequestsConstants
<1>4. id \in Range(Ask[s.ask].ids)
  BY <1>1 DEF Range
<1>5. id # after
  BY <1>1, <1>2, <1>4 DEF RequestsConstants
<1>6. s.n >= s.n
  BY <1>1
<1>7. Unborn(id, cache, rows, hand)
  BY <1>1, <1>6 DEF Comes, Ahead
<1> QED BY <1>1, <1>2, <1>3, <1>5, <1>7

\* What is inserted, and what is in the cache then.
Inserting(h, id, after, row, patched) ==
    /\ Insert(h) /\ id = Ids(hand[h])[hand[h].n] /\ after = Ask[hand[h].ask].after /\ MayWaitFor(id, after)
    /\ row = Row(ChainFor(id, after), after, Ask[hand[h].ask].text, Ask[hand[h].ask].msg)
    /\ patched = (after # None /\ cache[after].chain = None)
IsInserted(h, id, after, row, patched) ==
    /\ row \in RowType /\ row.live /\ row.after = after /\ HasText(row) /\ row.chain # None
    /\ row.chain = IF after = None \/ patched THEN id ELSE cache[after].chain
    /\ cache' \in [Alerts -> RowType] /\ UNCHANGED <<rows, failures, crashes, reply>> /\ Works(h, {id, after})
    /\ cache'[id] = row /\ (after # None => cache[after].live /\ after \in Alerts)
    /\ \A a \in Alerts \ {id} : a # after \/ ~patched => cache'[a] = cache[a]
    /\ patched => /\ cache'[after].live = cache[after].live /\ cache'[after].after = cache[after].after
                  /\ cache'[after].chain = id /\ HasText(cache'[after]) = HasText(cache[after])
IsInHand(h, id, after, row, patched) ==
    hand' = [hand EXCEPT ![h] = [at |-> IF patched THEN "parent" ELSE "row", ask |-> hand[h].ask, n |-> hand[h].n,
                                 id |-> id, row |-> row, other |-> IF patched THEN cache'[after] ELSE Absent]]

\* What an insertion makes of cache and hand.
LEMMA Inserted ==
    ASSUME RequestsConstants, RequestsInv, NEW h \in Handlers, NEW id, NEW after, NEW row, NEW patched \in BOOLEAN,
           Inserting(h, id, after, row, patched)
    PROVE  IsInserted(h, id, after, row, patched) /\ IsInHand(h, id, after, row, patched)
<1> DEFINE s == hand[h]  p == [cache[after] EXCEPT !.chain = id]
           at == IF patched THEN "parent" ELSE "row"  other == IF patched THEN cache'[after] ELSE Absent
<1>0. /\ Insert(h) /\ id = Ids(hand[h])[hand[h].n] /\ after = Ask[hand[h].ask].after /\ MayWaitFor(id, after)
      /\ row = Row(ChainFor(id, after), after, Ask[hand[h].ask].text, Ask[hand[h].ask].msg)
      /\ patched = (after # None /\ cache[after].chain = None)
  BY SMTT(30) DEF Inserting
<1>1. s.at = "insert" /\ s.at # "ready"
  BY <1>0 DEF Insert
<1>2. /\ id \in Alerts /\ id # after /\ after \in Alerts \cup {None} /\ None \notin Alerts
      /\ Fits(Ask[s.ask]) /\ Ask[s.ask].text \in BOOLEAN /\ Ask[s.ask].msg \in BOOLEAN
  BY <1>0, <1>1, ToInsert
<1>3. /\ cache \in [Alerts -> RowType] /\ hand \in [Handlers -> HandType] /\ s \in HandType
  BY <1>1, Working
<1>4. after # None => cache[after].live /\ after \in Alerts /\ cache[after] \in RowType
  BY <1>0, <1>2, <1>3 DEF MayWaitFor
<1>5. ChainFor(id, after) = IF after = None \/ patched THEN id ELSE cache[after].chain
  BY <1>0 DEF ChainFor
<1>6. ChainFor(id, after) \in Alerts
  <2>1. after # None => cache[after].chain \in Alerts \cup {None}
    BY <1>4 DEF RowType
  <2> QED BY <1>0, <1>2, <1>5, <2>1
<1>7. row \in RowType /\ row.live /\ row.after = after /\ HasText(row) /\ row.chain = ChainFor(id, after)
  <2>1. \A t, m \in BOOLEAN, c \in Alerts, f \in Alerts \cup {None} : Row(c, f, t, m) \in RowType
    BY SMTT(30) DEF Row, RowType
  <2>2. row \in RowType
    BY <1>0, <1>2, <1>6, <2>1
  <2>3. row.live /\ row.after = after /\ row.chain = ChainFor(id, after) /\ row.text = Ask[s.ask].text /\ row.msg = Ask[s.ask].msg
    BY <1>0, SMTT(30) DEF Row
  <2> QED BY <1>2, <2>2, <2>3 DEF HasText, Fits
<1>8. /\ cache' = (IF patched THEN [cache EXCEPT ![id] = row, ![after].chain = id] ELSE [cache EXCEPT ![id] = row])
      /\ UNCHANGED <<rows, failures, crashes, reply>> /\ Works(h, {id, after})
      /\ hand' = [hand EXCEPT ![h].at = at, ![h].id = id, ![h].row = row, ![h].other = other]
  BY <1>0 DEF Insert, Of, Ids
<1>9. hand' = [hand EXCEPT ![h] = [at |-> at, ask |-> s.ask, n |-> s.n, id |-> id, row |-> row, other |-> other]]
  <2> HIDE DEF at, other
  <2> DEFINE r1 == [at |-> at, ask |-> s.ask, n |-> s.n, id |-> s.id, row |-> s.row, other |-> s.other]
             r2 == [at |-> at, ask |-> s.ask, n |-> s.n, id |-> id, row |-> s.row, other |-> s.other]
             r3 == [at |-> at, ask |-> s.ask, n |-> s.n, id |-> id, row |-> row, other |-> s.other]
             u == [at |-> at, ask |-> s.ask, n |-> s.n, id |-> id, row |-> row, other |-> other]
  <2>1. [s EXCEPT !.at = at] = r1
    BY <1>3 DEF HandType
  <2>2. [r1 EXCEPT !.id = id] = r2
    OBVIOUS
  <2>3. [r2 EXCEPT !.row = row] = r3
    OBVIOUS
  <2>4. [r3 EXCEPT !.other = other] = u
    OBVIOUS
  <2>5. hand' = [hand EXCEPT ![h] = [s EXCEPT !.at = at, !.id = id, !.row = row, !.other = other]]
    BY <1>8
  <2> HIDE DEF r1, r2, r3, u
  <2>6. hand' = [hand EXCEPT ![h] = u]
    BY <2>1, <2>2, <2>3, <2>4, <2>5
  <2> QED BY <2>6 DEF u
<1>10. patched => after # None
  BY <1>0
<1> HIDE DEF at, other
<1>11. patched => /\ p \in RowType /\ p.live = cache[after].live /\ p.after = cache[after].after
                  /\ p.chain = id /\ p.text = cache[after].text /\ p.msg = cache[after].msg
  BY <1>2, <1>4, <1>10 DEF RowType
<1>12. CASE patched
  <2>1. cache' = [cache EXCEPT ![id] = row, ![after] = p]
    BY <1>2, <1>3, <1>4, <1>8, <1>10, <1>12
  <2>2. cache'[id] = row /\ cache'[after] = p /\ \A a \in Alerts \ {id, after} : cache'[a] = cache[a]
    BY <1>2, <1>3, <1>4, <1>10, <1>12, <2>1
  <2>3. cache' \in [Alerts -> RowType]
    <3> HIDE DEF p
    <3> QED BY <1>2, <1>3, <1>7, <1>11, <1>12, <2>1
  <2> HIDE DEF p
  <2>4. HasText(cache'[after]) = HasText(cache[after])
    BY <1>11, <1>12, <2>2 DEF HasText, Fits
  <2>5. row.chain = (IF after = None \/ patched THEN id ELSE cache[after].chain) /\ row.chain # None
    BY <1>2, <1>5, <1>6, <1>7
  <2>6. hand' = [hand EXCEPT ![h] = [at |-> IF patched THEN "parent" ELSE "row", ask |-> hand[h].ask, n |-> hand[h].n,
                                     id |-> id, row |-> row, other |-> IF patched THEN cache'[after] ELSE Absent]]
    BY <1>9 DEF at, other
  <2>7. \A a \in Alerts \ {id} : a # after \/ ~patched => cache'[a] = cache[a]
    BY <1>12, <2>2
  <2>8. UNCHANGED <<rows, failures, crashes, reply>> /\ Works(h, {id, after})
    BY <1>8
  <2>9. row \in RowType /\ row.live /\ row.after = after /\ HasText(row)
    BY <1>7
  <2>10. cache'[id] = row /\ (after # None => cache[after].live /\ after \in Alerts)
    BY <1>4, <2>2
  <2>11. cache'[after].live = cache[after].live /\ cache'[after].after = cache[after].after /\ cache'[after].chain = id
    BY <1>11, <1>12, <2>2
  <2>12. IsInserted(h, id, after, row, patched)
    BY <2>3, <2>4, <2>5, <2>7, <2>8, <2>9, <2>10, <2>11 DEF IsInserted
  <2> QED BY <2>6, <2>12 DEF IsInHand
<1>13. CASE ~patched
  <2>1. cache' = [cache EXCEPT ![id] = row]
    BY <1>8, <1>13
  <2>2. cache'[id] = row /\ \A a \in Alerts \ {id} : cache'[a] = cache[a]
    BY <1>2, <1>3, <2>1
  <2>3. cache' \in [Alerts -> RowType]
    BY <1>3, <1>7, <2>1
  <2>4. at = "row" /\ other = Absent
    BY <1>13 DEF at, other
  <2>5. row.chain = (IF after = None \/ patched THEN id ELSE cache[after].chain) /\ row.chain # None
    BY <1>2, <1>5, <1>6, <1>7
  <2>6. hand' = [hand EXCEPT ![h] = [at |-> IF patched THEN "parent" ELSE "row", ask |-> hand[h].ask, n |-> hand[h].n,
                                     id |-> id, row |-> row, other |-> IF patched THEN cache'[after] ELSE Absent]]
    BY <1>9 DEF at, other
  <2>7. \A a \in Alerts \ {id} : a # after \/ ~patched => cache'[a] = cache[a]
    BY <2>2
  <2>8. UNCHANGED <<rows, failures, crashes, reply>> /\ Works(h, {id, after})
    BY <1>8
  <2>9. row \in RowType /\ row.live /\ row.after = after /\ HasText(row)
    BY <1>7
  <2>10. IsInserted(h, id, after, row, patched)
    BY <1>4, <1>13, <2>2, <2>3, <2>5, <2>7, <2>8, <2>9 DEF IsInserted
  <2> QED BY <2>6, <2>10 DEF IsInHand
<1> QED BY <1>12, <1>13

\* Who waits, and for an alert that now gets its chain, has been told: nobody waits for an
\* alert that has none.
LEMMA InsertedChains ==
    ASSUME RequestsConstants, RequestsInv, NEW h \in Handlers, hand[h].at = "insert", Typed, rows' = rows, reply' = reply,
           NEW id \in Alerts, NEW after \in Alerts \cup {None}, NEW row \in RowType, NEW patched \in BOOLEAN,
           Unborn(id, cache, rows, hand), id # after, None \notin Alerts, Works(h, {id, after}),
           row.live, row.after = after, row.chain # None,
           row.chain = IF after = None \/ patched THEN id ELSE cache[after].chain,
           cache'[id] = row, \A a \in Alerts \ {id} : a # after \/ ~patched => cache'[a] = cache[a],
           patched => cache'[after].chain = id /\ cache'[after].after = cache[after].after /\ cache'[after].live = cache[after].live,
           patched => after # None /\ cache[after].chain = None,
           after # None => cache[after].live,
           hand'[h].at = (IF patched THEN "parent" ELSE "row"), hand'[h].id = id, hand'[h].ask = hand[h].ask,
           Ask[hand[h].ask].after = after, \A g \in Handlers \ {h} : hand'[g] = hand[g]
    PROVE  ChainsMatch'
<1>1. HoldsIn(hand[h]) = {} /\ torn \subseteq torn'
  BY DEF HoldsIn, Typed
<1>2. after \in Alerts \ torn' => rows[after] = cache[after]
  BY <1>1, Taken
<1>3. /\ cache[id] = Absent /\ rows[id] = Absent
      /\ \A b \in Alerts : cache[b].after # id /\ rows[b].after # id
  BY DEF Unborn, Clear
<1>4. \A a, p : IsDue(a, p, hand) => IsDue(a, p, hand')
  BY DEF IsDue
<1>5. ASSUME NEW y, NEW due \in BOOLEAN, Waits(y, torn'), y.after # id, Linked(y, cache, rows, due)
      PROVE  Linked(y, cache', rows', due)
  <2>1. y.after \in Alerts \ {id}
    BY <1>5 DEF Waits
  <2>2. y.after = after => ~patched
    BY <1>5, <2>1 DEF Linked
  <2>3. cache'[y.after] = cache[y.after]
    BY <2>1, <2>2
  <2> QED BY <1>5, <2>3 DEF Linked
<1> SUFFICES ASSUME NEW a \in Alerts \ torn' PROVE Chained(a, cache', rows', hand', torn')
  BY DEF ChainsMatch
<1>6. Chained(a, cache, rows, hand, torn)
  BY <1>1 DEF RequestsInv, ChainsMatch
<1>7. Waits(rows'[a], torn') => Linked(rows'[a], cache', rows', FALSE)
  <2> SUFFICES ASSUME Waits(rows[a], torn') PROVE Linked(rows[a], cache', rows', FALSE)
    OBVIOUS
  <2>1. Waits(rows[a], torn) /\ rows[a].after # id
    BY <1>1, <1>3 DEF Waits
  <2>2. Linked(rows[a], cache, rows, FALSE)
    BY <1>6, <2>1 DEF Chained
  <2> QED BY <1>5, <2>1, <2>2
<1>8. CASE a = id
  <2>1. ASSUME Waits(row, torn') PROVE Linked(row, cache', rows', IsDue(id, after, hand'))
    <3>1. after \in Alerts \ torn' /\ after # None
      BY <2>1 DEF Waits
    <3>2. CASE patched
      <4>1. IsDue(id, after, hand')
        BY <3>2 DEF IsDue
      <4>2. cache'[after].chain = row.chain
        BY <3>2
      <4> QED BY <4>1, <4>2 DEF Linked
    <3>3. CASE ~patched
      <4>1. cache'[after] = cache[after] /\ rows'[after] = cache[after] /\ row.chain = cache[after].chain
        BY <1>2, <3>1, <3>3
      <4> QED BY <4>1 DEF Linked
    <3> QED BY <3>2, <3>3
  <2> QED BY <1>7, <1>8, <2>1 DEF Chained
<1>9. CASE a # id
  <2>1. cache'[a].live = cache[a].live /\ cache'[a].after = cache[a].after
    BY <1>9
  <2>2. ASSUME Waits(cache'[a], torn') PROVE Linked(cache'[a], cache', rows', IsDue(a, cache'[a].after, hand'))
    <3>1. Waits(cache[a], torn) /\ Waits(cache[a], torn') /\ cache[a].after # id
      BY <1>1, <1>3, <2>1, <2>2 DEF Waits
    <3>2. Linked(cache[a], cache, rows, IsDue(a, cache[a].after, hand))
      BY <1>6, <3>1 DEF Chained
    <3>3. a = after => ~patched
      BY <3>2 DEF Linked
    <3>4. cache'[a] = cache[a]
      BY <1>9, <3>3
    <3>5. IsDue(a, cache[a].after, hand) \in BOOLEAN
      BY DEF IsDue
    <3>6. Linked(cache[a], cache', rows', IsDue(a, cache[a].after, hand))
      BY <1>5, <3>1, <3>2, <3>5
    <3>7. Linked(cache[a], cache', rows', IsDue(a, cache[a].after, hand'))
      BY <1>4, <3>6 DEF Linked
    <3> QED BY <3>4, <3>7
  <2> QED BY <1>7, <2>2 DEF Chained
<1> QED BY <1>8, <1>9

\* So an insertion has a result,
LEMMA Inserts ==
    ASSUME RequestsConstants, RequestsInv, NEW h \in Handlers, NEW id, NEW after, NEW row, NEW patched \in BOOLEAN,
           Inserting(h, id, after, row, patched)
    PROVE  Result(h)
<1> DEFINE s == hand[h]
           u == [at |-> IF patched THEN "parent" ELSE "row", ask |-> s.ask, n |-> s.n,
                 id |-> id, row |-> row, other |-> IF patched THEN cache'[after] ELSE Absent]
<1>0. /\ Insert(h) /\ id = Ids(hand[h])[hand[h].n] /\ after = Ask[hand[h].ask].after
      /\ patched = (after # None /\ cache[after].chain = None)
  BY DEF Inserting
<1>a. IsInserted(h, id, after, row, patched) /\ IsInHand(h, id, after, row, patched)
  BY Inserted, SMTT(30)
<1>1. s.at = "insert" /\ s.at # "ready"
  BY <1>0 DEF Insert
<1>2. /\ id \in Alerts /\ id # after /\ after \in Alerts \cup {None} /\ None \notin Alerts /\ Unborn(id, cache, rows, hand)
      /\ Creation(s.ask) /\ Fits(Ask[s.ask]) /\ Own(s) = {id} /\ HoldsIn(s) = {} /\ Touches(s) = {}
  BY <1>0, <1>1, ToInsert, SMTT(30)
<1>3. /\ row \in RowType /\ row.live /\ row.after = after /\ HasText(row) /\ row.chain # None
      /\ row.chain = IF after = None \/ patched THEN id ELSE cache[after].chain
  BY <1>a DEF IsInserted
<1>4. /\ cache' \in [Alerts -> RowType] /\ UNCHANGED <<rows, failures, crashes, reply>> /\ Works(h, {id, after})
      /\ cache'[id] = row /\ (after # None => cache[after].live /\ after \in Alerts)
  BY <1>a DEF IsInserted
<1>5. /\ \A a \in Alerts \ {id} : a # after \/ ~patched => cache'[a] = cache[a]
      /\ patched => /\ cache'[after].live = cache[after].live /\ cache'[after].after = cache[after].after
                    /\ cache'[after].chain = id /\ HasText(cache'[after]) = HasText(cache[after])
      /\ patched => after # None /\ cache[after].chain = None /\ after \in Alerts
  BY <1>0, <1>4, <1>a DEF IsInserted
<1>6. hand' = [hand EXCEPT ![h] = u]
  BY <1>a DEF IsInHand
<1>7. /\ AtWork(s, reply) /\ s.ask \in Asks /\ hand \in [Handlers -> HandType] /\ s \in HandType
      /\ reply[s.ask] = "none" /\ s.n \in 1..Len(Ids(s)) /\ Ids(s) \in Seq(Alerts)
  BY <1>1, Working
<1>8. /\ u.at = (IF patched THEN "parent" ELSE "row") /\ u.ask = s.ask /\ u.n = s.n /\ u.id = id /\ u.row = row
      /\ u.other = (IF patched THEN cache'[after] ELSE Absent) /\ Ids(u) = Ids(s) /\ hand'[h] = u
  BY <1>6, <1>7 DEF Ids
<1>9. u \in HandType
  <2>1. (IF patched THEN cache'[after] ELSE Absent) \in RowType
    BY <1>4, <1>5, OfAbsent
  <2> QED BY <1>2, <1>3, <1>7, <2>1 DEF HandType, Ats
<1> HIDE DEF u
<1>10. AtWork(u, reply)
  <2>1. id = Ids(s)[s.n] /\ Ask[s.ask].after = after
    BY <1>0
  <2>2. CASE patched
    <3>1. u.at = "parent" /\ u.other.live /\ Ask[u.ask].after \in Alerts
      BY <1>4, <1>5, <1>8, <2>1, <2>2
    <3> HIDE DEF s
    <3> QED BY <1>2, <1>3, <1>7, <1>8, <2>1, <3>1 DEF AtWork, Making
  <2>3. CASE ~patched
    <3>1. u.at = "row"
      BY <1>8, <2>3
    <3> HIDE DEF s
    <3> QED BY <1>2, <1>3, <1>7, <1>8, <2>1, <3>1 DEF AtWork, Making
  <2> QED BY <2>2, <2>3
<1>11. GoesOn(h, u)
  BY <1>4, <1>6, <1>8, <1>9, <1>10, SMTT(30) DEF GoesOn
<1>12. HoldsIn(u) = (IF patched THEN {id, after} ELSE {id}) /\ Touches(u) = (IF patched THEN {id, after} ELSE {id})
  BY <1>0, <1>8 DEF HoldsIn, Touches
<1>13. /\ torn \subseteq torn' /\ torn' \subseteq Alerts
       /\ \A g \in Handlers \ {h} : {id, after} \cap HoldsIn(hand[g]) \subseteq torn'
  <2>1. /\ torn \subseteq torn' /\ torn' \subseteq torn \cup {id, after}
        /\ \A g \in Handlers \ {h} : {id, after} \cap HoldsIn(hand[g]) \subseteq torn'
    BY <1>4, WorksAtOnce
  <2>2. \A g \in Handlers : HoldsIn(hand[g]) \subseteq Alerts
    BY HoldsAlerts DEF RequestsInv, Basis
  <2>3. torn' \subseteq Alerts
    <3>1. torn \subseteq Alerts
      BY <1>1, Working
    <3>2. \A g \in Handlers : Holds(g) = HoldsIn(hand[g])
      BY DEF Holds, HoldsIn, Of, Ids
    <3>3. torn' \subseteq torn \cup UNION {Holds(g) : g \in Handlers}
      BY <1>4 DEF Works
    <3> QED BY <2>2, <3>1, <3>2, <3>3
  <2> QED BY <2>1, <2>3
<1>14. /\ cache \in [Alerts -> RowType] /\ rows \in [Alerts -> RowType]
       /\ failures \in 0..MaxFailures /\ crashes \in 0..MaxCrashes
  BY <1>1, Working
<1>15. Typed
  BY <1>4, <1>13, <1>14 DEF Typed
<1>16. Moved(h) /\ \A g \in Handlers \ {h} : hand'[g] = hand[g]
  BY <1>1, <1>11, Hands DEF RequestsInv, Basis, Moved
<1>17. \A a \in Alerts : a \notin HoldsIn(u) => cache'[a] = cache[a]
  BY <1>5, <1>12
<1>18. Minds(h)
  BY <1>2, <1>4, <1>8, <1>12, <1>13, <1>17 DEF Minds
<1>19. Creeps(h)
  <2>1. ASSUME NEW a \in Alerts \ Own(s), ~cache[a].live
        PROVE  cache'[a] = cache[a] /\ rows'[a] = rows[a] /\ a \notin Touches(u)
    BY <1>2, <1>4, <1>5, <1>12, <2>1
  <2>2. ASSUME NEW a \in Alerts \ (Own(s) \cup Deleted)
        PROVE  (cache[a].live => cache'[a].live) /\ (rows[a].live => rows'[a].live)
    BY <1>2, <1>4, <1>5
  <2>3. ASSUME NEW v \in Alerts, ~cache[v].live, NotNamed(v, cache, rows, s) PROVE NotNamed(v, cache', rows', u)
    <3>1. v # after /\ v # None
      BY <1>2, <1>4, <2>3
    <3>2. \A b \in Alerts : cache'[b].after # v /\ rows'[b].after # v
      <4>1. \A b \in Alerts : cache[b].after # v /\ rows[b].after # v
        BY <2>3 DEF NotNamed
      <4>2. \A b \in Alerts : cache'[b].after = cache[b].after \/ b = id
        BY <1>5
      <4> QED BY <1>3, <1>4, <3>1, <4>1, <4>2
    <3>3. u.row.after # v /\ u.other.after # v
      BY <1>3, <1>5, <1>8, <2>3, <3>1, <3>2, OfAbsent DEF NotNamed
    <3> QED BY <3>2, <3>3 DEF NotNamed
  <2> QED BY <1>8, <2>1, <2>2, <2>3 DEF Creeps
<1>20. LetsGo(h)
  BY <1>2 DEF LetsGo
<1>21. /\ \A i \in 1..Len(Ids(s)) : i < s.n => Made(Ids(s)[i], cache', rows')
       /\ \A i \in 1..Len(Ids(s)) : i > s.n => Ids(s)[i] \notin Own(s) /\ i >= s.n
  <2>1. \A i \in 1..Len(Ids(s)) : i > s.n => i >= s.n
    BY <1>7
  <2> QED BY <1>1, <1>15, <1>16, <1>19, <2>1, MadeBefore
<1>22. Closer(h)
  BY <1>1, <1>8, <1>21 DEF Closer, Ahead
<1>23. Knows(u, cache', rows', torn')
  <2>1. rows'[id] = Absent
    BY <1>2, <1>4, SMTT(30) DEF Unborn, Clear
  <2>2. after = Ask[u.ask].after
    BY <1>0, <1>8
  <2> QED BY <1>4, <1>8, <2>1, <2>2 DEF Knows
<1>24. Progress(u, cache', rows', hand', torn')
  <2>1. Ids(s)[s.n] = id
    BY <1>0
  <2> HIDE DEF s
  <2> QED BY <1>3, <1>4, <1>8, <1>21, <2>1 DEF Progress, Before, After
<1>25. Answered(s.ask, cache', rows', hand', torn', reply')
  BY <1>4, <1>7 DEF Answered
<1>26. TextsFit'
  <2>1. \A a \in Alerts \ torn : HasText(cache[a]) /\ HasText(rows[a])
    BY DEF RequestsInv, TextsFit
  <2>2. \A a \in Alerts \ torn' : HasText(cache'[a]) /\ HasText(rows'[a])
    <3> SUFFICES ASSUME NEW a \in Alerts \ torn' PROVE HasText(cache'[a]) /\ HasText(rows'[a])
      OBVIOUS
    <3>1. HasText(cache[a]) /\ HasText(rows[a])
      BY <1>13, <2>1
    <3>2. CASE a = id
      BY <1>3, <1>4, <3>1, <3>2
    <3>3. CASE a # id /\ (a # after \/ ~patched)
      BY <1>4, <1>5, <3>1, <3>3
    <3>4. CASE a = after /\ patched
      BY <1>4, <1>5, <3>1, <3>4
    <3> QED BY <3>2, <3>3, <3>4
  <2> QED BY <2>2 DEF TextsFit
<1>27. ChainsMatch'
  <2>1. /\ u.at = (IF patched THEN "parent" ELSE "row") /\ u.id = id /\ u.ask = hand[h].ask /\ hand'[h] = u
        /\ Ask[hand[h].ask].after = after
    BY <1>0, <1>8
  <2>2. rows' = rows /\ reply' = reply /\ Works(h, {id, after}) /\ cache'[id] = row /\ (after # None => cache[after].live)
    BY <1>4
  <2>3. id \in Alerts /\ id # after /\ after \in Alerts \cup {None} /\ None \notin Alerts /\ Unborn(id, cache, rows, hand)
    BY <1>2
  <2> QED BY <1>1, <1>3, <1>5, <1>15, <1>16, <2>1, <2>2, <2>3, InsertedChains, SMTT(30)
<1> QED BY <1>8, <1>11, <1>15, <1>18, <1>19, <1>20, <1>22, <1>23, <1>24, <1>25, <1>26, <1>27 DEF Result

\* whether or not there is an alert to wait for.
LEMMA OfInsert ==
    ASSUME RequestsConstants, RequestsInv, NEW h \in Handlers, Insert(h)
    PROVE  Result(h)
<1> DEFINE id == Ids(hand[h])[hand[h].n]  after == Ask[hand[h].ask].after
           row == Row(ChainFor(id, after), after, Ask[hand[h].ask].text, Ask[hand[h].ask].msg)
           patched == after # None /\ cache[after].chain = None
<1>1. CASE MayWaitFor(id, after)
  <2>1. patched \in BOOLEAN
    OBVIOUS
  <2> HIDE DEF patched, row, id, after
  <2>2. Inserting(h, id, after, row, patched)
    BY <1>1 DEF Inserting, patched, row, id, after
  <2> QED BY <2>1, <2>2, Inserts
<1> QED BY <1>1, OfInsertRefused

\* The alerts of a batch, and the row each has.
LEMMA OfBatch ==
    ASSUME RequestsConstants, RequestsInv, NEW h \in Handlers, hand[h].at \in {"commit", "rows", "unmake"}
    PROVE  /\ Creation(hand[h].ask) /\ Fits(Ask[hand[h].ask]) /\ Own(hand[h]) = Range(Ids(hand[h]))
           /\ BatchRow(hand[h]) \in RowType /\ BatchRow(hand[h]).live /\ BatchRow(hand[h]).after = None /\ HasText(BatchRow(hand[h]))
           /\ BatchRow(hand[h]) = Row(None, None, Ask[hand[h].ask].text, Ask[hand[h].ask].msg)
           /\ \A i \in 1..Len(Ids(hand[h])) : Ids(hand[h])[i] \in Range(Ids(hand[h]))
           /\ Range(Ids(hand[h])) \subseteq Alerts
           /\ \A a \in Range(Ids(hand[h])) : \E i \in 1..Len(Ids(hand[h])) : a = Ids(hand[h])[i]
<1> DEFINE s == hand[h]
<1>1. /\ AtWork(s, reply) /\ s.ask \in Asks /\ Ids(s) \in Seq(Alerts)
      /\ \A i \in 1..Len(Ids(s)) : Ids(s)[i] \in Alerts
  BY Working
<1>2. Creation(s.ask) /\ Fits(Ask[s.ask]) /\ Own(s) = Range(Ids(s))
  BY <1>1 DEF AtWork, Making, Own
<1>3. Ask[s.ask].text \in BOOLEAN /\ Ask[s.ask].msg \in BOOLEAN
  BY <1>1 DEF RequestsConstants
<1>4. \A t, m \in BOOLEAN : Row(None, None, t, m) \in RowType
  BY DEF Row, RowType
<1>5. BatchRow(s) = Row(None, None, Ask[s.ask].text, Ask[s.ask].msg) /\ BatchRow(s) \in RowType
  BY <1>3, <1>4 DEF BatchRow
<1>6. BatchRow(s).live /\ BatchRow(s).after = None /\ BatchRow(s).text = Ask[s.ask].text /\ BatchRow(s).msg = Ask[s.ask].msg
  BY <1>5 DEF Row
<1>7. HasText(BatchRow(s))
  BY <1>2, <1>6 DEF HasText, Fits
<1>8. /\ \A i \in 1..Len(Ids(s)) : Ids(s)[i] \in Range(Ids(s))
      /\ Range(Ids(s)) \subseteq Alerts
      /\ \A a \in Range(Ids(s)) : \E i \in 1..Len(Ids(s)) : a = Ids(s)[i]
  BY <1>1 DEF Range
<1> QED BY <1>2, <1>5, <1>6, <1>7, <1>8

\* A batch enters the cache.
LEMMA OfCommit ==
    ASSUME RequestsConstants, RequestsInv, NEW h \in Handlers, Commit(h)
    PROVE  Result(h)
<1> DEFINE s == hand[h]  ids == Range(Ids(s))  row == BatchRow(s)
           u == [at |-> "rows", ask |-> s.ask, n |-> s.n, id |-> s.id, row |-> s.row, other |-> s.other]
<1>1. s.at = "commit" /\ s.at # "ready" /\ HoldsIn(s) = {} /\ Touches(s) = {}
  BY DEF Commit, HoldsIn, Touches
<1>2. /\ Creation(s.ask) /\ Fits(Ask[s.ask]) /\ Own(s) = ids
      /\ row \in RowType /\ row.live /\ row.after = None /\ HasText(row)
      /\ row = Row(None, None, Ask[s.ask].text, Ask[s.ask].msg)
      /\ \A i \in 1..Len(Ids(s)) : Ids(s)[i] \in ids
      /\ ids \subseteq Alerts /\ \A a \in ids : \E i \in 1..Len(Ids(s)) : a = Ids(s)[i]
  BY <1>1, OfBatch
<1>3. /\ AtWork(s, reply) /\ s.ask \in Asks /\ hand \in [Handlers -> HandType] /\ s \in HandType
      /\ reply[s.ask] = "none" /\ s.n \in 1..Len(Ids(s)) /\ Comes(s, cache, rows, hand)
  BY <1>1, Working
<1>4. /\ cache \in [Alerts -> RowType] /\ rows \in [Alerts -> RowType] /\ torn \subseteq Alerts
      /\ failures \in 0..MaxFailures /\ crashes \in 0..MaxCrashes /\ None \notin Alerts
  BY <1>1, Working DEF RequestsConstants
<1>5. s.n = 1
  BY <1>1, <1>3 DEF AtWork
<1> HIDE DEF row
<1>6. /\ cache' = [a \in Alerts |-> IF a \in ids THEN row ELSE cache[a]] /\ Works(h, ids)
      /\ UNCHANGED <<rows, reply, failures, crashes>>
  BY <1>2 DEF Commit, Of, Ids
<1>7. hand' = [hand EXCEPT ![h] = u]
  <2>1. [s EXCEPT !.at = "rows"] = u
    BY <1>3 DEF HandType
  <2>2. hand' = [hand EXCEPT ![h] = [s EXCEPT !.at = "rows"]]
    BY DEF Commit, Goes
  <2> HIDE DEF u
  <2> QED BY <2>1, <2>2
<1>8. u \in HandType
  BY <1>3 DEF HandType, Ats
<1>9. /\ u.at = "rows" /\ u.ask = s.ask /\ u.n = s.n /\ u.id = s.id /\ u.row = s.row /\ u.other = s.other /\ Ids(u) = Ids(s)
      /\ hand'[h] = u /\ BatchRow(u) = row
  BY <1>3, <1>7 DEF Ids, BatchRow, row
<1> HIDE DEF u
<1>10. AtWork(u, reply)
  BY <1>2, <1>3, <1>9 DEF AtWork, Making
<1>11. GoesOn(h, u)
  BY <1>6, <1>7, <1>8, <1>9, <1>10 DEF GoesOn
<1>12. HoldsIn(u) = ids /\ Touches(u) = ids
  BY <1>9 DEF HoldsIn, Touches
<1>13. /\ torn \subseteq torn' /\ torn' \subseteq Alerts
       /\ \A g \in Handlers \ {h} : ids \cap HoldsIn(hand[g]) \subseteq torn'
  BY <1>2, <1>4, <1>6, WorksAtOnce
<1>14. cache' \in [Alerts -> RowType]
  BY <1>2, <1>4, <1>6
<1>15. Typed
  BY <1>4, <1>6, <1>13, <1>14 DEF Typed
<1>16. /\ \A a \in ids : cache'[a] = row
       /\ \A a \in Alerts \ ids : cache'[a] = cache[a]
       /\ rows' = rows
  BY <1>2, <1>6
<1>17. \A a \in ids : Unborn(a, cache, rows, hand)
  BY <1>1, <1>2, <1>3 DEF Comes, Ahead
<1>18. Minds(h)
  BY <1>9, <1>12, <1>13, <1>16 DEF Minds
<1>19. Creeps(h)
  <2>1. ASSUME NEW v \in Alerts, NotNamed(v, cache, rows, s) PROVE NotNamed(v, cache', rows', u)
    <3>1. \A b \in Alerts : cache'[b].after = cache[b].after \/ cache'[b].after = None
      BY <1>2, <1>16
    <3> QED BY <1>4, <1>9, <1>16, <2>1, <3>1 DEF NotNamed
  <2>2. \A a \in Alerts \ Own(s) : cache'[a] = cache[a] /\ rows'[a] = rows[a] /\ a \notin Touches(u)
    BY <1>2, <1>12, <1>16
  <2> QED BY <1>9, <2>1, <2>2 DEF Creeps
<1>20. LetsGo(h) /\ Closer(h)
  BY <1>1, <1>9 DEF LetsGo, Closer, Ahead
<1>21. \A i \in 1..Len(Ids(s)) : cache'[Ids(s)[i]] = row /\ rows'[Ids(s)[i]] = Absent /\ ~(i < s.n)
  <2>1. \A i \in 1..Len(Ids(s)) : ~(i < s.n)
    BY <1>5
  <2> QED BY <1>2, <1>16, <1>17, <2>1 DEF Unborn, Clear
<1>22. Knows(u, cache', rows', torn')
  <2> HIDE DEF s
  <2> QED BY <1>9, <1>21 DEF Knows
<1>23. Progress(u, cache', rows', hand', torn')
  <2> HIDE DEF s
  <2> QED BY <1>2, <1>9, <1>21 DEF Progress, Before, After
<1>24. Answered(s.ask, cache', rows', hand', torn', reply')
  BY <1>3, <1>6 DEF Answered
<1>25. TextsFit'
  <2>1. \A a \in Alerts \ torn' : HasText(cache[a]) /\ HasText(rows[a])
    BY <1>13 DEF RequestsInv, TextsFit
  <2>2. \A a \in Alerts \ torn' : HasText(cache'[a]) /\ HasText(rows'[a])
    BY <1>2, <1>16, <2>1
  <2> QED BY <2>2 DEF TextsFit
<1>26. ChainsMatch'
  <2> SUFFICES ASSUME NEW a \in Alerts \ torn' PROVE Chained(a, cache', rows', hand', torn')
    BY DEF ChainsMatch
  <2>1. Chained(a, cache, rows, hand, torn)
    BY <1>13 DEF RequestsInv, ChainsMatch
  <2>2. \A x, p : IsDue(x, p, hand) => IsDue(x, p, hand')
    <3>1. \A g \in Handlers \ {h} : hand'[g] = hand[g]
      BY <1>3, <1>7
    <3> QED BY <1>1, <3>1 DEF IsDue
  <2>3. \A y : Waits(y, torn') => Waits(y, torn)
    BY <1>13 DEF Waits
  <2>4. ASSUME NEW y, y \in {cache[a], rows[a]}, Waits(y, torn') PROVE y.after \in Alerts \ ids
    BY <1>17, <2>4 DEF Waits, Unborn
  <2>5. ASSUME NEW y, NEW due, y.after \in Alerts \ ids, Linked(y, cache, rows, due) PROVE Linked(y, cache', rows', due)
    BY <1>16, <2>5 DEF Linked
  <2>6. Waits(rows'[a], torn') => Linked(rows'[a], cache', rows', FALSE)
    BY <1>16, <2>1, <2>3, <2>4, <2>5 DEF Chained
  <2>7. CASE a \in ids
    <3>1. ~Waits(cache'[a], torn')
      BY <1>2, <1>4, <1>16, <2>7 DEF Waits
    <3> QED BY <2>6, <3>1 DEF Chained
  <2>8. CASE a \notin ids
    <3>1. ASSUME Waits(cache[a], torn') PROVE Linked(cache[a], cache', rows', IsDue(a, cache[a].after, hand'))
      <4>1. Linked(cache[a], cache, rows, IsDue(a, cache[a].after, hand))
        BY <2>1, <2>3, <3>1 DEF Chained
      <4>2. Linked(cache[a], cache', rows', IsDue(a, cache[a].after, hand))
        BY <2>4, <2>5, <3>1, <4>1
      <4> QED BY <2>2, <4>2 DEF Linked
    <3> QED BY <1>16, <2>6, <2>8, <3>1 DEF Chained
  <2> QED BY <2>7, <2>8
<1> QED BY <1>9, <1>11, <1>15, <1>18, <1>19, <1>20, <1>22, <1>23, <1>24, <1>25, <1>26 DEF Result

\* The next row of a batch is written.
LEMMA OfWriteNext ==
    ASSUME RequestsConstants, RequestsInv, NEW h \in Handlers, WriteNext(h)
    PROVE  Result(h)
<1> DEFINE s == hand[h]  ids == Range(Ids(s))  row == BatchRow(s)  id == Ids(s)[s.n]
           u == [at |-> s.at, ask |-> s.ask, n |-> s.n + 1, id |-> s.id, row |-> s.row, other |-> s.other]
<1>1. s.at = "rows" /\ s.at \notin {"ready", "parent"} /\ HoldsIn(s) = ids /\ Touches(s) = ids
  BY DEF WriteNext, HoldsIn, Touches
<1>2. /\ Creation(s.ask) /\ Fits(Ask[s.ask]) /\ Own(s) = ids
      /\ row \in RowType /\ row.live /\ row.after = None /\ HasText(row)
      /\ row = Row(None, None, Ask[s.ask].text, Ask[s.ask].msg)
      /\ \A i \in 1..Len(Ids(s)) : Ids(s)[i] \in ids
      /\ ids \subseteq Alerts /\ \A a \in ids : \E i \in 1..Len(Ids(s)) : a = Ids(s)[i]
  BY <1>1, OfBatch
<1>3. /\ AtWork(s, reply) /\ s.ask \in Asks /\ hand \in [Handlers -> HandType] /\ s \in HandType
      /\ reply[s.ask] = "none" /\ s.n \in 1..Len(Ids(s)) /\ Ids(s) \in Seq(Alerts)
  BY <1>1, Working
<1>4. /\ cache \in [Alerts -> RowType] /\ rows \in [Alerts -> RowType] /\ torn \subseteq Alerts
      /\ failures \in 0..MaxFailures /\ crashes \in 0..MaxCrashes
  BY <1>1, Working
<1>5. /\ s.n \in Nat /\ Len(Ids(s)) \in Nat /\ Ids(s) = Ask[s.ask].ids /\ (s.n < Len(Ids(s)) \/ s.n = Len(Ids(s)))
      /\ Len(Ids(s)) <= Cardinality(Alerts) /\ Cardinality(Alerts) \in Nat
  BY <1>1, <1>3, Working DEF Ids
<1>6. id \in ids /\ id \in Alerts
  BY <1>2, <1>3, SMTT(30)
<1> HIDE DEF row
<1>7. cache' = [cache EXCEPT ![id] = cache[id]] /\ rows' = [rows EXCEPT ![id] = row] /\ failures' = failures /\ crashes' = crashes
      /\ torn' = torn
  BY <1>2, <1>4 DEF WriteNext, Writes, Of, Ids
<1>8. Typed
  BY <1>2, <1>4, <1>6, <1>7 DEF Typed
<1>9. Alters(h, id, cache[id], row)
  <2>1. cache[id] \in RowType
    BY <1>4, <1>6
  <2> HIDE DEF id
  <2> QED BY <1>2, <1>6, <1>7, <2>1 DEF Alters
<1>10. cache' = cache /\ rows'[id] = row /\ \A a \in Alerts \ {id} : rows'[a] = rows[a]
  BY <1>4, <1>6, <1>7
<1>11. \A i \in 1..Len(Ids(s)) : Ids(s)[i] \notin torn => cache[Ids(s)[i]] = row /\ rows[Ids(s)[i]] = IF i < s.n THEN row ELSE Absent
  <2>1. Knows(s, cache, rows, torn)
    BY <1>1, Working
  <2> HIDE DEF s
  <2> QED BY <1>1, <2>1 DEF Knows, row
<1>12. \A i \in 1..Len(Ids(s)) : Ids(s)[i] \notin Deleted => cache[Ids(s)[i]].live /\ (i < s.n => rows[Ids(s)[i]].live)
  <2>1. Progress(s, cache, rows, hand, torn)
    BY <1>1, Working
  <2> HIDE DEF s
  <2> QED BY <1>1, <2>1 DEF Progress
<1>13. \A i \in 1..Len(Ids(s)) : i # s.n => Ids(s)[i] \in Alerts \ {id}
  <2>1. \A i \in 1..Len(Ids(s)) : Ids(s)[i] = id => i = s.n
    <3> HIDE DEF s
    <3> QED BY <1>2, <1>3, DistinctIds
  <2> QED BY <1>2, <2>1
<1>14. \A i \in 1..Len(Ids(s)) : i < s.n + 1 <=> i < s.n \/ i = s.n
  BY <1>5
<1>15. \A i \in 1..Len(Ids(s)) : Ids(s)[i] \notin torn' =>
          cache'[Ids(s)[i]] = row /\ rows'[Ids(s)[i]] = IF i < s.n + 1 THEN row ELSE Absent
  <2> SUFFICES ASSUME NEW i \in 1..Len(Ids(s)), Ids(s)[i] \notin torn'
               PROVE  cache'[Ids(s)[i]] = row /\ rows'[Ids(s)[i]] = IF i < s.n + 1 THEN row ELSE Absent
    OBVIOUS
  <2>1. cache[Ids(s)[i]] = row /\ rows[Ids(s)[i]] = IF i < s.n THEN row ELSE Absent
    BY <1>7, <1>11
  <2>2. CASE i = s.n
    BY <1>10, <1>14, <2>1, <2>2
  <2>3. CASE i # s.n
    <3>1. rows'[Ids(s)[i]] = rows[Ids(s)[i]]
      BY <1>10, <1>13, <2>3
    <3> QED BY <1>10, <1>14, <2>1, <2>3, <3>1
  <2> QED BY <2>2, <2>3
<1>16. \A i \in 1..Len(Ids(s)) : Ids(s)[i] \notin Deleted => cache'[Ids(s)[i]].live /\ (i < s.n + 1 => rows'[Ids(s)[i]].live)
  <2> SUFFICES ASSUME NEW i \in 1..Len(Ids(s)), Ids(s)[i] \notin Deleted
               PROVE  cache'[Ids(s)[i]].live /\ (i < s.n + 1 => rows'[Ids(s)[i]].live)
    OBVIOUS
  <2>1. cache[Ids(s)[i]].live /\ (i < s.n => rows[Ids(s)[i]].live)
    BY <1>12
  <2>2. CASE i = s.n
    BY <1>2, <1>10, <2>1, <2>2
  <2>3. CASE i # s.n
    <3>1. rows'[Ids(s)[i]] = rows[Ids(s)[i]]
      BY <1>10, <1>13, <2>3
    <3> QED BY <1>10, <1>14, <2>1, <2>3, <3>1
  <2> QED BY <2>2, <2>3
<1>17. Like(cache[id], cache[id]) /\ (id \notin torn' => Like(row, cache[id]))
  BY <1>3, <1>7, <1>11 DEF Like
<1>18. CASE s.n = Len(Ids(s))
  <2>1. Answer(h, "made")
    BY <1>5, <1>18 DEF WriteNext, Of
  <2>2. IsDone(h, "made")
    BY <2>1 DEF IsDone, Replies
  <2>3. \A i \in 1..Len(Ids(s)) : i < s.n + 1
    BY <1>5, <1>18
  <2>4. \A i \in 1..Len(Ids(s)) : Made(Ids(s)[i], cache', rows')
    BY <1>16, <2>3 DEF Made
  <2>5. reply'[s.ask] = "made"
    <3>1. reply \in [Asks -> Replies]
      BY <1>1, Working
    <3> QED BY <1>3, <2>1, <3>1 DEF Answer
  <2>6. Answered(s.ask, cache', rows', hand', torn', reply')
    BY <1>5, <2>4, <2>5 DEF Answered
  <2>7. \A a \in HoldsIn(s) \ torn' : cache'[a] = rows'[a]
    <3> SUFFICES ASSUME NEW a \in ids \ torn' PROVE cache'[a] = rows'[a]
      BY <1>1
    <3>1. PICK i \in 1..Len(Ids(s)) : a = Ids(s)[i]
      BY <1>2, SMTT(30)
    <3> QED BY <1>15, <2>3, <3>1
  <2> HIDE DEF s, id, ids
  <2> QED BY <1>1, <1>2, <1>6, <1>8, <1>9, <1>17, <2>2, <2>6, <2>7, Ends DEF s
<1>19. CASE s.n < Len(Ids(s))
  <2>1. hand' = [hand EXCEPT ![h] = u] /\ reply' = reply
    <3>1. [s EXCEPT !.n = s.n + 1] = u
      BY <1>3 DEF HandType
    <3>2. hand' = [hand EXCEPT ![h] = [s EXCEPT !.n = s.n + 1]]
      BY <1>5, <1>19 DEF WriteNext, Of
    <3>3. reply' = reply
      BY <1>5, <1>19 DEF WriteNext, Of
    <3> HIDE DEF u
    <3> QED BY <3>1, <3>2, <3>3
  <2>2. s.n + 1 \in 0..Cardinality(Alerts) /\ s.n + 1 \in 1..Len(Ids(s))
    BY <1>5, <1>19
  <2>3. u \in HandType
    BY <1>3, <2>2 DEF HandType, Ats
  <2>4. /\ u.at = "rows" /\ u.ask = s.ask /\ u.n = s.n + 1 /\ u.id = s.id /\ u.row = s.row /\ u.other = s.other /\ Ids(u) = Ids(s)
        /\ hand'[h] = u /\ BatchRow(u) = row
    BY <1>1, <1>3, <2>1 DEF Ids, BatchRow, row
  <2> HIDE DEF u
  <2>5. AtWork(u, reply)
    BY <1>2, <1>3, <2>2, <2>4 DEF AtWork, Making
  <2>6. GoesOn(h, u)
    BY <2>1, <2>3, <2>4, <2>5 DEF GoesOn
  <2>7. HoldsIn(u) = ids /\ Touches(u) = ids
    BY <2>4 DEF HoldsIn, Touches
  <2>8. Knows(u, cache', rows', torn')
    <3> HIDE DEF s
    <3> QED BY <1>15, <2>4 DEF Knows
  <2>9. Progress(u, cache', rows', hand', torn')
    <3> HIDE DEF s
    <3> QED BY <1>16, <2>4 DEF Progress, Before, After
  <2>10. \A i \in 1..Len(Ids(s)) : ~Ahead(u, i)
    BY <2>4 DEF Ahead
  <2>11. /\ {u.row.after, u.other.after} \subseteq {None, cache[id].after, rows[id].after, s.row.after, s.other.after}
         /\ \A a \in HoldsIn(s) \ (HoldsIn(u) \cup torn') : cache'[a] = rows'[a]
         /\ \A g \in Handlers \ {h} : HoldsIn(u) \cap HoldsIn(hand[g]) \subseteq torn' \cup HoldsIn(s)
         /\ id \in HoldsIn(s) /\ u.at # "parent" /\ Touches(u) \subseteq Touches(s) \cup Own(s) \cup {a \in Alerts : cache[a].live}
    BY <1>1, <1>6, <2>4, <2>7
  <2> HIDE DEF s, id, ids
  <2> QED BY <1>1, <1>2, <1>8, <1>9, <1>17, <2>6, <2>8, <2>9, <2>10, <2>11, Continues DEF s
<1> QED BY <1>5, <1>18, <1>19

\* A batch that is refused is gone.
LEMMA BatchGone ==
    ASSUME RequestsConstants, RequestsInv, NEW h \in Handlers, hand[h].at \in {"rows", "unmake"}, IsDone(h, "refused"),
           torn \subseteq torn', Moved(h),
           \A i \in 1..Len(Ids(hand[h])) : Ids(hand[h])[i] \notin torn' =>
              cache'[Ids(hand[h])[i]] = Absent /\ rows'[Ids(hand[h])[i]] = Absent
    PROVE  Answered(hand[h].ask, cache', rows', hand', torn', reply')
<1> DEFINE s == hand[h]  ids == Range(Ids(s))
<1>1. HoldsIn(s) = ids /\ s.at # "ready"
  BY DEF HoldsIn
<1>2. /\ reply \in [Asks -> Replies] /\ hand \in [Handlers -> HandType] /\ s.ask \in Asks /\ Ids(s) = Ask[s.ask].ids
  BY <1>1, Working
<1>3. reply'[s.ask] = "refused" /\ hand'[h] = Ready
  BY <1>2 DEF IsDone, Answer
<1>4. ASSUME NEW i \in 1..Len(Ids(s)), Ids(s)[i] \notin torn' \cup Deleted PROVE Clear(Ids(s)[i], cache', rows', hand')
  <2>1. Ids(s)[i] \in ids
    BY OfBatch
  <2>2. \A g \in Handlers \ {h} : Ids(s)[i] \notin HoldsIn(hand[g])
    BY <1>1, <1>4, <2>1, HeldByOne
  <2>3. \A g \in Handlers \ {h} : Ids(s)[i] \notin Touches(hand[g])
    BY <1>4, <2>2, DropsDeleted DEF Touches
  <2>4. \A g \in Handlers : Ids(s)[i] \notin Touches(hand'[g])
    BY <1>3, <2>3, OfReady DEF Moved
  <2> QED BY <1>4, <2>4 DEF Clear
<1>5. \A i \in 1..Len(Ids(s)) : Gone(Ids(s)[i], cache', rows', hand', torn')
  BY <1>4 DEF Gone
<1> QED BY <1>2, <1>3, <1>5 DEF Answered

\* A row of a batch could not be written: all of it leaves the cache.
LEMMA OfFailNext ==
    ASSUME RequestsConstants, RequestsInv, NEW h \in Handlers, FailNext(h)
    PROVE  Result(h)
<1> DEFINE s == hand[h]  ids == Range(Ids(s))
           u == [at |-> "unmake", ask |-> s.ask, n |-> 1, id |-> Ids(s)[s.n], row |-> s.row, other |-> s.other]
<1>1. s.at = "rows" /\ s.at \notin {"ready", "parent"} /\ HoldsIn(s) = ids /\ Touches(s) = ids
  BY DEF FailNext, HoldsIn, Touches
<1>2. /\ Creation(s.ask) /\ Fits(Ask[s.ask]) /\ Own(s) = ids
      /\ \A i \in 1..Len(Ids(s)) : Ids(s)[i] \in ids
      /\ ids \subseteq Alerts /\ \A a \in ids : \E i \in 1..Len(Ids(s)) : a = Ids(s)[i]
  BY <1>1, OfBatch
<1>3. /\ AtWork(s, reply) /\ s.ask \in Asks /\ hand \in [Handlers -> HandType] /\ s \in HandType
      /\ reply[s.ask] = "none" /\ s.n \in 1..Len(Ids(s)) /\ Ids(s) \in Seq(Alerts) /\ 1 \in 1..Len(Ids(s))
  BY <1>1, Working
<1>4. /\ cache \in [Alerts -> RowType] /\ rows \in [Alerts -> RowType] /\ torn \subseteq Alerts
      /\ failures \in 0..MaxFailures /\ crashes \in 0..MaxCrashes /\ MaxFailures \in Nat /\ None \notin Alerts
  BY <1>1, Working DEF RequestsConstants
<1>5. /\ s.n \in Nat /\ Len(Ids(s)) \in Nat /\ Ids(s) = Ask[s.ask].ids /\ (s.n = 1 \/ s.n > 1)
      /\ Len(Ids(s)) <= Cardinality(Alerts) /\ Cardinality(Alerts) \in Nat
  BY <1>1, <1>3, Working DEF Ids
<1>6. /\ cache' = [a \in Alerts |-> IF a \in ids THEN Absent ELSE cache[a]]
      /\ rows' = rows /\ failures' = failures + 1 /\ failures < MaxFailures /\ crashes' = crashes /\ torn' = torn
  BY DEF FailNext, Fails, Of, Ids
<1>7. /\ \A a \in ids : cache'[a] = Absent
      /\ \A a \in Alerts \ ids : cache'[a] = cache[a]
  BY <1>2, <1>6
<1>8. Typed
  BY <1>4, <1>6, OfAbsent DEF Typed
<1>9. \A i \in 1..Len(Ids(s)) : Ids(s)[i] \notin torn' /\ i >= s.n => rows'[Ids(s)[i]] = Absent
  <2>1. Knows(s, cache, rows, torn)
    BY <1>1, Working
  <2>2. \A i \in 1..Len(Ids(s)) : i >= s.n => ~(i < s.n)
    BY <1>5
  <2>3. \A i \in 1..Len(Ids(s)) : Ids(s)[i] \notin torn /\ ~(i < s.n) => rows[Ids(s)[i]] = Absent
    <3> HIDE DEF s
    <3> QED BY <1>1, <2>1 DEF Knows
  <2> QED BY <1>6, <2>2, <2>3
<1>10. TextsFit'
  <2>1. \A a \in Alerts \ torn' : HasText(cache[a]) /\ HasText(rows[a])
    BY <1>6 DEF RequestsInv, TextsFit
  <2>2. \A a \in Alerts \ torn' : HasText(cache'[a]) /\ HasText(rows'[a])
    BY <1>2, <1>6, <1>7, <2>1, OfAbsent
  <2> QED BY <2>2 DEF TextsFit
<1>11. ASSUME NEW y, hand'[h] = y, HoldsIn(y) \subseteq ids, Touches(y) \subseteq ids, y.at # "parent",
              {y.row.after, y.other.after} \subseteq {None, s.row.after, s.other.after},
              \/ \E z : GoesOn(h, z) 
              \/ \E r : IsDone(h, r)
       PROVE  Moved(h) /\ Minds(h) /\ Creeps(h) /\ ChainsMatch'
  <2>1. Moved(h)
    BY <1>1, <1>11, Hands DEF RequestsInv, Basis
  <2>2. Minds(h)
    BY <1>1, <1>6, <1>7, <1>11 DEF Minds
  <2>3. Creeps(h)
    <3>1. ASSUME NEW v \in Alerts, NotNamed(v, cache, rows, s) PROVE NotNamed(v, cache', rows', y)
      <4>1. \A b \in Alerts : cache'[b].after = cache[b].after \/ cache'[b].after = None
        BY <1>2, <1>7, OfAbsent
      <4> QED BY <1>4, <1>6, <1>11, <3>1, <4>1 DEF NotNamed
    <3>2. \A a \in Alerts \ Own(s) : cache'[a] = cache[a] /\ rows'[a] = rows[a] /\ a \notin Touches(y)
      BY <1>2, <1>6, <1>7, <1>11
    <3> QED BY <1>11, <3>1, <3>2 DEF Creeps
  <2>4. Keeps(h)
    <3>1. \A a \in Alerts : Like(cache'[a], cache[a]) /\ Like(rows'[a], rows[a])
      BY <1>6, <1>7, OfAbsent
    <3> QED BY <1>1, <1>11, <3>1 DEF Keeps
  <2>5. ChainsMatch'
    BY <1>8, <2>1, <2>4, ChainsKept DEF RequestsInv, Basis
  <2> QED BY <2>1, <2>2, <2>3, <2>5
<1>12. CASE s.n = 1
  <2>1. Answer(h, "refused")
    BY <1>5, <1>12 DEF FailNext
  <2>2. IsDone(h, "refused") /\ hand'[h] = Ready
    BY <1>3, <2>1 DEF IsDone, Replies, Answer
  <2>3. Moved(h) /\ Minds(h) /\ Creeps(h) /\ ChainsMatch'
    BY <1>11, <2>2, OfReady
  <2>4. \A i \in 1..Len(Ids(s)) : i >= s.n
    BY <1>5, <1>12
  <2>5. \A i \in 1..Len(Ids(s)) : Ids(s)[i] \notin torn' => cache'[Ids(s)[i]] = Absent /\ rows'[Ids(s)[i]] = Absent
    BY <1>2, <1>7, <1>9, <2>4
  <2>6. Answered(s.ask, cache', rows', hand', torn', reply')
    BY <1>1, <1>6, <2>2, <2>3, <2>5, BatchGone
  <2>7. LetsGo(h) /\ Closer(h)
    BY <1>1, <1>2, <2>2, <2>5, OfReady DEF LetsGo, Closer
  <2>8. Knows(hand'[h], cache', rows', torn') /\ Progress(hand'[h], cache', rows', hand', torn')
    BY <2>2, OfReady
  <2> QED BY <1>8, <1>10, <2>2, <2>3, <2>6, <2>7, <2>8 DEF Result
<1>13. CASE s.n > 1
  <2>1. hand' = [hand EXCEPT ![h] = u] /\ reply' = reply
    <3> DEFINE r1 == [at |-> "unmake", ask |-> s.ask, n |-> s.n, id |-> s.id, row |-> s.row, other |-> s.other]
               r2 == [at |-> "unmake", ask |-> s.ask, n |-> s.n, id |-> Ids(s)[s.n], row |-> s.row, other |-> s.other]
    <3>1. [s EXCEPT !.at = "unmake"] = r1
      BY <1>3 DEF HandType
    <3>2. [r1 EXCEPT !.id = Ids(s)[s.n]] = r2
      OBVIOUS
    <3>3. [r2 EXCEPT !.n = 1] = u
      OBVIOUS
    <3>4. hand' = [hand EXCEPT ![h] = [s EXCEPT !.at = "unmake", !.id = Ids(s)[s.n], !.n = 1]]
      BY <1>13 DEF FailNext, Of, Ids
    <3>5. reply' = reply
      BY <1>13 DEF FailNext
    <3> HIDE DEF r1, r2, u
    <3> QED BY <3>1, <3>2, <3>3, <3>4, <3>5
  <2>2. u \in HandType
    <3>1. 1 \in 0..Cardinality(Alerts)
      BY <1>3, <1>5
    <3> QED BY <1>2, <1>3, <3>1 DEF HandType, Ats
  <2>3. /\ u.at = "unmake" /\ u.ask = s.ask /\ u.n = 1 /\ u.id = Ids(s)[s.n] /\ u.row = s.row /\ u.other = s.other /\ Ids(u) = Ids(s)
        /\ hand'[h] = u
    BY <1>3, <2>1 DEF Ids
  <2> HIDE DEF u
  <2>4. AtWork(u, reply)
    BY <1>2, <1>3, <1>13, <2>3 DEF AtWork, Making
  <2>5. GoesOn(h, u)
    BY <2>1, <2>2, <2>3, <2>4 DEF GoesOn
  <2>6. HoldsIn(u) = ids /\ Touches(u) = ids
    BY <2>3 DEF HoldsIn, Touches
  <2>7. Moved(h) /\ Minds(h) /\ Creeps(h) /\ ChainsMatch'
    BY <1>11, <2>3, <2>5, <2>6
  <2>8. Knows(u, cache', rows', torn')
    <3> SUFFICES ASSUME NEW i \in 1..Len(Ids(s)), NEW k \in 1..Len(Ids(s)), Ids(s)[i] \notin torn', Ids(s)[s.n] = Ids(s)[k]
                 PROVE  cache'[Ids(s)[i]] = Absent /\ (i < 1 \/ i >= k => rows'[Ids(s)[i]] = Absent)
      BY <2>3 DEF Knows
    <3>1. s.n = k
      <4> HIDE DEF s
      <4> QED BY <1>2, <1>3, DistinctIds
    <3>2. ~(i < 1)
      BY <1>5
    <3> QED BY <1>2, <1>7, <1>9, <3>1, <3>2
  <2>9. Progress(u, cache', rows', hand', torn')
    BY <2>3 DEF Progress, Before, After
  <2>10. LetsGo(h) /\ Closer(h)
    BY <1>1, <2>3, <2>6 DEF LetsGo, Closer, Ahead
  <2>11. Answered(s.ask, cache', rows', hand', torn', reply')
    BY <1>3, <2>1 DEF Answered
  <2> QED BY <1>8, <1>10, <2>3, <2>5, <2>7, <2>8, <2>9, <2>10, <2>11 DEF Result
<1> QED BY <1>5, <1>12, <1>13

\* A row of such a batch is deleted, or could not be.
LEMMA OfUnmake ==
    ASSUME RequestsConstants, RequestsInv, NEW h \in Handlers, Unmake(h)
    PROVE  Result(h)
<1> DEFINE s == hand[h]  ids == Range(Ids(s))  id == Ids(s)[s.n]
           u == [at |-> s.at, ask |-> s.ask, n |-> s.n + 1, id |-> s.id, row |-> s.row, other |-> s.other]
<1>1. s.at = "unmake" /\ s.at \notin {"ready", "parent"} /\ HoldsIn(s) = ids /\ Touches(s) = ids
  BY DEF Unmake, HoldsIn, Touches
<1>2. /\ Creation(s.ask) /\ Fits(Ask[s.ask]) /\ Own(s) = ids
      /\ \A i \in 1..Len(Ids(s)) : Ids(s)[i] \in ids
      /\ ids \subseteq Alerts /\ \A a \in ids : \E i \in 1..Len(Ids(s)) : a = Ids(s)[i]
  BY <1>1, OfBatch
<1>3. /\ AtWork(s, reply) /\ s.ask \in Asks /\ hand \in [Handlers -> HandType] /\ s \in HandType
      /\ reply[s.ask] = "none" /\ s.n \in 1..Len(Ids(s)) /\ Ids(s) \in Seq(Alerts)
  BY <1>1, Working
<1>4. /\ cache \in [Alerts -> RowType] /\ rows \in [Alerts -> RowType] /\ torn \subseteq Alerts
      /\ failures \in 0..MaxFailures /\ crashes \in 0..MaxCrashes /\ MaxFailures \in Nat
  BY <1>1, Working DEF RequestsConstants
<1>5. /\ s.n \in Nat /\ Len(Ids(s)) \in Nat /\ Ids(s) = Ask[s.ask].ids
      /\ Len(Ids(s)) <= Cardinality(Alerts) /\ Cardinality(Alerts) \in Nat
  BY <1>1, <1>3, Working DEF Ids
<1>6. id \in ids /\ id \in Alerts
  BY <1>2, <1>3
<1>7. PICK k \in 1..Len(Ids(s)) : s.n < k /\ s.id = Ids(s)[k]
  BY <1>1, <1>3, SMTT(30) DEF AtWork
<1>8. PICK w \in RowType : /\ rows' = [rows EXCEPT ![id] = w] /\ (id \notin torn' => w = Absent) /\ w \in {Absent, rows[id]}
                           /\ torn \subseteq torn' /\ torn' \subseteq torn \cup {id}
                           /\ failures' \in {failures, failures + 1} /\ (failures' = failures \/ failures < MaxFailures)
  <2>1. CASE Writes(id, Absent) /\ UNCHANGED torn
    BY <2>1, OfAbsent DEF Writes
  <2>2. CASE Fails /\ torn' = torn \cup {id}
    <3>1. rows' = [rows EXCEPT ![id] = rows[id]] /\ rows[id] \in RowType
      BY <1>4, <1>6, <2>2 DEF Fails
    <3> QED BY <2>2, <3>1 DEF Fails
  <2> QED BY <2>1, <2>2 DEF Unmake, Of, Ids
<1>9. cache' = [cache EXCEPT ![id] = cache[id]] /\ cache' = cache /\ crashes' = crashes
  BY <1>4 DEF Unmake
<1>10. Typed
  <2>1. torn \subseteq torn' /\ torn' \subseteq Alerts /\ failures' \in 0..MaxFailures
    BY <1>4, <1>6, <1>8
  <2>2. rows' \in [Alerts -> RowType]
    BY <1>4, <1>6, <1>8
  <2> QED BY <1>4, <1>9, <2>1, <2>2 DEF Typed
<1>11. Alters(h, id, cache[id], w)
  <2>1. cache[id] \in RowType
    BY <1>4, <1>6
  <2>2. w.after \in {None, rows[id].after}
    BY <1>8, OfAbsent
  <2>3. rows' = [rows EXCEPT ![id] = w] /\ id \in Own(s)
    BY <1>2, <1>6, <1>8
  <2> HIDE DEF id
  <2> QED BY <1>6, <1>9, <2>1, <2>2, <2>3 DEF Alters
<1>12. rows'[id] = w /\ \A a \in Alerts \ {id} : rows'[a] = rows[a]
  <2>1. rows' = [rows EXCEPT ![id] = w]
    BY <1>8
  <2> QED BY <1>4, <1>6, <2>1
<1>13. \A i \in 1..Len(Ids(s)) : Ids(s)[i] \notin torn => cache[Ids(s)[i]] = Absent /\ (i < s.n \/ i >= k => rows[Ids(s)[i]] = Absent)
  <2>1. Knows(s, cache, rows, torn)
    BY <1>1, Working
  <2> HIDE DEF s
  <2> QED BY <1>1, <1>7, <2>1 DEF Knows
<1>14. \A i \in 1..Len(Ids(s)) : i < s.n + 1 <=> i < s.n \/ i = s.n
  BY <1>5
<1>15. \A i \in 1..Len(Ids(s)) : Ids(s)[i] \notin torn' =>
          cache'[Ids(s)[i]] = Absent /\ (i < s.n + 1 \/ i >= k => rows'[Ids(s)[i]] = Absent)
  <2> SUFFICES ASSUME NEW i \in 1..Len(Ids(s)), Ids(s)[i] \notin torn'
               PROVE  cache'[Ids(s)[i]] = Absent /\ (i < s.n + 1 \/ i >= k => rows'[Ids(s)[i]] = Absent)
    OBVIOUS
  <2>1. cache[Ids(s)[i]] = Absent /\ (i < s.n \/ i >= k => rows[Ids(s)[i]] = Absent)
    BY <1>8, <1>13
  <2>2. CASE Ids(s)[i] = id
    BY <1>8, <1>9, <1>12, <2>1, <2>2
  <2>3. CASE Ids(s)[i] # id
    <3>1. rows'[Ids(s)[i]] = rows[Ids(s)[i]] /\ i # s.n
      BY <1>2, <1>12, <2>3
    <3> QED BY <1>9, <1>14, <2>1, <3>1
  <2> QED BY <2>2, <2>3
<1>16. Like(cache[id], cache[id]) /\ Like(w, rows[id]) /\ (w = rows[id] \/ HasText(w))
  BY <1>8, OfAbsent
<1>18. /\ s.n + 1 \in 1..Len(Ids(s)) /\ s.n + 1 \in 0..Cardinality(Alerts)
       /\ k # s.n + 1 => s.n + 1 < k
  <2>1. s.n \in Nat /\ k \in Nat /\ s.n < k /\ k <= Len(Ids(s))
    BY <1>5, <1>7
  <2> HIDE DEF s
  <2> QED BY <1>5, <2>1
<1>17. CASE Ids(s)[s.n + 1] = s.id
  <2>1. Answer(h, "refused")
    BY <1>17 DEF Unmake, Of, Ids
  <2>2. IsDone(h, "refused")
    BY <2>1 DEF IsDone, Replies
  <2>3. Moved(h)
    BY <1>1, <2>2, Hands DEF RequestsInv, Basis
  <2>4. k = s.n + 1
    <3>1. s.n + 1 \in 1..Len(Ids(s))
      BY <1>18
    <3>2. Ids(s)[s.n + 1] = Ids(s)[k]
      BY <1>7, <1>17
    <3>3. Ask[s.ask].ids[s.n + 1] = Ask[s.ask].ids[k] /\ s.n + 1 \in 1..Len(Ask[s.ask].ids) /\ k \in 1..Len(Ask[s.ask].ids)
      BY <1>5, <3>1, <3>2
    <3> HIDE DEF s
    <3> QED BY <1>1, <1>2, <1>3, <3>3, Distinct
  <2>5. \A i \in 1..Len(Ids(s)) : i < s.n + 1 \/ i >= k
    BY <1>5, <2>4
  <2>6. \A i \in 1..Len(Ids(s)) : Ids(s)[i] \notin torn' => cache'[Ids(s)[i]] = Absent /\ rows'[Ids(s)[i]] = Absent
    BY <1>15, <2>5
  <2>7. Answered(s.ask, cache', rows', hand', torn', reply')
    BY <1>1, <1>8, <2>2, <2>3, <2>6, BatchGone
  <2>8. \A a \in HoldsIn(s) \ torn' : cache'[a] = rows'[a]
    BY <1>1, <1>2, <2>6
  <2> HIDE DEF s, id, ids
  <2> QED BY <1>1, <1>6, <1>10, <1>11, <1>16, <2>2, <2>7, <2>8, Ends DEF s
<1>19. CASE Ids(s)[s.n + 1] # s.id
  <2>1. hand' = [hand EXCEPT ![h] = u] /\ reply' = reply
    <3>1. [s EXCEPT !.n = s.n + 1] = u
      BY <1>3 DEF HandType
    <3>2. hand' = [hand EXCEPT ![h] = [s EXCEPT !.n = s.n + 1]]
      BY <1>19 DEF Unmake, Of, Ids
    <3>3. reply' = reply
      BY <1>19 DEF Unmake, Of, Ids
    <3> HIDE DEF u
    <3> QED BY <3>1, <3>2, <3>3
  <2>2. s.n + 1 \in 0..Cardinality(Alerts) /\ s.n + 1 \in 1..Len(Ids(s)) /\ s.n + 1 < k
    <3>1. k # s.n + 1
      BY <1>7, <1>19
    <3> QED BY <1>18, <3>1
  <2>3. u \in HandType
    BY <1>3, <2>2 DEF HandType, Ats
  <2>4. /\ u.at = "unmake" /\ u.ask = s.ask /\ u.n = s.n + 1 /\ u.id = s.id /\ u.row = s.row /\ u.other = s.other /\ Ids(u) = Ids(s)
        /\ hand'[h] = u
    BY <1>1, <1>3, <2>1 DEF Ids
  <2> HIDE DEF u
  <2>5. AtWork(u, reply)
    <3>1. \E j \in 1..Len(Ids(u)) : u.n < j /\ u.id = Ids(u)[j]
      BY <1>7, <2>2, <2>4
    <3> QED BY <1>2, <1>3, <2>2, <2>4, <3>1 DEF AtWork, Making
  <2>6. GoesOn(h, u)
    BY <2>1, <2>3, <2>4, <2>5 DEF GoesOn
  <2>7. HoldsIn(u) = ids /\ Touches(u) = ids
    BY <2>4 DEF HoldsIn, Touches
  <2>8. Knows(u, cache', rows', torn')
    <3> SUFFICES ASSUME NEW i \in 1..Len(Ids(s)), NEW j \in 1..Len(Ids(s)), Ids(s)[i] \notin torn', s.id = Ids(s)[j]
                 PROVE  cache'[Ids(s)[i]] = Absent /\ (i < s.n + 1 \/ i >= j => rows'[Ids(s)[i]] = Absent)
      BY <2>4 DEF Knows
    <3>1. j = k
      <4> HIDE DEF s
      <4>1. k \in 1..Len(Ids(s)) /\ Ids(s)[j] = Ids(s)[k]
        BY <1>7
      <4>2. s.ask \in Asks /\ Creation(s.ask)
        BY <1>2, <1>3
      <4> QED BY <4>1, <4>2, DistinctIds
    <3> QED BY <1>15, <3>1
  <2>9. Progress(u, cache', rows', hand', torn')
    BY <2>4 DEF Progress, Before, After
  <2>10. \A i \in 1..Len(Ids(s)) : ~Ahead(u, i)
    BY <2>4 DEF Ahead
  <2>11. /\ {u.row.after, u.other.after} \subseteq {None, cache[id].after, rows[id].after, s.row.after, s.other.after}
         /\ \A a \in HoldsIn(s) \ (HoldsIn(u) \cup torn') : cache'[a] = rows'[a]
         /\ \A g \in Handlers \ {h} : HoldsIn(u) \cap HoldsIn(hand[g]) \subseteq torn' \cup HoldsIn(s)
         /\ id \in HoldsIn(s) /\ u.at # "parent" /\ Touches(u) \subseteq Touches(s) \cup Own(s) \cup {a \in Alerts : cache[a].live}
    BY <1>1, <1>6, <2>4, <2>7
  <2> HIDE DEF s, id, ids
  <2> QED BY <1>1, <1>10, <1>11, <1>16, <2>6, <2>8, <2>9, <2>10, <2>11, Continues DEF s
<1> QED BY <1>17, <1>19

-----------------------------------------------------------------------------
(* Every step keeps the invariant *)

\* What a handler does once it has a request.
Treats(h) == \/ TurnDown(h) \/ Insert(h) \/ WriteParent(h) \/ FailParent(h) \/ WriteRow(h) \/ FailRow(h)
             \/ Commit(h) \/ WriteNext(h) \/ FailNext(h) \/ Unmake(h)
             \/ Owned(h) \/ Drop(h) \/ Undo(h) \/ Erase(h) \/ FailErase(h) \/ Get(h)
             \/ Check(h) \/ Change(h) \/ Save(h) \/ FailSave(h)

\* Only a handler with a request does that.
LEMMA TreatsAtWork ==
    ASSUME NEW h \in Handlers, Treats(h)
    PROVE  hand[h].at # "ready"
<1>1. CASE TurnDown(h) \/ Insert(h) \/ WriteParent(h) \/ FailParent(h) \/ WriteRow(h) \/ FailRow(h)
  BY <1>1 DEF TurnDown, Insert, WriteParent, FailParent, WriteRow, FailRow
<1>2. CASE Commit(h) \/ WriteNext(h) \/ FailNext(h) \/ Unmake(h)
  BY <1>2 DEF Commit, WriteNext, FailNext, Unmake
<1>3. CASE Owned(h) \/ Drop(h) \/ Undo(h) \/ Erase(h) \/ FailErase(h) \/ Get(h)
  BY <1>3 DEF Owned, Drop, Undo, Erase, FailErase, Get
<1>4. CASE Check(h) \/ Change(h) \/ Save(h) \/ FailSave(h)
  BY <1>4 DEF Check, Change, Save, FailSave
<1> QED BY <1>1, <1>2, <1>3, <1>4, SMTT(30) DEF Treats

\* None of it breaks the invariant.
LEMMA TreatsKeeps ==
    ASSUME RequestsConstants, RequestsInv, NEW h \in Handlers, Treats(h)
    PROVE  RequestsInv'
<1>1. Result(h)
  <2>1. CASE TurnDown(h) \/ Get(h)
    BY <2>1, OfTurnDown, OfGet
  <2>2. CASE Insert(h)
    BY <2>2, OfInsert
  <2>3. CASE WriteParent(h) \/ FailParent(h)
    BY <2>3, OfWriteParent, OfFailParent
  <2>4. CASE WriteRow(h) \/ FailRow(h)
    BY <2>4, OfWriteRow, OfFailRow
  <2>5. CASE Commit(h) \/ WriteNext(h)
    BY <2>5, OfCommit, OfWriteNext
  <2>6. CASE FailNext(h) \/ Unmake(h)
    BY <2>6, OfFailNext, OfUnmake
  <2>7. CASE Owned(h) \/ Check(h)
    BY <2>7, OfOwned, OfCheck
  <2>8. CASE Drop(h) \/ Undo(h)
    BY <2>8, OfDrop, OfUndo
  <2>9. CASE Erase(h) \/ FailErase(h)
    <3>1. hand[h].at = "erase" \/ hand[h].at = "undone"
      BY <2>9 DEF Erase, FailErase
    <3> QED BY <2>9, <3>1, OfErase, OfEraseUndone
  <2>10. CASE Change(h) \/ Save(h) \/ FailSave(h)
    BY <2>10, OfChange, OfSave
  <2> QED BY <2>1, <2>2, <2>3, <2>4, <2>5, <2>6, <2>7, <2>8, <2>9, <2>10 DEF Treats
<1> QED BY <1>1, TreatsAtWork, Preserved

\* What a request is routed to.
LEMMA Routed ==
    ASSUME NEW q, q.kind \in Kinds
    PROVE  /\ q.kind \notin {"update", "delete", "get"} =>
                 Route(q) = "refuse" \/ (Route(q) \in {"insert", "commit"} /\ Fits(q))
           /\ q.kind = "update" => Route(q) = "check"
           /\ q.kind \in {"delete", "get"} => Route(q) = "own"
<1>1. CASE q.kind \in {"prev_day_level", "structure_session", "hour_sweep_cisd", "sweep_confirm"}
  <2>1. Route(q) \in {PrevDayLevel(q), StructureSession(q), HourSweepCisd(q), SweepConfirm(q)}
    BY <1>1 DEF Route
  <2> QED BY <1>1, <2>1 DEF PrevDayLevel, StructureSession, HourSweepCisd, SweepConfirm, Valid
<1>2. CASE q.kind \in {"market_structure", "candle2_closure", "candle_close", "price"}
  <2>1. Route(q) \in {MarketStructure(q), Candle2Closure(q), CandleClose(q), Price(q)}
    BY <1>2 DEF Route
  <2> QED BY <1>2, <2>1 DEF MarketStructure, Candle2Closure, CandleClose, Price, Valid
<1>3. CASE q.kind = "fvg"
  <2>1. Route(q) = Fvg(q)
    BY <1>3 DEF Route
  <2> QED BY <1>3, <2>1 DEF Fvg, Valid
<1>4. CASE q.kind \in {"update", "delete", "get"}
  BY <1>4 DEF Route
<1> QED BY <1>1, <1>2, <1>3, <1>4 DEF Kinds

\* A handler that has just taken a request.
Begun(s, q) == /\ s.ask = q /\ s.n = 1 /\ s.row.after = None /\ s.other.after = None
               /\ s.at \in {"refuse", "insert", "commit", "check", "own"}
               /\ s.at \in {"refuse", "insert", "commit"} => Creation(q)
               /\ s.at \in {"insert", "commit"} => Fits(Ask[q])
               /\ s.at = "check" => Ask[q].kind = "update"
               /\ s.at = "own" => Ask[q].kind \in {"delete", "get"}
               /\ s \in HandType

\* That is what a handler has after it took one.
LEMMA BeginsSo ==
    ASSUME RequestsConstants, RequestsTypeOK, NEW h \in Handlers, NEW q \in Asks, Begin(h, q)
    PROVE  \E s : Begun(s, q) /\ hand' = [hand EXCEPT ![h] = s]
<1> DEFINE s == [at |-> Route(Ask[q]), ask |-> q, n |-> 1, id |-> None, row |-> Absent, other |-> Absent]
<1>1. hand' = [hand EXCEPT ![h] = s]
  <2> DEFINE r0 == [at |-> "ready", ask |-> None, n |-> 0, id |-> None, row |-> Absent, other |-> Absent]
             r1 == [at |-> "ready", ask |-> q, n |-> 0, id |-> None, row |-> Absent, other |-> Absent]
             r2 == [at |-> Route(Ask[q]), ask |-> q, n |-> 0, id |-> None, row |-> Absent, other |-> Absent]
  <2>1. Ready = r0
    BY DEF Ready
  <2>2. [r0 EXCEPT !.ask = q] = r1
    OBVIOUS
  <2>3. [r1 EXCEPT !.at = Route(Ask[q])] = r2
    OBVIOUS
  <2>4. [r2 EXCEPT !.n = 1] = s
    OBVIOUS
  <2>5. hand' = [hand EXCEPT ![h] = [Ready EXCEPT !.ask = q, !.at = Route(Ask[q]), !.n = 1]]
    BY DEF Begin
  <2> HIDE DEF r0, r1, r2, s
  <2> QED BY <2>1, <2>2, <2>3, <2>4, <2>5
<1>2. /\ Route(Ask[q]) \in {"refuse", "insert", "commit"} => Creation(q)
      /\ Route(Ask[q]) \in {"insert", "commit"} => Fits(Ask[q])
      /\ Route(Ask[q]) = "check" => Ask[q].kind = "update"
      /\ Route(Ask[q]) = "own" => Ask[q].kind \in {"delete", "get"}
      /\ Route(Ask[q]) \in {"refuse", "insert", "commit", "check", "own"}
  <2>1. Ask[q].kind \in Kinds
    BY DEF RequestsConstants
  <2> QED BY <2>1, Routed DEF Creation
<1>3. 1 \in 0..Cardinality(Alerts)
  <2>1. IsFiniteSet(Alerts) /\ Alerts # {}
    BY DEF RequestsConstants
  <2>2. Cardinality(Alerts) \in Nat /\ Cardinality(Alerts) # 0
    BY <2>1, FS_CardinalityType, FS_EmptySet
  <2> QED BY <2>2
<1>4. s \in HandType
  <2>1. Absent \in RowType
    BY OfAbsent
  <2> QED BY <1>2, <1>3, <2>1 DEF HandType, Ats
<1>5. Absent.after = None
  BY OfAbsent
<1>6. Begun(s, q)
  BY <1>2, <1>4, <1>5 DEF Begun
<1> QED BY <1>1, <1>6

\* To take a request breaks nothing either: what it creates is new.
LEMMA BeginKeeps ==
    ASSUME RequestsConstants, RequestsInv, NEW h \in Handlers, NEW q \in Asks, Begin(h, q)
    PROVE  RequestsInv'
<1>1. PICK s : Begun(s, q) /\ hand' = [hand EXCEPT ![h] = s]
  BY BeginsSo DEF RequestsInv, Basis
<1>2. /\ hand[h] = Ready /\ reply[q] = "none" /\ NotBegun(q, reply, hand)
      /\ cache' = cache /\ rows' = rows /\ reply' = reply /\ failures' = failures /\ crashes' = crashes /\ torn' = torn
  BY DEF Begin, NotBegun
<1>3. hand \in [Handlers -> HandType] /\ hand'[h] = s /\ \A g \in Handlers \ {h} : hand'[g] = hand[g]
  BY <1>1 DEF RequestsInv, Basis, RequestsTypeOK, HandType
<1>4. /\ s.ask = q /\ s.n = 1 /\ s.at # "ready" /\ s.at # "parent" /\ s.row.after = None /\ s.other.after = None
      /\ HoldsIn(s) = {} /\ Touches(s) = {}
  BY <1>1 DEF Begun, HoldsIn, Touches
<1>5. \A a \in Alerts : /\ Clear(a, cache, rows, hand) => Clear(a, cache', rows', hand')
                        /\ Unborn(a, cache, rows, hand) => Unborn(a, cache', rows', hand')
  <2> TAKE a \in Alerts
  <2>1. Clear(a, cache, rows, hand) => Clear(a, cache', rows', hand')
    BY <1>2, <1>3, <1>4 DEF Clear
  <2>2. a # None
    BY DEF RequestsConstants
  <2> QED BY <1>2, <1>3, <1>4, <2>1, <2>2 DEF Unborn
<1>6. \A r \in Asks : /\ Ask[r].ids \in Seq(Alerts) /\ Ask[r].ids # <<>> /\ r # None
                      /\ \A i \in 1..Len(Ask[r].ids) : Ask[r].ids[i] \in Alerts
  <2>1. \A r \in Asks : Ask[r].ids \in Seq(Alerts) /\ Ask[r].ids # <<>> /\ r # None
    BY DEF RequestsConstants
  <2> QED BY <2>1
<1>7. RequestsTypeOK'
  <2>1. hand' \in [Handlers -> HandType]
    BY <1>1, <1>3 DEF Begun
  <2> QED BY <1>2, <2>1 DEF RequestsInv, Basis, RequestsTypeOK, HandType
<1>8. HandsRight'
  <2>1. AtWork(s, reply)
    <3>1. 1 \in 1..Len(Ids(s))
      BY <1>4, <1>6 DEF Ids
    <3> QED BY <1>1, <1>2, <1>4, <3>1 DEF AtWork, Begun, Making
  <2>2. \A g \in Handlers : AtWork(hand'[g], reply')
    BY <1>2, <1>3, <2>1 DEF RequestsInv, Basis, HandsRight
  <2>3. \A g, k \in Handlers : g # k /\ hand'[g].at # "ready" => hand'[g].ask # hand'[k].ask
    <3>1. \A g \in Handlers : hand[g].ask # q
      BY <1>2 DEF NotBegun
    <3>2. \A g, k \in Handlers : g # k /\ hand[g].at # "ready" => hand[g].ask # hand[k].ask
      BY DEF RequestsInv, Basis, HandsRight
    <3> QED BY <1>3, <1>4, <3>1, <3>2
  <2> QED BY <2>2, <2>3 DEF HandsRight
<1>9. NewAreNew'
  <2>1. ASSUME NEW r \in Asks, Creation(r) PROVE Begins(r, cache', rows', hand', reply')
    <3> SUFFICES ASSUME NotBegun(r, reply', hand'), NEW i \in 1..Len(Ask[r].ids)
                 PROVE  Unborn(Ask[r].ids[i], cache', rows', hand')
      BY DEF Begins
    <3>1. NotBegun(r, reply, hand)
      BY <1>2, <1>3, <1>6, OfReady DEF NotBegun
    <3>2. Unborn(Ask[r].ids[i], cache, rows, hand)
      BY <2>1, <3>1 DEF RequestsInv, Basis, NewAreNew, Begins
    <3> QED BY <1>5, <1>6, <3>2
  <2>2. ASSUME NEW g \in Handlers PROVE Comes(hand'[g], cache', rows', hand')
    <3> SUFFICES ASSUME hand'[g].at # "ready", NEW i \in 1..Len(Ids(hand'[g])), Ahead(hand'[g], i)
                 PROVE  Unborn(Ids(hand'[g])[i], cache', rows', hand')
      BY DEF Comes
    <3>1. CASE g = h
      <4>1. Creation(q) /\ Ids(s) = Ask[q].ids
        BY <1>1, <1>3, <3>1 DEF Ahead, Begun, Ids
      <4>2. Unborn(Ask[q].ids[i], cache, rows, hand)
        BY <1>2, <1>3, <3>1, <4>1 DEF RequestsInv, Basis, NewAreNew, Begins
      <4> QED BY <1>3, <1>5, <1>6, <3>1, <4>1, <4>2
    <3>2. CASE g # h
      <4>1. Comes(hand[g], cache, rows, hand) /\ hand'[g] = hand[g] /\ hand[g].ask \in Asks
        BY <1>3, <3>2 DEF RequestsInv, Basis, NewAreNew, HandsRight, AtWork
      <4>2. Unborn(Ids(hand[g])[i], cache, rows, hand) /\ Ids(hand[g])[i] \in Alerts
        BY <1>6, <4>1 DEF Comes, Ids
      <4> QED BY <1>5, <4>1, <4>2
    <3> QED BY <3>1, <3>2
  <2> QED BY <2>1, <2>2 DEF NewAreNew
<1>10. \A g \in Handlers : HoldsIn(hand'[g]) = HoldsIn(hand[g])
  BY <1>2, <1>3, <1>4, OfReady
<1>11. OneHolder' /\ Agreed' /\ TextsFit'
  <2>1. OneHolder'
    BY <1>2, <1>10 DEF RequestsInv, OneHolder
  <2>2. Agreed'
    BY <1>2, <1>10 DEF RequestsInv, Agreed
  <2> QED BY <1>2, <2>1, <2>2 DEF RequestsInv, TextsFit
<1>12. HandsKnow'
  <2>1. Knows(s, cache, rows, torn)
    BY <1>1 DEF Knows, Begun
  <2> QED BY <1>2, <1>3, <2>1 DEF RequestsInv, HandsKnow
<1>13. ChainsMatch'
  <2>1. \A a, p : IsDue(a, p, hand') <=> IsDue(a, p, hand)
    BY <1>2, <1>3, <1>4, OfReady DEF IsDue
  <2>2. \A a \in Alerts \ torn : Chained(a, cache, rows, hand, torn)
    BY DEF RequestsInv, ChainsMatch
  <2>3. \A a \in Alerts \ torn : Chained(a, cache, rows, hand', torn)
    BY <2>1, <2>2 DEF Chained, Linked
  <2> QED BY <1>2, <2>3 DEF ChainsMatch
<1>14. RepliesRight'
  <2> SUFFICES ASSUME NEW r \in Asks, Creation(r) PROVE Answered(r, cache', rows', hand', torn', reply')
    BY DEF RepliesRight
  <2>1. Answered(r, cache, rows, hand, torn, reply)
    BY DEF RequestsInv, RepliesRight
  <2> QED BY <1>2, <1>5, <1>6, <2>1 DEF Answered, Made, Gone
<1>15. CreationsRight'
  <2> SUFFICES ASSUME NEW g \in Handlers PROVE Progress(hand'[g], cache', rows', hand', torn')
    BY DEF CreationsRight
  <2>1. CASE g = h
    BY <1>1, <1>3, <2>1 DEF Begun, Progress, Before, After
  <2>2. CASE g # h
    <3> DEFINE u == hand[g]
    <3>1. hand'[g] = u /\ Progress(u, cache, rows, hand, torn) /\ (u.at # "ready" => u.ask \in Asks)
      BY <1>3, <2>2 DEF RequestsInv, Basis, HandsRight, AtWork, CreationsRight
    <3>2. u.at # "ready" => \A i \in 1..Len(Ids(u)) : Ids(u)[i] \in Alerts
      BY <1>6, <3>1 DEF Ids
    <3>3. \A a \in Alerts : /\ Gone(a, cache, rows, hand, torn) => Gone(a, cache', rows', hand', torn')
                            /\ Made(a, cache, rows) => Made(a, cache', rows')
      BY <1>2, <1>5 DEF Gone, Made
    <3> HIDE DEF u
    <3> QED BY <1>2, <3>1, <3>2, <3>3 DEF Progress
  <2> QED BY <2>1, <2>2
<1>16. ReadsRight'
  BY <1>2 DEF RequestsInv, ReadsRight
<1> QED BY <1>7, <1>8, <1>9, <1>11, <1>12, <1>13, <1>14, <1>15, <1>16 DEF RequestsInv, Basis

\* After a restart the cache is the table, and nobody has anything in hand.
LEMMA RestartKeeps ==
    ASSUME RequestsConstants, RequestsInv, Restart
    PROVE  RequestsInv'
<1>1. /\ cache' = rows /\ rows' = rows /\ failures' = failures /\ torn' = torn
      /\ crashes < MaxCrashes /\ crashes' = crashes + 1 /\ hand' = [h \in Handlers |-> Ready]
      /\ reply' = [q \in Asks |-> IF \E h \in Handlers : hand[h].ask = q THEN "lost" ELSE reply[q]]
  BY DEF Restart
<1>2. /\ RequestsTypeOK /\ NewAreNew /\ rows \in [Alerts -> RowType] /\ None \notin Alerts \cup Asks
      /\ \A h \in Handlers : hand'[h] = Ready
  BY <1>1 DEF RequestsInv, Basis, RequestsTypeOK, RequestsConstants
<1>3. \A q \in Asks : /\ reply'[q] = reply[q] \/ reply'[q] = "lost"
                      /\ reply'[q] = "none" => NotBegun(q, reply, hand)
  BY <1>1 DEF NotBegun
<1>4. \A q \in Asks : \A i \in 1..Len(Ask[q].ids) : Ask[q].ids[i] \in Alerts
  BY DEF RequestsConstants
<1>5. RequestsTypeOK'
  <2>1. hand' \in [Handlers -> HandType]
    <3>1. Cardinality(Alerts) \in Nat
      BY FS_CardinalityType DEF RequestsConstants
    <3>2. Absent \in RowType
      BY OfAbsent
    <3>3. Ready \in HandType
      BY <3>1, <3>2 DEF HandType, Ready, Ats
    <3> QED BY <1>1, <3>3
  <2>2. reply' \in [Asks -> Replies]
    <3>1. \A q \in Asks : reply[q] \in Replies
      BY <1>2 DEF RequestsTypeOK
    <3> QED BY <1>1, <3>1 DEF Replies
  <2>3. crashes' \in 0..MaxCrashes
    BY <1>1, <1>2 DEF RequestsTypeOK, RequestsConstants
  <2> QED BY <1>1, <1>2, <2>1, <2>2, <2>3 DEF RequestsTypeOK, HandType
<1>6. HandsRight'
  BY <1>2, OfReady DEF HandsRight, AtWork, Making
<1>7. \A a \in Alerts : /\ Clear(a, cache, rows, hand) => Clear(a, cache', rows', hand')
                        /\ Unborn(a, cache, rows, hand) => Unborn(a, cache', rows', hand')
  <2> TAKE a \in Alerts
  <2>1. Clear(a, cache, rows, hand) => Clear(a, cache', rows', hand')
    BY <1>1, <1>2, OfReady DEF Clear
  <2>2. a # None
    BY <1>2
  <2> QED BY <1>1, <1>2, <2>1, <2>2, OfReady DEF Unborn
<1>8. NewAreNew'
  <2>1. ASSUME NEW q \in Asks, Creation(q) PROVE Begins(q, cache', rows', hand', reply')
    <3> SUFFICES ASSUME NotBegun(q, reply', hand'), NEW i \in 1..Len(Ask[q].ids)
                 PROVE  Unborn(Ask[q].ids[i], cache', rows', hand')
      BY DEF Begins
    <3>1. NotBegun(q, reply, hand)
      BY <1>3 DEF NotBegun
    <3>2. Unborn(Ask[q].ids[i], cache, rows, hand)
      BY <1>2, <2>1, <3>1 DEF NewAreNew, Begins
    <3> QED BY <1>4, <1>7, <3>2
  <2>2. \A h \in Handlers : Comes(hand'[h], cache', rows', hand')
    BY <1>2, OfReady DEF Comes
  <2> QED BY <2>1, <2>2 DEF NewAreNew
<1>9. OneHolder' /\ Agreed' /\ TextsFit'
  <2>1. OneHolder'
    BY <1>2, OfReady DEF OneHolder
  <2> QED BY <1>1, <2>1 DEF RequestsInv, Agreed, TextsFit
<1>10. HandsKnow' /\ CreationsRight'
  BY <1>2, OfReady DEF HandsKnow, CreationsRight
<1>11. ChainsMatch'
  <2> SUFFICES ASSUME NEW a \in Alerts \ torn PROVE Chained(a, rows, rows, hand', torn)
    BY <1>1 DEF ChainsMatch
  <2>1. Chained(a, cache, rows, hand, torn)
    BY DEF RequestsInv, ChainsMatch
  <2> QED BY <2>1 DEF Chained, Linked
<1>12. RepliesRight'
  <2> SUFFICES ASSUME NEW q \in Asks, Creation(q) PROVE Answered(q, cache', rows', hand', torn', reply')
    BY DEF RepliesRight
  <2>1. Answered(q, cache, rows, hand, torn, reply)
    BY DEF RequestsInv, RepliesRight
  <2> QED BY <1>1, <1>3, <1>4, <1>7, <2>1 DEF Answered, Made, Gone
<1>13. ReadsRight'
  BY <1>1, <1>3 DEF RequestsInv, ReadsRight
<1> QED BY <1>5, <1>6, <1>8, <1>9, <1>10, <1>11, <1>12, <1>13 DEF RequestsInv, Basis

\* At the start there is one alert, which waits for none.
LEMMA InvStart ==
    ASSUME RequestsConstants, RequestsInit
    PROVE  RequestsInv
<1> DEFINE old == Row(None, None, FALSE, TRUE)
<1>1. /\ \A a \in Alerts : cache[a] = (IF a = First THEN old ELSE Absent)
      /\ rows = cache /\ hand = [h \in Handlers |-> Ready] /\ reply = [q \in Asks |-> "none"]
      /\ failures = 0 /\ crashes = 0 /\ torn = {}
  BY DEF RequestsInit
<1>2. \A h \in Handlers : hand[h] = Ready
  BY <1>1
<1>3. old \in RowType /\ old.after = None /\ HasText(old)
  <2>1. \A b, d \in BOOLEAN : [live |-> d, chain |-> None, after |-> None, text |-> b, msg |-> d] \in RowType
    BY DEF RowType
  <2>2. old = [live |-> TRUE, chain |-> None, after |-> None, text |-> FALSE, msg |-> TRUE]
    BY DEF Row
  <2>3. old \in RowType
    BY <2>1, <2>2, Zenon
  <2>4. old.after = None /\ ~old.text
    BY DEF Row
  <2> QED BY <2>3, <2>4 DEF HasText, Fits
<1>4. \A a \in Alerts : cache[a] \in RowType /\ cache[a].after = None /\ HasText(cache[a])
  <2> HIDE DEF old
  <2> QED BY <1>1, <1>3, OfAbsent
<1> HIDE DEF old
<1>5. None \notin Alerts \cup Asks /\ \A q \in Asks : \A i \in 1..Len(Ask[q].ids) :
        Ask[q].ids[i] \in Alerts /\ (Creation(q) => Ask[q].ids[i] # First)
  <2>1. \A q \in Asks : Ask[q].ids \in Seq(Alerts) /\ (Creation(q) => First \notin Range(Ask[q].ids))
    BY DEF RequestsConstants
  <2>2. \A q \in Asks : \A i \in 1..Len(Ask[q].ids) : Ask[q].ids[i] \in Range(Ask[q].ids)
    BY <2>1 DEF Range
  <2>3. None \notin Alerts \cup Asks
    BY DEF RequestsConstants
  <2> QED BY <2>1, <2>2, <2>3
<1>6. RequestsTypeOK
  <2>1. hand \in [Handlers -> HandType]
    <3>1. Cardinality(Alerts) \in Nat
      BY FS_CardinalityType DEF RequestsConstants
    <3>2. Ready \in HandType
      BY <3>1, OfAbsent DEF HandType, Ready, Ats
    <3> QED BY <1>1, <3>2
  <2>2. cache \in [Alerts -> RowType]
    BY <1>4 DEF RequestsInit
  <2>3. reply \in [Asks -> Replies]
    BY <1>1 DEF Replies
  <2>4. 0 \in 0..MaxFailures /\ 0 \in 0..MaxCrashes
    BY DEF RequestsConstants
  <2> QED BY <1>1, <2>1, <2>2, <2>3, <2>4 DEF RequestsTypeOK, HandType
<1>7. HandsRight
  BY <1>2, OfReady DEF HandsRight, AtWork, Making
<1>8. NewAreNew
  <2>1. ASSUME NEW q \in Asks, Creation(q), NEW i \in 1..Len(Ask[q].ids)
        PROVE  Unborn(Ask[q].ids[i], cache, rows, hand)
    <3> DEFINE a == Ask[q].ids[i]
    <3>1. a \in Alerts /\ a # None /\ cache[a] = Absent
      BY <1>1, <1>5, <2>1
    <3> HIDE DEF a
    <3>2. Unborn(a, cache, rows, hand)
      BY <1>1, <1>2, <1>4, <3>1, OfReady DEF Unborn, Clear
    <3> QED BY <3>2 DEF a
  <2>2. \A h \in Handlers : Comes(hand[h], cache, rows, hand)
    BY <1>2, OfReady DEF Comes
  <2> QED BY <2>1, <2>2 DEF NewAreNew, Begins
<1>9. OneHolder /\ Agreed /\ TextsFit
  <2>1. OneHolder
    BY <1>2, OfReady DEF OneHolder
  <2> QED BY <1>1, <1>4, <2>1 DEF Agreed, TextsFit
<1>10. HandsKnow /\ CreationsRight
  BY <1>2, OfReady DEF HandsKnow, CreationsRight
<1>11. ChainsMatch
  BY <1>1, <1>4, <1>5 DEF ChainsMatch, Chained, Waits
<1>12. RepliesRight /\ ReadsRight
  BY <1>1 DEF RepliesRight, Answered, ReadsRight
<1> QED BY <1>6, <1>7, <1>8, <1>9, <1>10, <1>11, <1>12 DEF RequestsInv, Basis

\* Only creations are answered that they are made.
CreationsOnly == \A q \in Asks : reply[q] = "made" => Creation(q)

\* No step of a handler says so of another request.
LEMMA MadeOnly ==
    ASSUME RequestsConstants, RequestsInv, CreationsOnly, NEW h \in Handlers, Treats(h)
    PROVE  CreationsOnly'
<1> DEFINE Same == \A q \in Asks : reply'[q] = "made" => reply[q] = "made" \/ (q = hand[h].ask /\ Creation(q))
<1>0. /\ reply \in [Asks -> Replies]
      /\ hand[h].at \in Making => Creation(hand[h].ask)
  <2>1. hand[h].at # "ready"
    BY TreatsAtWork
  <2> QED BY <2>1, Working DEF AtWork
<1>1. \A r : Answer(h, r) /\ r # "made" => Same
  BY <1>0 DEF Answer
<1>2. Answer(h, "made") /\ hand[h].at \in Making => Same
  BY <1>0 DEF Answer
<1>3. reply' = reply => Same
  OBVIOUS
<1> HIDE DEF Same
<1>4. GiveUp(h) => Same
  BY <1>1, <1>3 DEF GiveUp
<1>5. Same
  <2>1. CASE TurnDown(h) \/ Insert(h) \/ WriteParent(h) \/ FailParent(h)
    BY <1>1, <1>3, <1>4, <2>1 DEF TurnDown, Insert, WriteParent, FailParent
  <2>2. CASE WriteRow(h) \/ FailRow(h)
    BY <1>2, <1>3, <1>4, <2>2 DEF WriteRow, FailRow, Making
  <2>3. CASE Commit(h) \/ WriteNext(h) \/ FailNext(h) \/ Unmake(h)
    BY <1>1, <1>2, <1>3, <2>3 DEF Commit, WriteNext, FailNext, Unmake, Making
  <2>4. CASE Owned(h) \/ Drop(h) \/ Undo(h) \/ Erase(h) \/ FailErase(h)
    BY <1>1, <1>3, <1>4, <2>4 DEF Owned, Drop, Undo, Erase, FailErase, Settle, TakeOut
  <2>5. CASE Get(h) \/ Check(h) \/ Change(h) \/ Save(h) \/ FailSave(h)
    BY <1>1, <1>3, <2>5 DEF Get, Check, Change, Save, FailSave
  <2> QED BY <2>1, <2>2, <2>3, <2>4, <2>5, SMTT(30) DEF Treats
<1> QED BY <1>5 DEF Same, CreationsOnly

\* Every step keeps the invariant,
LEMMA RequestsStep ==
    ASSUME RequestsConstants, RequestsInv, CreationsOnly, [RequestsNext]_requests
    PROVE  RequestsInv' /\ CreationsOnly'
<1>1. CASE Restart
  <2>1. CreationsOnly'
    BY <1>1 DEF Restart, CreationsOnly
  <2> QED BY <1>1, <2>1, RestartKeeps
<1>2. ASSUME NEW h \in Handlers, NEW q \in Asks, Begin(h, q) PROVE RequestsInv' /\ CreationsOnly'
  <2>1. reply' = reply
    BY <1>2 DEF Begin
  <2> QED BY <1>2, <2>1, BeginKeeps DEF CreationsOnly
<1>3. ASSUME NEW h \in Handlers, Treats(h) PROVE RequestsInv' /\ CreationsOnly'
  BY <1>3, TreatsKeeps, MadeOnly
<1>4. CASE UNCHANGED requests
  <2>1. /\ cache' = cache /\ rows' = rows /\ hand' = hand /\ reply' = reply
        /\ failures' = failures /\ crashes' = crashes /\ torn' = torn
    BY <1>4 DEF requests
  <2>2. Basis'
    BY <2>1 DEF RequestsInv, Basis, RequestsTypeOK, HandsRight, NewAreNew
  <2>3. OneHolder' /\ Agreed' /\ HandsKnow' /\ TextsFit' /\ ChainsMatch'
    BY <2>1 DEF RequestsInv, OneHolder, Agreed, HandsKnow, TextsFit, ChainsMatch
  <2>4. RepliesRight' /\ CreationsRight' /\ ReadsRight' /\ CreationsOnly'
    BY <2>1 DEF RequestsInv, RepliesRight, CreationsRight, ReadsRight, CreationsOnly
  <2> QED BY <2>2, <2>3, <2>4 DEF RequestsInv
<1>5. RequestsNext => Restart \/ \E h \in Handlers : (\E q \in Asks : Begin(h, q)) \/ Treats(h)
  BY DEF RequestsNext, Step, Treats
<1> QED BY <1>1, <1>2, <1>3, <1>4, <1>5

\* and what requests are promised follows from it.
LEMMA RequestsFollow ==
    ASSUME RequestsConstants, RequestsInv, CreationsOnly
    PROVE  RequestsKept
<1>1. \A q \in Asks : /\ Range(Ask[q].ids) \subseteq Alerts
                      /\ \A a \in Range(Ask[q].ids) : \E i \in 1..Len(Ask[q].ids) : a = Ask[q].ids[i]
  <2>1. \A q \in Asks : Ask[q].ids \in Seq(Alerts)
    BY DEF RequestsConstants
  <2> QED BY <2>1 DEF Range
<1>2. SameAtRest
  BY OfReady DEF RequestsInv, Agreed, SameAtRest
<1>3. NothingIsLeft
  <2> SUFFICES ASSUME NEW q \in Asks, Refused(q), NEW a \in (Range(Ask[q].ids) \ torn) \ Deleted
               PROVE  ~cache[a].live /\ ~rows[a].live
    BY DEF NothingIsLeft
  <2>1. PICK i \in 1..Len(Ask[q].ids) : a = Ask[q].ids[i]
    BY <1>1
  <2>2. Gone(a, cache, rows, hand, torn)
    BY <2>1 DEF RequestsInv, RepliesRight, Answered, Refused
  <2> QED BY <2>2, OfAbsent DEF Gone, Clear
<1>4. MadeIsKept
  <2> SUFFICES ASSUME NEW q \in Asks, reply[q] = "made", NEW a \in Range(Ask[q].ids) \ Deleted
               PROVE  rows[a].live
    BY DEF MadeIsKept
  <2>1. PICK i \in 1..Len(Ask[q].ids) : a = Ask[q].ids[i]
    BY <1>1
  <2>2. Made(a, cache, rows)
    BY <2>1 DEF RequestsInv, RepliesRight, Answered, CreationsOnly
  <2> QED BY <2>2 DEF Made
<1>5. OneChain
  <2> SUFFICES ASSUME NEW a \in Alerts \ torn, rows[a].live, rows[a].after # None, rows[a].after \notin torn,
                      rows[rows[a].after].live
               PROVE  /\ rows[rows[a].after].chain = rows[a].chain
                      /\ cache[rows[a].after].live => cache[rows[a].after].chain = rows[a].chain
    BY DEF OneChain
  <2>1. rows[a].after \in Alerts
    BY DEF RequestsInv, Basis, RequestsTypeOK, RowType
  <2>2. Chained(a, cache, rows, hand, torn)
    BY DEF RequestsInv, ChainsMatch
  <2> QED BY <2>1, <2>2 DEF Chained, Waits, Linked
<1>6. TextForSms /\ ReadIsDefined
  BY DEF RequestsInv, TextsFit, HasText, TextForSms, ReadsRight, ReadIsDefined
<1> QED BY <1>2, <1>3, <1>4, <1>5, <1>6 DEF RequestsInv, Basis, RequestsKept

\* When no handler is at work the cache and the table agree; a refused creation leaves
\* nothing behind and a confirmed one is in the table; steps are of one chain, texts are there
\* for SMS, and a read is answered with the alert: what Routes.cc tells its callers of
\* persistAlertSync, createDrawAlertBatch, commitCreatedAlerts, applyDependsOnLocked,
\* updateAlert and getAlert, for any requests made at once, failed writes and restarts.
THEOREM RequestsAreKept ==
    ASSUME RequestsConstants
    PROVE  RequestsSpec => []RequestsKept
<1>1. RequestsInit => RequestsInv /\ CreationsOnly
  BY InvStart DEF RequestsInit, CreationsOnly
<1>2. RequestsInv /\ CreationsOnly /\ [RequestsNext]_requests => RequestsInv' /\ CreationsOnly'
  BY RequestsStep
<1>3. RequestsInv /\ CreationsOnly => RequestsKept
  BY RequestsFollow
<1> QED BY <1>1, <1>2, <1>3, PTL DEF RequestsSpec

-----------------------------------------------------------------------------
(* The plan *)

\* The notifications of a channel at a stage, and the places of k restarts.
Standing(f, stage, c) == {s \in Sends : f[s].at = stage /\ f[s].channel = c}
Staged(stage, c) == Standing(send, stage, c)
Places(k) == Cardinality(Sends) * k

\* Who is under way has a channel.
HasChannel == \A s \in Sends : send[s].at # "idle" => send[s].channel \in Channels

\* Below the limit the counter is behind by those that are taken, were lost or lapsed.
CounterBehind(c) ==
    used[c] < Limit =>
        sent[c] <= used[c] + Cardinality(Staged("taken", c)) + Places(restarts) + lapses

\* What went out and is going out.
OutAtMost(c) ==
    sent[c] + Cardinality(Staged("out", c)) <= Limit - 1 + Places(restarts + 1) + lapses

\* What the other requests may have let through, and the alerts there may be besides.
Room == MaxBatch * (Cardinality(Creates) - 1)
Had == before + MaxBatch
Allowance == MaxAlerts + 1 + steps
Larger(x, y) == IF x > y THEN x ELSE y
Most == Larger(Had, Allowance)

\* The alerts there are, and those that are sure to come; the steps were counted.
AlertsAtMost == tier = "free" => Open + Cardinality(making) <= Most + Room + returns
StepsCounted == alerts["waiting"] <= steps

SendInv == HasChannel /\ \A c \in Channels : CounterBehind(c) /\ OutAtMost(c)
QuotaInv == QuotaTypeOK /\ SendInv /\ StepsCounted /\ AlertsAtMost

-----------------------------------------------------------------------------
(* Counting *)

\* The places of one restart more.
LEMMA PlacesGrow ==
    ASSUME NEW k \in Nat
    PROVE  /\ Cardinality(Sends) \in Nat
           /\ Places(k) \in Nat /\ Places(k + 1) = Places(k) + Cardinality(Sends)
<1>1. Cardinality(Sends) \in Nat
  BY FS_CardinalityType, QuotaAssumption
<1>2. Cardinality(Sends) * k \in Nat /\ Cardinality(Sends) * (k + 1) = Cardinality(Sends) * k + Cardinality(Sends)
  BY <1>1
<1> QED
  BY <1>1, <1>2 DEF Places

\* A stage holds a number of notifications.
LEMMA StageCounts ==
    ASSUME NEW f, NEW stage, NEW c
    PROVE  IsFiniteSet(Standing(f, stage, c)) /\ Cardinality(Standing(f, stage, c)) \in Nat
           /\ Cardinality(Standing(f, stage, c)) <= Cardinality(Sends)
<1>1. Standing(f, stage, c) \in SUBSET Sends
  BY DEF Standing
<1>2. IsFiniteSet(Standing(f, stage, c)) /\ Cardinality(Standing(f, stage, c)) <= Cardinality(Sends)
  BY <1>1, FS_Subset, QuotaAssumption
<1> QED
  BY <1>2, FS_CardinalityType

\* The stage of one notification changes: it stays where it was, comes or goes.
LEMMA StageMoves ==
    ASSUME NEW f, NEW g, NEW s \in Sends, \A t \in Sends \ {s} : g[t] = f[t],
           NEW stage, NEW c
    PROVE  LET old == Standing(f, stage, c)
               new == Standing(g, stage, c)
           IN  /\ s \notin old /\ s \notin new => Cardinality(new) = Cardinality(old)
               /\ s \in old /\ s \in new => Cardinality(new) = Cardinality(old)
               /\ s \notin old /\ s \in new => Cardinality(new) = Cardinality(old) + 1
               /\ s \in old /\ s \notin new => Cardinality(new) = Cardinality(old) - 1
<1> DEFINE T == Standing(f, stage, c)
<1>1. IsFiniteSet(T) /\ Cardinality(T) \in Nat
  BY StageCounts
<1>2. Standing(g, stage, c) = IF s \in Standing(g, stage, c) THEN T \cup {s} ELSE T \ {s}
  BY DEF Standing
<1>3. Cardinality(T \cup {s}) = IF s \in T THEN Cardinality(T) ELSE Cardinality(T) + 1
  BY <1>1, FS_AddElement
<1>4. Cardinality(T \ {s}) = IF s \in T THEN Cardinality(T) - 1 ELSE Cardinality(T)
  BY <1>1, FS_RemoveElement
<1> QED
  BY <1>1, <1>2, <1>3, <1>4

\* Who has only read the plan is neither out nor taken.
LEMMA RoomForOne ==
    ASSUME NEW s \in Sends, send[s].at = "planned", NEW c
    PROVE  Cardinality(Staged("out", c)) + Cardinality(Staged("taken", c)) + 1 <= Cardinality(Sends)
<1> DEFINE O == Staged("out", c)
           T == Staged("taken", c)
<1>1. /\ IsFiniteSet(O) /\ Cardinality(O) \in Nat
      /\ IsFiniteSet(T) /\ Cardinality(T) \in Nat
  BY StageCounts DEF Staged
<1>2. O \cap T = {} /\ s \notin O \cup T /\ (O \cup T) \cup {s} \in SUBSET Sends
  BY DEF Staged, Standing
<1>3. IsFiniteSet(O \cup T) /\ Cardinality(O \cup T) = Cardinality(O) + Cardinality(T)
  <2>1. IsFiniteSet(O \cup T)
        /\ Cardinality(O \cup T) = Cardinality(O) + Cardinality(T) - Cardinality(O \cap T)
    BY <1>1, FS_Union
  <2>2. Cardinality(O \cap T) = 0
    BY <1>2, FS_EmptySet
  <2> QED
    BY <1>1, <2>1, <2>2
<1>4. Cardinality((O \cup T) \cup {s}) = Cardinality(O) + Cardinality(T) + 1
  BY <1>1, <1>2, <1>3, FS_AddElement
<1>5. Cardinality((O \cup T) \cup {s}) <= Cardinality(Sends)
  BY <1>2, FS_Subset, QuotaAssumption
<1> QED
  BY <1>4, <1>5

-----------------------------------------------------------------------------
(* Notifications *)

\* What does not touch notifications keeps what is known of them.
LEMMA SendsStay ==
    ASSUME SendInv, UNCHANGED <<used, sent, lapses, send, restarts>>
    PROVE  SendInv'
BY DEF SendInv, HasChannel, CounterBehind, OutAtMost, Staged, Standing, Places

\* One notification is at another stage, the others are not.
Moving(s, at) == /\ send'[s].at = at
                 /\ at # "idle" => send'[s].channel \in Channels
                 /\ at \in {"out", "taken"} => send'[s].channel = send[s].channel
                 /\ \A t \in Sends \ {s} : send'[t] = send[t]

\* Everybody on the way still has a channel.
LEMMA ChannelsStay ==
    ASSUME SendInv, NEW s \in Sends, NEW at, Moving(s, at)
    PROVE  HasChannel'
BY DEF SendInv, HasChannel, Moving

\* The stages it neither leaves nor enters, the one it leaves and the one it enters.
LEMMA StageStays ==
    ASSUME NEW s \in Sends, NEW at, Moving(s, at), NEW stage, NEW c,
           s \notin Standing(send, stage, c), s \notin Standing(send', stage, c)
    PROVE  /\ Cardinality(Standing(send, stage, c)) \in Nat
           /\ Cardinality(Standing(send', stage, c)) = Cardinality(Standing(send, stage, c))
<1>1. \A t \in Sends \ {s} : send'[t] = send[t]
  BY DEF Moving
<1> QED
  BY <1>1, StageMoves, StageCounts
LEMMA StageLeft ==
    ASSUME NEW s \in Sends, NEW at, Moving(s, at), NEW stage, NEW c,
           s \in Standing(send, stage, c), s \notin Standing(send', stage, c)
    PROVE  /\ Cardinality(Standing(send, stage, c)) \in Nat
           /\ Cardinality(Standing(send', stage, c)) = Cardinality(Standing(send, stage, c)) - 1
<1>1. \A t \in Sends \ {s} : send'[t] = send[t]
  BY DEF Moving
<1> QED
  BY <1>1, StageMoves, StageCounts
LEMMA StageEntered ==
    ASSUME NEW s \in Sends, NEW at, Moving(s, at), NEW stage, NEW c,
           s \notin Standing(send, stage, c), s \in Standing(send', stage, c)
    PROVE  /\ Cardinality(Standing(send, stage, c)) \in Nat
           /\ Cardinality(Standing(send', stage, c)) = Cardinality(Standing(send, stage, c)) + 1
<1>1. \A t \in Sends \ {s} : send'[t] = send[t]
  BY DEF Moving
<1> QED
  BY <1>1, StageMoves, StageCounts

\* The numbers of a channel, those that wait for their count among them.
LEMMA ChannelNumbers ==
    ASSUME QuotaTypeOK, SendInv, NEW c \in Channels
    PROVE  /\ sent[c] \in Nat /\ used[c] \in Nat /\ Limit \in Nat \ {0} /\ lapses \in Nat
           /\ Cardinality(Standing(send, "out", c)) \in Nat
           /\ Cardinality(Standing(send, "taken", c)) \in Nat
           /\ Places(restarts) \in Nat /\ Places(restarts + 1) = Places(restarts) + Cardinality(Sends)
           /\ Cardinality(Sends) \in Nat
           /\ used[c] < Limit => sent[c] <= used[c] + Cardinality(Standing(send, "taken", c))
                                               + Places(restarts) + lapses
           /\ sent[c] + Cardinality(Standing(send, "out", c)) <= Limit - 1 + Places(restarts + 1) + lapses
<1>1. restarts \in Nat /\ lapses \in Nat /\ sent[c] \in Nat /\ used[c] \in Nat
  BY DEF QuotaTypeOK
<1>2. CounterBehind(c) /\ OutAtMost(c)
  BY DEF SendInv
<1> QED
  BY <1>1, <1>2, PlacesGrow, StageCounts, QuotaAssumption DEF CounterBehind, OutAtMost, Staged

\* A notification goes back, or forward without going out or being taken.
LEMMA SendsMove ==
    ASSUME QuotaTypeOK, SendInv, UNCHANGED <<used, sent, lapses, restarts>>,
           NEW s \in Sends, NEW at \in {"idle", "planned"}, Moving(s, at), send[s].at # "taken"
    PROVE  SendInv'
<1>1. ASSUME NEW c \in Channels
      PROVE  (CounterBehind(c) /\ OutAtMost(c))'
  <2>1. s \notin Standing(send', "taken", c) /\ s \notin Standing(send', "out", c)
        /\ s \notin Standing(send, "taken", c)
    BY DEF Standing, Moving
  <2>2. Cardinality(Standing(send', "taken", c)) = Cardinality(Standing(send, "taken", c))
    BY <2>1, StageStays
  <2>3. \/ Cardinality(Standing(send', "out", c)) = Cardinality(Standing(send, "out", c))
        \/ Cardinality(Standing(send', "out", c)) = Cardinality(Standing(send, "out", c)) - 1
    BY <2>1, StageStays, StageLeft
  <2> QED
    BY <2>2, <2>3, ChannelNumbers DEF CounterBehind, OutAtMost, Staged
<1> QED
  BY <1>1, ChannelsStay DEF SendInv

\* A notification goes out after it has read a counter below the limit, or none.
LEMMA SendsGoOut ==
    ASSUME QuotaTypeOK, SendInv, UNCHANGED <<used, sent, restarts>>,
           NEW s \in Sends, Moving(s, "out"), send[s].at = "planned",
           \/ used[send[s].channel] < Limit /\ lapses' = lapses
           \/ lapses' = lapses + 1
    PROVE  SendInv'
<1>1. ASSUME NEW c \in Channels
      PROVE  (CounterBehind(c) /\ OutAtMost(c))'
  <2>1. s \notin Standing(send', "taken", c) /\ s \notin Standing(send, "taken", c)
        /\ s \notin Standing(send, "out", c)
    BY DEF Standing, Moving
  <2>2. Cardinality(Standing(send', "taken", c)) = Cardinality(Standing(send, "taken", c))
    BY <2>1, StageStays
  <2>3. CASE send[s].channel = c
    <3>1. s \in Standing(send', "out", c)
      BY <2>3 DEF Standing, Moving
    <3>2. Cardinality(Standing(send', "out", c)) = Cardinality(Standing(send, "out", c)) + 1
      BY <2>1, <3>1, StageEntered
    <3>3. Cardinality(Standing(send, "out", c)) + Cardinality(Standing(send, "taken", c)) + 1 <= Cardinality(Sends)
      BY RoomForOne DEF Staged
    <3> QED
      BY <2>2, <2>3, <3>2, <3>3, ChannelNumbers DEF CounterBehind, OutAtMost, Staged
  <2>4. CASE send[s].channel # c
    <3>1. s \notin Standing(send', "out", c)
      BY <2>4 DEF Standing, Moving
    <3>2. Cardinality(Standing(send', "out", c)) = Cardinality(Standing(send, "out", c))
      BY <2>1, <3>1, StageStays
    <3> QED
      BY <2>2, <3>2, ChannelNumbers DEF CounterBehind, OutAtMost, Staged
  <2> QED
    BY <2>3, <2>4
<1> QED
  BY <1>1, ChannelsStay DEF SendInv

\* The provider takes it.
LEMMA SendsTaken ==
    ASSUME QuotaTypeOK, SendInv, UNCHANGED <<used, lapses, restarts>>,
           NEW s \in Sends, Moving(s, "taken"), send[s].at = "out",
           \A c \in Channels : sent'[c] = IF c = send[s].channel THEN sent[c] + 1 ELSE sent[c]
    PROVE  SendInv'
<1>1. ASSUME NEW c \in Channels
      PROVE  (CounterBehind(c) /\ OutAtMost(c))'
  <2>1. s \notin Standing(send', "out", c) /\ s \notin Standing(send, "taken", c)
    BY DEF Standing, Moving
  <2>2. CASE send[s].channel = c
    <3>1. s \in Standing(send, "out", c) /\ s \in Standing(send', "taken", c)
      BY <2>2 DEF Standing, Moving
    <3>2. Cardinality(Standing(send', "out", c)) = Cardinality(Standing(send, "out", c)) - 1
      BY <2>1, <3>1, StageLeft
    <3>3. Cardinality(Standing(send', "taken", c)) = Cardinality(Standing(send, "taken", c)) + 1
      BY <2>1, <3>1, StageEntered
    <3>4. sent'[c] = sent[c] + 1
      BY <2>2
    <3> QED
      BY <3>2, <3>3, <3>4, ChannelNumbers DEF CounterBehind, OutAtMost, Staged
  <2>3. CASE send[s].channel # c
    <3>1. s \notin Standing(send, "out", c) /\ s \notin Standing(send', "taken", c)
      BY <2>3 DEF Standing, Moving
    <3>2. Cardinality(Standing(send', "out", c)) = Cardinality(Standing(send, "out", c))
          /\ Cardinality(Standing(send', "taken", c)) = Cardinality(Standing(send, "taken", c))
      BY <2>1, <3>1, StageStays
    <3>3. sent'[c] = sent[c]
      BY <2>3
    <3> QED
      BY <3>2, <3>3, ChannelNumbers DEF CounterBehind, OutAtMost, Staged
  <2> QED
    BY <2>2, <2>3
<1> QED
  BY <1>1, ChannelsStay DEF SendInv

\* It is taken and nobody hears of it.
LEMMA SendsLost ==
    ASSUME QuotaTypeOK, SendInv, UNCHANGED <<used, restarts>>, lapses' = lapses + 1,
           NEW s \in Sends, Moving(s, "idle"), send[s].at = "out",
           \A c \in Channels : sent'[c] = IF c = send[s].channel THEN sent[c] + 1 ELSE sent[c]
    PROVE  SendInv'
<1>1. ASSUME NEW c \in Channels
      PROVE  (CounterBehind(c) /\ OutAtMost(c))'
  <2>1. s \notin Standing(send', "out", c)
        /\ s \notin Standing(send, "taken", c) /\ s \notin Standing(send', "taken", c)
    BY DEF Standing, Moving
  <2>2. Cardinality(Standing(send', "taken", c)) = Cardinality(Standing(send, "taken", c))
    BY <2>1, StageStays
  <2>3. CASE send[s].channel = c
    <3>1. s \in Standing(send, "out", c)
      BY <2>3 DEF Standing
    <3>2. Cardinality(Standing(send', "out", c)) = Cardinality(Standing(send, "out", c)) - 1
      BY <2>1, <3>1, StageLeft
    <3>3. sent'[c] = sent[c] + 1
      BY <2>3
    <3> QED
      BY <2>2, <3>2, <3>3, ChannelNumbers DEF CounterBehind, OutAtMost, Staged
  <2>4. CASE send[s].channel # c
    <3>1. s \notin Standing(send, "out", c)
      BY <2>4 DEF Standing
    <3>2. Cardinality(Standing(send', "out", c)) = Cardinality(Standing(send, "out", c))
      BY <2>1, <3>1, StageStays
    <3>3. sent'[c] = sent[c]
      BY <2>4
    <3> QED
      BY <2>2, <3>2, <3>3, ChannelNumbers DEF CounterBehind, OutAtMost, Staged
  <2> QED
    BY <2>3, <2>4
<1> QED
  BY <1>1, ChannelsStay DEF SendInv

\* It is counted, unless the limit is reached, or the count lapses.
LEMMA SendsCounted ==
    ASSUME QuotaTypeOK, SendInv, UNCHANGED <<sent, restarts>>, lapses' \in {lapses, lapses + 1},
           NEW s \in Sends, Moving(s, "idle"), send[s].at = "taken",
           \A c \in Channels : \/ /\ used'[c] = used[c]
                                  /\ c # send[s].channel \/ used[c] >= Limit \/ lapses' = lapses + 1
                               \/ used'[c] = used[c] + 1 /\ c = send[s].channel
    PROVE  SendInv'
<1>1. ASSUME NEW c \in Channels
      PROVE  (CounterBehind(c) /\ OutAtMost(c))'
  <2>1. /\ s \notin Standing(send', "out", c) /\ s \notin Standing(send, "out", c)
        /\ s \notin Standing(send', "taken", c)
    BY DEF Standing, Moving
  <2>2. Cardinality(Standing(send', "out", c)) = Cardinality(Standing(send, "out", c))
    BY <2>1, StageStays
  <2>3. CASE send[s].channel = c
    <3>1. s \in Standing(send, "taken", c)
      BY <2>3 DEF Standing
    <3>2. Cardinality(Standing(send', "taken", c)) = Cardinality(Standing(send, "taken", c)) - 1
      BY <2>1, <3>1, StageLeft
    <3>3. \/ used'[c] = used[c] /\ (used[c] >= Limit \/ lapses' = lapses + 1)
          \/ used'[c] = used[c] + 1
      BY <2>3
    <3> QED
      BY <2>2, <3>2, <3>3, ChannelNumbers DEF CounterBehind, OutAtMost, Staged
  <2>4. CASE send[s].channel # c
    <3>1. s \notin Standing(send, "taken", c)
      BY <2>4 DEF Standing
    <3>2. Cardinality(Standing(send', "taken", c)) = Cardinality(Standing(send, "taken", c))
      BY <2>1, <3>1, StageStays
    <3>3. used'[c] = used[c]
      BY <2>4
    <3> QED
      BY <2>2, <3>2, <3>3, ChannelNumbers DEF CounterBehind, OutAtMost, Staged
  <2> QED
    BY <2>3, <2>4
<1> QED
  BY <1>1, ChannelsStay DEF SendInv

\* A new day begins with nothing counted, and with who is on the way.
LEMMA SendsNextDay ==
    ASSUME QuotaTypeOK, SendInv, NextDay
    PROVE  SendInv'
<1>1. ASSUME NEW c \in Channels
      PROVE  (CounterBehind(c) /\ OutAtMost(c))'
  <2>1. sent'[c] = 0 /\ used'[c] = 0 /\ lapses' = 0 /\ send' = send /\ restarts' = restarts
    BY <1>1 DEF NextDay
  <2>2. Cardinality(Standing(send, "out", c)) <= Cardinality(Sends)
    BY StageCounts
  <2> QED
    BY <2>1, <2>2, ChannelNumbers DEF CounterBehind, OutAtMost, Staged
<1>2. HasChannel'
  BY DEF SendInv, HasChannel, NextDay
<1> QED
  BY <1>1, <1>2 DEF SendInv

\* A restart forgets who is on the way, and their places are the restart's.
LEMMA SendsRestart ==
    ASSUME QuotaTypeOK, SendInv, StartOver
    PROVE  SendInv'
<1>1. \A s \in Sends : send'[s].at = "idle"
  BY DEF StartOver, Idle
<1>2. HasChannel'
  BY <1>1 DEF HasChannel
<1>3. restarts \in Nat /\ restarts' = restarts + 1
  BY DEF QuotaTypeOK, StartOver
<1>4. ASSUME NEW c \in Channels
      PROVE  (CounterBehind(c) /\ OutAtMost(c))'
  <2>1. Standing(send', "taken", c) = {} /\ Standing(send', "out", c) = {}
    BY <1>1 DEF Standing
  <2>2. Cardinality(Standing(send', "taken", c)) = 0 /\ Cardinality(Standing(send', "out", c)) = 0
    BY <2>1, FS_EmptySet
  <2>3. Cardinality(Standing(send, "taken", c)) <= Cardinality(Sends)
    BY StageCounts
  <2>4. Places(restarts') = Places(restarts) + Cardinality(Sends)
        /\ Places(restarts' + 1) = Places(restarts) + Cardinality(Sends) + Cardinality(Sends)
        /\ Places(restarts') = Places(restarts + 1)
    BY <1>3, PlacesGrow
  <2>5. sent'[c] = sent[c] /\ used'[c] = used[c] /\ lapses' = lapses
    BY DEF StartOver
  <2> QED
    BY <2>2, <2>3, <2>4, <2>5, ChannelNumbers DEF CounterBehind, OutAtMost, Staged
<1> QED
  BY <1>2, <1>4 DEF SendInv

\* What happens to alerts leaves notifications alone.
LEMMA AlertsLeaveSends ==
    ASSUME AlertChanges
    PROVE  UNCHANGED <<outbound, restarts, tier>>
<1> USE DEF SendsUnchanged, RequestsUnchanged
<1>1. CASE \E r \in Creates : \E n \in 1..MaxBatch : CheckCreate(r, n) \/ CheckDraw(r, n)
  BY <1>1 DEF CheckCreate, CheckDraw, Pass
<1>2. CASE \E r \in Creates : CheckUpdate(r) \/ CommitCreate(r) \/ CommitUpdate(r)
  BY <1>2 DEF CheckUpdate, Pass, CommitCreate, CommitUpdate, MakesOne
<1>3. CASE (\E k \in 0..alerts["waiting"] : Fire(k)) \/ CloseStep \/ Forget \/ PutBack \/ Disarm
  BY <1>3 DEF Fire, CloseStep, Forget, PutBack, Disarm
<1> QED
  BY <1>1, <1>2, <1>3 DEF AlertChanges

\* Every step keeps what is known of notifications.
LEMMA SendStep ==
    ASSUME QuotaTypeOK, SendInv, [QuotaNext]_quota
    PROVE  SendInv'
<1>1. ASSUME NEW s \in Sends, NEW c \in Channels, ReadPlan(s, c)
      PROVE  SendInv'
  <2>1. Moving(s, "planned") /\ send[s].at # "taken" /\ UNCHANGED <<used, sent, lapses, restarts>>
    BY <1>1 DEF ReadPlan, AlertsUnchanged, Moving, QuotaTypeOK
  <2> QED
    BY <2>1, SendsMove
<1>2. ASSUME NEW s \in Sends, ReadUsage(s)
      PROVE  SendInv'
  <2>1. UNCHANGED <<used, sent, lapses, restarts>> /\ send[s].at = "planned"
    BY <1>2 DEF ReadUsage, AlertsUnchanged
  <2>2. CASE used[send[s].channel] >= Limit
    <3>1. Moving(s, "idle")
      BY <1>2, <2>2 DEF ReadUsage, Stops, Moving, Idle, QuotaTypeOK
    <3> QED
      BY <2>1, <3>1, SendsMove
  <2>3. CASE ~(used[send[s].channel] >= Limit)
    <3>1. send[s].channel \in Channels
      BY <2>1 DEF SendInv, HasChannel
    <3>2. Moving(s, "out")
      BY <1>2, <2>3, <3>1 DEF ReadUsage, Moves, Moving, QuotaTypeOK
    <3>3. used[send[s].channel] < Limit
      BY <2>3, <3>1, QuotaAssumption DEF QuotaTypeOK
    <3> QED
      BY <2>1, <3>2, <3>3, SendsGoOut
  <2> QED
    BY <2>2, <2>3
<1>3. ASSUME NEW s \in Sends, ProviderRefuses(s)
      PROVE  SendInv'
  <2>1. Moving(s, "idle") /\ send[s].at # "taken" /\ UNCHANGED <<used, sent, lapses, restarts>>
    BY <1>3 DEF ProviderRefuses, Stops, AlertsUnchanged, Moving, Idle, QuotaTypeOK
  <2> QED
    BY <2>1, SendsMove
<1>4. ASSUME NEW s \in Sends, ProviderTakes(s)
      PROVE  SendInv'
  <2>1. send[s].channel \in Channels
    BY <1>4 DEF SendInv, HasChannel, ProviderTakes
  <2>2. Moving(s, "taken") /\ send[s].at = "out" /\ UNCHANGED <<used, lapses, restarts>>
    BY <1>4, <2>1 DEF ProviderTakes, Moves, AlertsUnchanged, Moving, QuotaTypeOK
  <2>3. \A c \in Channels : sent'[c] = IF c = send[s].channel THEN sent[c] + 1 ELSE sent[c]
    BY <1>4, <2>1 DEF ProviderTakes, Accepted, QuotaTypeOK
  <2> QED
    BY <2>2, <2>3, SendsTaken
<1>5. ASSUME NEW s \in Sends, Count(s)
      PROVE  SendInv'
  <2>1. send[s].channel \in Channels
    BY <1>5 DEF SendInv, HasChannel, Count
  <2>2. Moving(s, "idle") /\ send[s].at = "taken" /\ UNCHANGED <<sent, lapses, restarts>>
    BY <1>5 DEF Count, Stops, AlertsUnchanged, Moving, Idle, QuotaTypeOK
  <2>3. \A c \in Channels : \/ used'[c] = used[c] /\ (c # send[s].channel \/ used[c] >= Limit)
                            \/ used'[c] = used[c] + 1 /\ c = send[s].channel
    BY <1>5, <2>1, QuotaAssumption DEF Count, QuotaTypeOK
  <2> QED
    BY <2>2, <2>3, SendsCounted
<1>6. ASSUME NEW s \in Sends, MissUsage(s)
      PROVE  SendInv'
  <2>1. send[s].channel \in Channels
    BY <1>6 DEF SendInv, HasChannel, MissUsage
  <2>2. Moving(s, "out") /\ send[s].at = "planned" /\ UNCHANGED <<used, sent, restarts>>
    BY <1>6, <2>1 DEF MissUsage, Moves, AlertsUnchanged, Moving, QuotaTypeOK
  <2> QED
    BY <1>6, <2>2, SendsGoOut DEF MissUsage, Lapses
<1>7. ASSUME NEW s \in Sends, AnswerIsLost(s)
      PROVE  SendInv'
  <2>1. send[s].channel \in Channels
    BY <1>7 DEF SendInv, HasChannel, AnswerIsLost
  <2>2. Moving(s, "idle") /\ send[s].at = "out" /\ UNCHANGED <<used, restarts>>
    BY <1>7 DEF AnswerIsLost, Stops, AlertsUnchanged, Moving, Idle, QuotaTypeOK
  <2>3. \A c \in Channels : sent'[c] = IF c = send[s].channel THEN sent[c] + 1 ELSE sent[c]
    BY <1>7, <2>1 DEF AnswerIsLost, Accepted, QuotaTypeOK
  <2> QED
    BY <1>7, <2>2, <2>3, SendsLost DEF AnswerIsLost, Lapses
<1>8. ASSUME NEW s \in Sends, MissCount(s)
      PROVE  SendInv'
  <2>1. Moving(s, "idle") /\ send[s].at = "taken" /\ UNCHANGED <<used, sent, restarts>>
        /\ lapses' = lapses + 1
    BY <1>8 DEF MissCount, Stops, Lapses, AlertsUnchanged, Moving, Idle, QuotaTypeOK
  <2> QED
    BY <2>1, SendsCounted
<1>9. CASE AlertChanges \/ StartTrial \/ PutOnFree \/ UNCHANGED quota
  BY <1>9, AlertsLeaveSends, SendsStay DEF StartTrial, PutOnFree, SendsUnchanged, quota, outbound
<1>10. CASE NextDay
  BY <1>10, SendsNextDay
<1>11. CASE StartOver
  BY <1>11, SendsRestart
<1> QED
  BY <1>1, <1>2, <1>3, <1>4, <1>5, <1>6, <1>7, <1>8, <1>9, <1>10, <1>11
     DEF QuotaNext, Notifications, PlanAndTime

-----------------------------------------------------------------------------
(* Types *)

\* One more here, one less there.
LEMMA TurnedTypes ==
    ASSUME QuotaTypeOK, NEW from \in Statuses, NEW to \in Statuses, alerts[from] > 0
    PROVE  Turned(from, to) \in [Statuses -> Nat]
BY DEF QuotaTypeOK, Turned

\* The numbers after a change, and what is remembered of them.
LEMMA CountedTypes ==
    ASSUME QuotaTypeOK, NEW now \in [Statuses -> Nat], Counted(now)
    PROVE  /\ alerts' \in [Statuses -> Nat] /\ before' \in Nat /\ steps' \in Nat
           /\ StepsCounted'
<1>1. alerts' = now /\ now["waiting"] \in Nat /\ Open' \in Nat
  BY DEF Counted, Open, Statuses
<1> QED
  BY <1>1 DEF QuotaTypeOK, Counted, StepsCounted

\* What a step that lets requests through or makes alerts does.
AlertTypes == /\ making \subseteq Creates \X (1..MaxBatch) /\ reopens \subseteq Creates
              /\ alerts \in [Statuses -> Nat] /\ before \in Nat /\ steps \in Nat /\ returns \in Nat
              /\ tier \in {"none", "trial", "free"} /\ StepsCounted

LEMMA AlertTypesStep ==
    ASSUME QuotaTypeOK, StepsCounted, AlertChanges
    PROVE  AlertTypes'
<1> USE DEF Statuses
<1>1. ASSUME NEW r \in Creates, NEW n \in 1..MaxBatch, CheckCreate(r, n) \/ CheckDraw(r, n)
      PROVE  AlertTypes'
  <2>1. {r} \X (1..n) \subseteq Creates \X (1..MaxBatch)
    BY QuotaAssumption
  <2> QED
    BY <1>1, <2>1 DEF CheckCreate, CheckDraw, Pass, AlertTypes, QuotaTypeOK, StepsCounted
<1>2. ASSUME NEW r \in Creates, CheckUpdate(r)
      PROVE  AlertTypes'
  <2>1. {r} \X (1..1) \subseteq Creates \X (1..MaxBatch)
    BY QuotaAssumption
  <2> QED
    BY <1>2, <2>1 DEF CheckUpdate, Pass, AlertTypes, QuotaTypeOK, StepsCounted
<1>3. ASSUME NEW r \in Creates, CommitCreate(r)
      PROVE  AlertTypes'
  <2> PICK x \in {"active", "waiting"} : Counted([alerts EXCEPT ![x] = @ + 1])
    BY <1>3 DEF CommitCreate
  <2>1. [alerts EXCEPT ![x] = @ + 1] \in [Statuses -> Nat]
    BY DEF QuotaTypeOK
  <2>2. making' \subseteq making /\ UNCHANGED <<reopens, returns, tier>>
    BY <1>3 DEF CommitCreate, MakesOne
  <2> QED
    BY <2>1, <2>2, CountedTypes DEF AlertTypes, QuotaTypeOK
<1>4. ASSUME NEW r \in Creates, CommitUpdate(r)
      PROVE  AlertTypes'
  <2> PICK from \in Statuses, to \in Statuses : alerts[from] > 0 /\ Counted(Turned(from, to))
    BY <1>4 DEF CommitUpdate
  <2>1. making' \subseteq making /\ reopens' \subseteq reopens /\ UNCHANGED <<returns, tier>>
    BY <1>4 DEF CommitUpdate, MakesOne
  <2> QED
    BY <2>1, TurnedTypes, CountedTypes DEF AlertTypes, QuotaTypeOK
<1>5. ASSUME NEW k \in 0..alerts["waiting"], Fire(k)
      PROVE  AlertTypes'
  <2> DEFINE now == [Turned("active", "closed") EXCEPT !["waiting"] = @ - k, !["active"] = @ + k]
  <2>1. now \in [Statuses -> Nat]
    <3>1. alerts["waiting"] \in Nat /\ alerts["active"] > 0
      BY <1>5 DEF Fire, QuotaTypeOK
    <3>2. Turned("active", "closed") \in [Statuses -> Nat]
      BY <3>1, TurnedTypes
    <3>3. Turned("active", "closed")["waiting"] = alerts["waiting"]
      BY DEF Turned, QuotaTypeOK
    <3> QED
      BY <3>1, <3>2, <3>3
  <2>2. Counted(now) /\ UNCHANGED <<making, reopens, tier, returns>>
    BY <1>5 DEF Fire, RequestsUnchanged
  <2> HIDE DEF now
  <2> QED
    BY <2>1, <2>2, CountedTypes DEF AlertTypes, QuotaTypeOK
<1>6. CASE CloseStep \/ Disarm
  <2>1. \E from, to \in Statuses : alerts[from] > 0 /\ Counted(Turned(from, to))
    BY <1>6 DEF CloseStep, Disarm
  <2>2. UNCHANGED <<making, reopens, tier, returns>>
    BY <1>6 DEF CloseStep, Disarm, RequestsUnchanged
  <2> QED
    BY <2>1, <2>2, TurnedTypes, CountedTypes DEF AlertTypes, QuotaTypeOK
<1>7. CASE Forget
  <2>1. [alerts EXCEPT !["closed"] = @ - 1] \in [Statuses -> Nat]
    BY <1>7 DEF Forget, QuotaTypeOK
  <2>2. UNCHANGED <<making, reopens, tier, returns>>
    BY <1>7 DEF Forget, RequestsUnchanged
  <2> QED
    BY <1>7, <2>1, <2>2, CountedTypes DEF Forget, AlertTypes, QuotaTypeOK
<1>8. CASE PutBack
  <2>1. \E from, to \in Statuses : alerts[from] > 0 /\ Counted(Turned(from, to))
    BY <1>8 DEF PutBack
  <2>2. UNCHANGED <<making, reopens, tier>> /\ returns' = returns + 1
    BY <1>8 DEF PutBack, RequestsUnchanged
  <2> QED
    BY <2>1, <2>2, TurnedTypes, CountedTypes DEF AlertTypes, QuotaTypeOK
<1> QED
  BY <1>1, <1>2, <1>3, <1>4, <1>5, <1>6, <1>7, <1>8 DEF AlertChanges

\* Every step keeps the types.
LEMMA QuotaTypesStep ==
    ASSUME QuotaTypeOK, HasChannel, StepsCounted, [QuotaNext]_quota
    PROVE  QuotaTypeOK' /\ StepsCounted'
<1> USE DEF QuotaTypeOK, Idle, Moves, Stops, Lapses, StepsCounted
<1>1. ASSUME NEW s \in Sends, NEW c \in Channels, ReadPlan(s, c)
      PROVE  QuotaTypeOK' /\ StepsCounted'
  BY <1>1 DEF ReadPlan, AlertsUnchanged, inbound
<1>2. ASSUME NEW s \in Sends, ReadUsage(s) \/ MissUsage(s) \/ ProviderRefuses(s) \/ MissCount(s)
      PROVE  QuotaTypeOK' /\ StepsCounted'
  BY <1>2 DEF ReadUsage, MissUsage, ProviderRefuses, MissCount, AlertsUnchanged, inbound
<1>3. ASSUME NEW s \in Sends, ProviderTakes(s) \/ AnswerIsLost(s)
      PROVE  QuotaTypeOK' /\ StepsCounted'
  <2>1. send[s].channel \in Channels
    BY <1>3 DEF HasChannel, ProviderTakes, AnswerIsLost
  <2> QED
    BY <1>3, <2>1 DEF ProviderTakes, AnswerIsLost, Accepted, AlertsUnchanged, inbound
<1>4. ASSUME NEW s \in Sends, Count(s)
      PROVE  QuotaTypeOK' /\ StepsCounted'
  <2>1. send[s].channel \in Channels
    BY <1>4 DEF HasChannel, Count
  <2> QED
    BY <1>4, <2>1 DEF Count, AlertsUnchanged, inbound
<1>5. CASE AlertChanges
  BY <1>5, AlertTypesStep, AlertsLeaveSends DEF AlertTypes, outbound
<1>6. CASE StartTrial
  BY <1>6 DEF StartTrial, inbound, SendsUnchanged, outbound
<1>7. CASE PutOnFree
  <2>1. Open \in Nat /\ alerts["waiting"] \in Nat
    BY DEF Open, Statuses
  <2> QED
    BY <1>7, <2>1 DEF PutOnFree, SendsUnchanged, outbound
<1>8. CASE NextDay
  BY <1>8, QuotaAssumption DEF NextDay, inbound
<1>9. CASE StartOver
  BY <1>9, QuotaAssumption DEF StartOver
<1>10. CASE UNCHANGED quota
  BY <1>10 DEF quota, outbound, inbound
<1> QED
  BY <1>1, <1>2, <1>3, <1>4, <1>5, <1>6, <1>7, <1>8, <1>9, <1>10
     DEF QuotaNext, Notifications, PlanAndTime

-----------------------------------------------------------------------------
(* Alerts *)

\* There are n numbers up to n.
LEMMA UpTo == ASSUME NEW n \in Nat PROVE IsFiniteSet(1..n) /\ Cardinality(1..n) = n
<1>1. CASE n = 0
  <2>1. 1..n = {}
    BY <1>1
  <2> QED
    BY <1>1, <2>1, FS_EmptySet
<1>2. CASE n > 0
  BY <1>2, FS_Interval
<1> QED
  BY <1>1, <1>2

\* What all requests may have let through together.
LEMMA MakingCounts ==
    ASSUME NEW M, M \subseteq Creates \X (1..MaxBatch)
    PROVE  /\ IsFiniteSet(M) /\ Cardinality(M) \in Nat /\ Room \in Nat
           /\ Cardinality(M) <= Room + MaxBatch
<1> DEFINE C == Cardinality(Creates)
           All == Creates \X (1..MaxBatch)
<1>1. C \in Nat /\ C > 0 /\ MaxBatch \in Nat
  BY FS_CardinalityType, FS_EmptySet, QuotaAssumption
<1>2. IsFiniteSet(1..MaxBatch) /\ Cardinality(1..MaxBatch) = MaxBatch
  BY <1>1, FS_Interval, QuotaAssumption
<1>3. IsFiniteSet(All) /\ Cardinality(All) = C * MaxBatch
  BY <1>2, FS_Product, QuotaAssumption
<1>4. IsFiniteSet(M) /\ Cardinality(M) <= C * MaxBatch
  BY <1>3, FS_Subset
<1>5. C - 1 \in Nat /\ MaxBatch * (C - 1) \in Nat /\ C * MaxBatch = MaxBatch * (C - 1) + MaxBatch
  BY <1>1
<1> QED
  BY <1>4, <1>5, FS_CardinalityType DEF Room

\* What the others have let through while this request has not, and with what it is let
\* through for.
LEMMA OthersMake ==
    ASSUME QuotaTypeOK, NEW r \in Creates, NEW n \in 1..MaxBatch, \A p \in making : p[1] # r
    PROVE  Cardinality(making \cup ({r} \X (1..n))) <= Room + n
<1> DEFINE C == Cardinality(Creates)
           Others == (Creates \ {r}) \X (1..MaxBatch)
           Mine == {r} \X (1..n)
<1>1. C \in Nat /\ C > 0 /\ MaxBatch \in Nat /\ n \in Nat /\ n > 0
  BY FS_CardinalityType, FS_EmptySet, QuotaAssumption
<1>2. IsFiniteSet(1..MaxBatch) /\ Cardinality(1..MaxBatch) = MaxBatch
      /\ IsFiniteSet(1..n) /\ Cardinality(1..n) = n
  BY <1>1, UpTo
<1>3. IsFiniteSet(Creates \ {r}) /\ Cardinality(Creates \ {r}) = C - 1
  BY FS_RemoveElement, QuotaAssumption
<1>4. IsFiniteSet(Others) /\ Cardinality(Others) = (C - 1) * MaxBatch
  <2>1. IsFiniteSet(Others) /\ Cardinality(Others) = Cardinality(Creates \ {r}) * Cardinality(1..MaxBatch)
    BY <1>2, <1>3, FS_Product
  <2> QED
    BY <1>2, <1>3, <2>1
<1>5. making \subseteq Others
  <2> SUFFICES ASSUME NEW p \in making PROVE p \in Others
    OBVIOUS
  <2>1. p \in Creates \X (1..MaxBatch) /\ p[1] # r
    BY DEF QuotaTypeOK
  <2> QED
    BY <2>1
<1>6. IsFiniteSet(making) /\ Cardinality(making) <= (C - 1) * MaxBatch
  BY <1>4, <1>5, FS_Subset
<1>7. IsFiniteSet(Mine) /\ Cardinality(Mine) = n
  <2>1. IsFiniteSet({r}) /\ Cardinality({r}) = 1
    BY FS_Singleton
  <2>2. IsFiniteSet(Mine) /\ Cardinality(Mine) = Cardinality({r}) * Cardinality(1..n)
    BY <1>2, <2>1, FS_Product
  <2> QED
    BY <1>1, <1>2, <2>1, <2>2
<1>8. Cardinality(making \cup Mine) = Cardinality(making) + Cardinality(Mine) - Cardinality(making \cap Mine)
  BY <1>6, <1>7, FS_Union
<1>9. Cardinality(making) \in Nat /\ Cardinality(making \cap Mine) \in Nat
  BY <1>6, FS_Subset, FS_CardinalityType
<1>10. (C - 1) * MaxBatch = Room
  BY <1>1 DEF Room
<1> QED
  BY <1>1, <1>6, <1>7, <1>8, <1>9, <1>10

\* The numbers that the limit is about.
LEMMA AlertNumbers ==
    ASSUME QuotaTypeOK
    PROVE  /\ Open \in Nat /\ Open = alerts["active"] + alerts["waiting"]
           /\ alerts["active"] \in Nat /\ alerts["waiting"] \in Nat
           /\ before \in Nat /\ steps \in Nat /\ returns \in Nat
           /\ MaxAlerts \in Nat \ {0} /\ MaxBatch \in Nat \ {0}
           /\ Room \in Nat /\ Cardinality(making) \in Nat
           /\ Cardinality(making) <= Room + MaxBatch
<1>1. alerts["active"] \in Nat /\ alerts["waiting"] \in Nat
  BY DEF QuotaTypeOK, Statuses
<1> QED
  BY <1>1, MakingCounts, QuotaAssumption DEF QuotaTypeOK, Open

\* Alerts came back, so many, and no more are open or coming than there were, but for them.
Brings(d) == /\ returns' = returns + d
             /\ Open' + Cardinality(making') <= Open + Cardinality(making) + d

\* The larger of two numbers.
LEMMA LargerIs ==
    ASSUME NEW x \in Nat, NEW y \in Nat
    PROVE  Larger(x, y) \in Nat /\ Larger(x, y) >= x /\ Larger(x, y) >= y
           /\ (Larger(x, y) = x \/ Larger(x, y) = y)
BY DEF Larger

\* A change that brings no alert besides those let through, or one that was closed before.
LEMMA CountedKeeps ==
    ASSUME QuotaTypeOK, QuotaTypeOK', AlertsAtMost, NEW now, Counted(now), tier' = tier,
           NEW d \in {0, 1}, Brings(d)
    PROVE  AlertsAtMost'
<1>1. /\ Open \in Nat /\ Cardinality(making) \in Nat /\ before \in Nat /\ steps \in Nat
      /\ returns \in Nat /\ MaxAlerts \in Nat /\ MaxBatch \in Nat /\ Room \in Nat
  BY AlertNumbers
<1>2. Open' \in Nat /\ Cardinality(making') \in Nat /\ Cardinality(making') <= Room + MaxBatch
  <2>1. making' \subseteq Creates \X (1..MaxBatch)
    BY DEF QuotaTypeOK
  <2>2. alerts'["active"] \in Nat /\ alerts'["waiting"] \in Nat
    BY DEF QuotaTypeOK, Statuses
  <2> QED
    BY <2>1, <2>2, MakingCounts DEF Open
<1>3. before' = (IF before > Open' THEN Open' ELSE before) /\ steps' \in Nat /\ steps' >= steps
  <2>1. steps' \in Nat /\ steps' = IF steps < now["waiting"] THEN now["waiting"] ELSE steps
    BY DEF Counted, QuotaTypeOK
  <2> QED
    BY <1>1, <2>1 DEF Counted
\* The numbers of this state and of the next, named.
<1>4. PICK open \in Nat, coming \in Nat, b \in Nat, s \in Nat, open2 \in Nat, coming2 \in Nat,
         b2 \in Nat, s2 \in Nat :
          /\ open = Open /\ coming = Cardinality(making) /\ b = before /\ s = steps
          /\ open2 = Open' /\ coming2 = Cardinality(making') /\ b2 = before' /\ s2 = steps'
  <2>1. before' \in Nat
    BY DEF QuotaTypeOK
  <2> QED
    BY <1>1, <1>2, <1>3, <2>1
<1>5. PICK room \in Nat, batch \in Nat, max \in Nat, back \in Nat :
          room = Room /\ batch = MaxBatch /\ max = MaxAlerts /\ back = returns
  BY <1>1
<1> DEFINE most == Larger(b + batch, max + 1 + s)
           most2 == Larger(b2 + batch, max + 1 + s2)
<1>6. Most' = most2 /\ Room' = room /\ Most = most
  BY <1>4, <1>5 DEF Room, Most, Larger, Had, Allowance
<1>7. b2 = (IF b > open2 THEN open2 ELSE b) /\ coming2 <= room + batch /\ s <= s2
      /\ open2 + coming2 <= open + coming + d
  BY <1>2, <1>3, <1>4, <1>5 DEF Brings
<1>8. SUFFICES ASSUME tier = "free"
               PROVE  open2 + coming2 <= most2 + room + (back + d)
  BY <1>4, <1>5, <1>6 DEF AlertsAtMost, Brings
<1>9. open + coming <= most + room + back
  BY <1>4, <1>5, <1>6, <1>8 DEF AlertsAtMost
<1>10. CASE b > open2
  <2>1. most2 \in Nat /\ most2 >= open2 + batch
    <3>1. b2 = open2 /\ b2 + batch \in Nat /\ max + 1 + s2 \in Nat
      BY <1>7, <1>10
    <3> QED
      BY <3>1, LargerIs
  <2> QED
    BY <1>7, <2>1
<1>11. CASE ~(b > open2)
  <2>1. most \in Nat /\ most2 \in Nat /\ most <= most2
    <3>1. b2 = b /\ b + batch \in Nat /\ max + 1 + s \in Nat /\ max + 1 + s2 \in Nat
          /\ max + 1 + s <= max + 1 + s2
      BY <1>7, <1>11
    <3>2. most \in Nat /\ (most = b + batch \/ most = max + 1 + s)
      BY <3>1, LargerIs
    <3>3. most2 \in Nat /\ most2 >= b + batch /\ most2 >= max + 1 + s2
      BY <3>1, LargerIs
    <3> HIDE DEF most, most2
    <3> QED
      BY <3>1, <3>2, <3>3
  <2> QED
    BY <1>7, <1>9, <2>1
<1> QED
  BY <1>10, <1>11

\* A request that is let through has the room it needs.
LEMMA PassKeeps ==
    ASSUME QuotaTypeOK, NEW r \in Creates, NEW n \in 1..MaxBatch, NEW seen,
           Pass(r, n, seen), tier = "free" => Open + n <= Allowance
    PROVE  AlertsAtMost'
<1>1. Cardinality(making') <= Room + n
  BY OthersMake DEF Pass
<1>2. Cardinality(making') \in Nat
  <2>1. making' \subseteq Creates \X (1..MaxBatch)
    BY QuotaAssumption DEF Pass, QuotaTypeOK
  <2> QED
    BY <2>1, MakingCounts
<1>3. /\ Open' = Open /\ before' = before /\ steps' = steps /\ returns' = returns /\ tier' = tier
      /\ n \in Nat
  BY QuotaAssumption DEF Pass, Open
<1> QED
  BY <1>1, <1>2, <1>3, AlertNumbers DEF AlertsAtMost, Most, Larger, Had, Allowance, Room

\* One alert is made of those let through.
LEMMA OneIsMade ==
    ASSUME QuotaTypeOK, NEW r, MakesOne(r)
    PROVE  Cardinality(making') = Cardinality(making) - 1
<1> PICK p \in making : making' = making \ {p}
  BY DEF MakesOne
<1>1. IsFiniteSet(making)
  BY MakingCounts DEF QuotaTypeOK
<1> QED
  BY <1>1, FS_RemoveElement

\* What the changes of alerts do to their number.
LEMMA AlertsStep ==
    ASSUME QuotaTypeOK, QuotaTypeOK', StepsCounted, AlertsAtMost, [QuotaNext]_quota
    PROVE  AlertsAtMost'
<1>0. /\ Open = alerts["active"] + alerts["waiting"] /\ Open \in Nat /\ Cardinality(making) \in Nat
      /\ alerts["active"] \in Nat /\ alerts["waiting"] \in Nat /\ MaxAlerts \in Nat \ {0} /\ steps \in Nat
      /\ alerts["waiting"] <= steps
  BY AlertNumbers DEF StepsCounted
<1>1. CASE UNCHANGED <<tier, inbound>>
  BY <1>1 DEF inbound, AlertsAtMost, Most, Larger, Had, Allowance, Open
<1>2. ASSUME NEW r \in Creates, NEW n \in 1..MaxBatch, CheckCreate(r, n) \/ CheckDraw(r, n)
      PROVE  AlertsAtMost'
  <2>1. n \in Nat
    BY QuotaAssumption
  <2>2. ASSUME tier = "free" PROVE Open + n <= Allowance
    <3>1. Open + n - 1 < MaxAlerts \/ alerts["active"] + n - 1 < MaxAlerts
      BY <1>2, <2>2 DEF CheckCreate, CheckDraw, Pass, Allowed
    <3> QED
      BY <1>0, <2>1, <3>1 DEF Allowance
  <2> QED
    BY <1>2, <2>2, PassKeeps DEF CheckCreate, CheckDraw
<1>3. ASSUME NEW r \in Creates, CheckUpdate(r)
      PROVE  AlertsAtMost'
  <2> DEFINE seen == IF alerts["active"] > 0 THEN alerts["active"] - 1 ELSE 0
  <2>1. Pass(r, 1, seen)
    BY <1>3 DEF CheckUpdate
  <2>2. ASSUME tier = "free" PROVE Open + 1 <= Allowance
    <3>1. seen + 1 - 1 < MaxAlerts
      BY <2>1, <2>2 DEF Pass, Allowed
    <3> QED
      BY <1>0, <3>1 DEF Allowance
  <2>3. 1 \in 1..MaxBatch
    BY QuotaAssumption
  <2> QED
    BY <2>1, <2>2, <2>3, PassKeeps
<1>4. ASSUME NEW r \in Creates, CommitCreate(r)
      PROVE  AlertsAtMost'
  <2> PICK x \in {"active", "waiting"} : Counted([alerts EXCEPT ![x] = @ + 1])
    BY <1>4 DEF CommitCreate
  <2>1. Open' = Open + 1
    BY <1>0 DEF Counted, Open, QuotaTypeOK, Statuses
  <2>2. Cardinality(making') = Cardinality(making) - 1 /\ returns' = returns /\ tier' = tier
    BY <1>4, OneIsMade DEF CommitCreate, MakesOne
  <2>3. Open' + Cardinality(making') <= Open + Cardinality(making) + 0 /\ returns' = returns + 0
    BY <1>0, <2>1, <2>2, AlertNumbers
  <2> QED
    BY <2>2, <2>3, CountedKeeps DEF Brings
<1>5. ASSUME NEW from \in Statuses, NEW to \in Statuses, Counted(Turned(from, to))
      PROVE  Open' <= Open + (IF from = "closed" THEN 1 ELSE 0)
  BY <1>0, <1>5 DEF Counted, Turned, Open, QuotaTypeOK, Statuses
<1>6. ASSUME NEW r \in Creates, CommitUpdate(r)
      PROVE  AlertsAtMost'
  <2> PICK from \in Statuses, to \in Statuses : Counted(Turned(from, to))
    BY <1>6 DEF CommitUpdate
  <2>1. Cardinality(making') = Cardinality(making) - 1 /\ returns' = returns /\ tier' = tier
    BY <1>6, OneIsMade DEF CommitUpdate, MakesOne
  <2>2. Open' \in Nat
    BY AlertNumbers DEF Open, QuotaTypeOK, Statuses
  <2>3. Open' + Cardinality(making') <= Open + Cardinality(making) + 0 /\ returns' = returns + 0
    BY <1>0, <1>5, <2>1, <2>2, AlertNumbers
  <2> QED
    BY <2>1, <2>3, CountedKeeps DEF Brings
<1>7. ASSUME NEW now, Counted(now), Open' <= Open, UNCHANGED <<making, tier, returns>>
      PROVE  AlertsAtMost'
  <2>1. Open' \in Nat /\ returns \in Nat
    BY DEF Open, QuotaTypeOK, Statuses
  <2>2. Open' + Cardinality(making') <= Open + Cardinality(making) + 0 /\ returns' = returns + 0
    BY <1>0, <1>7, <2>1
  <2> QED
    BY <1>7, <2>2, CountedKeeps DEF Brings
<1>8. ASSUME NEW k \in 0..alerts["waiting"], Fire(k)
      PROVE  AlertsAtMost'
  <2>1. Open' <= Open
    BY <1>0, <1>8 DEF Fire, Counted, Turned, Open, QuotaTypeOK, Statuses
  <2> QED
    BY <1>7, <1>8, <2>1 DEF Fire, RequestsUnchanged
<1>9. CASE CloseStep \/ Disarm
  <2> PICK from \in Statuses \ {"closed"}, to \in Statuses : Counted(Turned(from, to))
    BY <1>9 DEF CloseStep, Disarm, Statuses
  <2>1. Open' <= Open
    BY <1>0, <1>5
  <2> QED
    BY <1>7, <1>9, <2>1 DEF CloseStep, Disarm, RequestsUnchanged
<1>10. CASE Forget
  <2>1. Open' <= Open
    BY <1>0, <1>10 DEF Forget, Counted, Open, QuotaTypeOK, Statuses
  <2> QED
    BY <1>7, <1>10, <2>1 DEF Forget, RequestsUnchanged
<1>11. CASE PutBack
  <2> PICK x \in Statuses : Counted(Turned("closed", x))
    BY <1>11 DEF PutBack, Statuses
  <2>1. Open' <= Open + 1 /\ Open' \in Nat
    BY <1>0, <1>5 DEF Open, QuotaTypeOK, Statuses
  <2>2. UNCHANGED <<making, tier>> /\ returns' = returns + 1
    BY <1>11 DEF PutBack, RequestsUnchanged
  <2>3. Open' + Cardinality(making') <= Open + Cardinality(making) + 1
    BY <1>0, <2>1, <2>2
  <2> QED
    BY <2>2, <2>3, CountedKeeps DEF Brings
<1>12. CASE PutOnFree
  <2>1. UNCHANGED <<making, alerts>> /\ before' = Open /\ returns' = 0 /\ steps' = alerts["waiting"]
    BY <1>12 DEF PutOnFree
  <2>2. Open' = Open /\ Room' = Room /\ MaxAlerts \in Nat /\ MaxBatch \in Nat
    BY <2>1, AlertNumbers DEF Open, Room
  <2> QED
    BY <1>0, <2>1, <2>2, AlertNumbers DEF AlertsAtMost, Most, Larger, Had, Allowance
<1>13. CASE StartTrial
  BY <1>13 DEF StartTrial, AlertsAtMost
<1>14. CASE StartOver
  <2>1. making' = {} /\ UNCHANGED <<alerts, before, steps, returns, tier>>
    BY <1>14 DEF StartOver
  <2>2. Cardinality(making') = 0
    BY <2>1, FS_EmptySet
  <2> QED
    BY <1>0, <2>1, <2>2, AlertNumbers DEF AlertsAtMost, Most, Larger, Had, Allowance, Room, Open
<1>15. CASE NextDay \/ UNCHANGED quota \/ Notifications
  BY <1>1, <1>15 DEF NextDay, quota, Notifications, ReadPlan, ReadUsage, MissUsage, ProviderRefuses,
                     ProviderTakes, AnswerIsLost, Count, MissCount, AlertsUnchanged
<1> QED
  BY <1>2, <1>3, <1>4, <1>6, <1>8, <1>9, <1>10, <1>11, <1>12, <1>13, <1>14, <1>15
     DEF QuotaNext, AlertChanges, PlanAndTime

-----------------------------------------------------------------------------
\* The invariant holds at the start,
LEMMA QuotaStarts == ASSUME QuotaInit PROVE QuotaInv
<1>1. QuotaTypeOK /\ StepsCounted
  BY QuotaAssumption DEF QuotaInit, QuotaTypeOK, StepsCounted, Idle, Statuses
<1>2. HasChannel /\ \A s \in Sends : send[s].at = "idle"
  BY DEF QuotaInit, HasChannel, Idle
<1>3. ASSUME NEW c \in Channels
      PROVE  CounterBehind(c) /\ OutAtMost(c)
  <2>1. Standing(send, "taken", c) = {} /\ Standing(send, "out", c) = {}
    BY <1>2 DEF Standing
  <2>2. Cardinality(Standing(send, "taken", c)) = 0 /\ Cardinality(Standing(send, "out", c)) = 0
    BY <2>1, FS_EmptySet
  <2>3. sent[c] = 0 /\ used[c] = 0 /\ lapses = 0 /\ restarts = 0
    BY DEF QuotaInit
  <2>4. Places(restarts) \in Nat /\ Places(restarts + 1) \in Nat
    BY <2>3, PlacesGrow
  <2> QED
    BY <2>2, <2>3, <2>4, QuotaAssumption DEF CounterBehind, OutAtMost, Staged
<1>4. AlertsAtMost
  BY DEF QuotaInit, AlertsAtMost
<1> QED
  BY <1>1, <1>2, <1>3, <1>4 DEF QuotaInv, SendInv

\* is kept by every step,
LEMMA QuotaStep ==
    ASSUME QuotaInv, [QuotaNext]_quota
    PROVE  QuotaInv'
BY SendStep, QuotaTypesStep, AlertsStep DEF QuotaInv, SendInv

\* and says what the plan promises.
LEMMA KeepsPlan == ASSUME QuotaInv PROVE PlanKept
<1>1. QuotaSlips
  <2> SUFFICES ASSUME NEW c \in Channels
               PROVE  sent[c] <= Limit + Cardinality(Sends) * (restarts + 1) - 1 + lapses
    BY DEF QuotaSlips
  <2>1. sent[c] + Cardinality(Standing(send, "out", c)) <= Limit - 1 + Places(restarts + 1) + lapses
        /\ Places(restarts + 1) \in Nat /\ sent[c] \in Nat /\ Limit \in Nat /\ lapses \in Nat
        /\ Cardinality(Standing(send, "out", c)) \in Nat
    BY ChannelNumbers DEF QuotaInv
  <2>2. sent[c] <= Limit - 1 + Places(restarts + 1) + lapses
    BY <2>1
  <2>3. Limit - 1 + Places(restarts + 1) + lapses = Limit + Places(restarts + 1) - 1 + lapses
    BY <2>1
  <2> QED
    BY <2>2, <2>3 DEF Places
<1>2. FreeSlips
  BY AlertNumbers DEF QuotaInv, AlertsAtMost, Most, Larger, Had, Allowance, Room, FreeSlips
<1> QED
  BY <1>1, <1>2 DEF PlanKept, QuotaInv

\* Whatever notifications and requests are under way together, whatever statement fails and at
\* whatever restarts, the limits of the plan are missed by no more than those, the lapses, the
\* steps that are not counted and the alerts that come back (canSendNotification,
\* getDailyUsage, incrementDailySms, canCreateAlert and the routes that ask it).
THEOREM PlanIsKept == QuotaSpec => []PlanKept
<1>1. QuotaInit => QuotaInv
  BY QuotaStarts
<1>2. QuotaInv /\ [QuotaNext]_quota => QuotaInv'
  BY QuotaStep
<1>3. QuotaInv => PlanKept
  BY KeepsPlan
<1> QED
  BY <1>1, <1>2, <1>3, PTL DEF QuotaSpec
=============================================================================
