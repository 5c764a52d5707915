----------------------------- MODULE BarsProofs ------------------------------
(***************************************************************************)
(* Theorems about candles that come from outside: TrendbarQueue, which     *)
(* asks the server for them, and Structure, which keeps them and reads     *)
(* market structure off them.                                              *)
(*                                                                         *)
(* TrendbarQueue, for any number of calls and requests and any behaviour   *)
(* of the server and the session: the three safety properties are proved   *)
(* together.  That an answer goes to the right calls needs the one pending *)
(* id to belong to the active job, and that a call waits in one place      *)
(* needs the queue to be empty whenever a new job is sent at once.         *)
(*                                                                         *)
(* Structure, for candles of any prices and any number of them: an engine  *)
(* that has read a track (Reading) and takes one candle more has read the  *)
(* longer track.  Each candle adds to what the track means exactly what it *)
(* adds to the events, because the levels and the trend the engine keeps   *)
(* are the ones in force after the last candle.  An engine that is made    *)
(* again reads a track of any length, so this is used under an induction   *)
(* over the naturals, said of sets.                                        *)
(***************************************************************************)
EXTENDS TrendbarQueue, Structure, SequenceTheorems, WellFoundedInduction, TLAPS

\* The calls that wait for a job ask for its key.
Asks(j) == j.key \in Keys /\ \A c \in j.waiters : KeyOf[c] = j.key

\* Queued jobs and the one that is out serve calls that ask for them.
JobsAsk == /\ \A i \in DOMAIN jobs : Asks(jobs[i])
           /\ IF busy THEN Asks(active) ELSE active = NoJob

\* No request on the wire is newer than the last one, which is the active job's.
WireIsOld == \A m \in wire : m.id <= lastId /\ (busy /\ m.id = lastId => m.key = active.key)

IInv == /\ BarsTypeOK /\ NeverStalls /\ EachOnce /\ RightBars /\ JobsAsk /\ WireIsOld
        /\ fresh \cap posted = {}

-----------------------------------------------------------------------------
(* What the operators give. *)

\* NoJob and the two kinds of result have their types.
LEMMA ConstantsTyped == NoJob \in Job /\ Failed \in Result /\ \A k \in Keys : Bars(k) \in Result
BY DEF NoJob, Job, Failed, Bars, Result

\* A result is added to what each call of S was given, and to no other's.
LEMMA GiveEffect ==
    ASSUME BarsTypeOK, NEW S \in SUBSET Calls, NEW r \in Result, Give(S, r)
    PROVE  /\ answer' \in [Calls -> Seq(Result)]
           /\ \A c \in Calls \ S : answer'[c] = answer[c]
           /\ \A c \in S : /\ answer[c] = <<>> => Len(answer'[c]) = 1 /\ answer'[c][1] = r
                           /\ DOMAIN answer'[c] = 1..Len(answer'[c])
<1>1. \A c \in Calls : answer[c] \in Seq(Result) /\ Append(answer[c], r) \in Seq(Result)
  BY DEF BarsTypeOK
<1>2. answer' = [c \in Calls |-> IF c \in S THEN Append(answer[c], r) ELSE answer[c]]
  BY DEF Give
<1>3. answer' \in [Calls -> Seq(Result)]
  BY <1>1, <1>2
<1>4. ASSUME NEW c \in S
      PROVE  /\ answer[c] = <<>> => Len(answer'[c]) = 1 /\ answer'[c][1] = r
             /\ DOMAIN answer'[c] = 1..Len(answer'[c])
  <2>1. answer'[c] = Append(answer[c], r)
    BY <1>2
  <2> QED BY <1>1, <2>1
<1>5. \A c \in Calls \ S : answer'[c] = answer[c]
  BY <1>2
<1> QED BY <1>3, <1>4, <1>5

\* Who waits for a queue of jobs is a call.
LEMMA WaitersTyped ==
    ASSUME NEW q \in Seq(Job)
    PROVE  WaitersOf(q) \subseteq Calls
<1> SUFFICES ASSUME NEW c \in WaitersOf(q)
             PROVE  c \in Calls
  OBVIOUS
<1>1. PICK i \in DOMAIN q : c \in q[i].waiters
  BY DEF WaitersOf
<1>2. q[i] \in Job
  BY <1>1
<1> QED BY <1>1, <1>2 DEF Job

\* When the results of a step go to calls that waited for bars of their own key, or that
\* asked in vain, everybody still has at most one result, and no wrong one.
LEMMA GiveRight ==
    ASSUME IInv, NEW S \in SUBSET Calls, NEW r \in Result, Give(S, r),
           \A c \in S : answer[c] = <<>> /\ (r.ok => r.key = KeyOf[c])
    PROVE  /\ answer' \in [Calls -> Seq(Result)] /\ RightBars'
           /\ \A c \in S : Len(answer'[c]) = 1
           /\ \A c \in Calls \ S : answer'[c] = answer[c]
<1>1. BarsTypeOK
  BY DEF IInv
<1>2. /\ answer' \in [Calls -> Seq(Result)]
      /\ \A c \in Calls \ S : answer'[c] = answer[c]
      /\ \A c \in S : /\ Len(answer'[c]) = 1 /\ answer'[c][1] = r
                      /\ DOMAIN answer'[c] = 1..Len(answer'[c])
  BY <1>1, GiveEffect
<1>3. ASSUME NEW c \in Calls, NEW i \in DOMAIN answer'[c], answer'[c][i].ok
      PROVE  answer'[c][i].key = KeyOf[c]
  <2>1. CASE c \in S
    <3>1. i = 1
      BY <1>2, <2>1
    <3> QED BY <1>2, <1>3, <2>1, <3>1
  <2>2. CASE c \notin S
    BY <1>2, <1>3, <2>2 DEF IInv, RightBars
  <2> QED BY <2>1, <2>2
<1> QED BY <1>2, <1>3 DEF RightBars

\* Who waits has no result yet and is on no other way.
LEMMA WaitingHasNothing ==
    ASSUME IInv, NEW c \in Calls, c \in active.waiters \cup WaitersOf(jobs)
    PROVE  answer[c] = <<>> /\ c \notin fresh \cup posted /\ Places(c) # {}
<1>1. Places(c) # {}
  BY DEF Places, WaitersOf
<1> QED BY <1>1 DEF IInv, EachOnce

\* And the other way round.
LEMMA PlacesAreWaited ==
    ASSUME NEW c \in Calls, c \notin active.waiters \cup WaitersOf(jobs)
    PROVE  Places(c) = {}
BY DEF Places, WaitersOf

-----------------------------------------------------------------------------
(* Abandoning everything. *)

\* A session that goes down, or a pump that finds it down with nothing queued but what
\* one call c has just asked for, answers everybody.
LEMMA AbandonKeeps ==
    ASSUME IInv, NEW q \in Seq(Job), NEW S \in SUBSET Calls,
           WaitersOf(q) = WaitersOf(jobs) \cup S,
           Abandon(q), fresh' = fresh, posted' = posted \ S, S \subseteq posted,
           wire' \subseteq wire,
           isReady' \in BOOLEAN, conn' \in BOOLEAN, gap' \in BOOLEAN
    PROVE  IInv'
<1> DEFINE W == active.waiters \cup WaitersOf(q)
<1>1. BarsTypeOK
  BY DEF IInv
<1>2. W \in SUBSET Calls
  <2>1. active.waiters \subseteq Calls
    BY <1>1 DEF BarsTypeOK, Job
  <2> QED BY <2>1, WaitersTyped
<1>3. \A c \in W : answer[c] = <<>> /\ c \notin fresh
  <2>1. ASSUME NEW c \in S
        PROVE  answer[c] = <<>> /\ c \notin fresh
    BY <2>1, <1>1 DEF IInv, EachOnce, BarsTypeOK
  <2>2. ASSUME NEW c \in active.waiters \cup WaitersOf(jobs)
        PROVE  answer[c] = <<>> /\ c \notin fresh
    <3>1. c \in Calls
      BY <1>2, <2>2
    <3> QED BY <2>2, <3>1, WaitingHasNothing
  <2> QED BY <2>1, <2>2
<1>4. /\ answer' \in [Calls -> Seq(Result)] /\ RightBars'
      /\ \A c \in W : Len(answer'[c]) = 1
      /\ \A c \in Calls \ W : answer'[c] = answer[c]
  <2>1. Give(W, Failed) /\ ~Failed.ok /\ Failed \in Result
    BY ConstantsTyped DEF Abandon, Failed
  <2>2. \A c \in W : answer[c] = <<>> /\ (Failed.ok => Failed.key = KeyOf[c])
    BY <1>3, <2>1
  <2> HIDE DEF W
  <2> QED BY <1>2, <2>1, <2>2, GiveRight
<1>5. jobs' = <<>> /\ active' = NoJob /\ busy' = FALSE /\ pending' = {} /\ lastId' = lastId
  BY DEF Abandon
<1>6. BarsTypeOK'
  <2>1. /\ fresh' \subseteq Calls /\ posted' \subseteq Calls
        /\ jobs' \in Seq(Job) /\ active' \in Job
        /\ lastId' \in Nat /\ pending' \subseteq Nat
        /\ wire' \subseteq [id : Nat, key : Keys]
    BY <1>1, <1>5, ConstantsTyped DEF BarsTypeOK
  <2>2. busy' \in BOOLEAN
    BY <1>5
  <2> QED BY <1>4, <2>1, <2>2, Zenon DEF BarsTypeOK
<1>7. \A c \in Calls : Places(c)' = {}
  BY <1>5 DEF Places, NoJob
<1>8. EachOnce'
  <2> SUFFICES ASSUME NEW c \in Calls
               PROVE  \/ c \in fresh' \cup posted' /\ answer'[c] = <<>>
                      \/ c \notin fresh' \cup posted' /\ Len(answer'[c]) = 1
    BY <1>7 DEF EachOnce
  <2>1. CASE c \in W
    <3>1. c \notin posted'
      <4>1. CASE c \in S
        BY <4>1
      <4>2. CASE c \notin S
        <5>1. c \in active.waiters \cup WaitersOf(jobs)
          BY <2>1, <4>2
        <5> QED BY <5>1, WaitingHasNothing
      <4> QED BY <4>1, <4>2
    <3> QED BY <1>3, <1>4, <2>1, <3>1
  <2>2. CASE c \notin W
    <3>1. Places(c) = {} /\ c \notin S
      BY <2>2, PlacesAreWaited
    <3> QED BY <1>4, <2>2, <3>1 DEF IInv, EachOnce
  <2> QED BY <2>1, <2>2
<1>9. NeverStalls' /\ JobsAsk' /\ WireIsOld'
  BY <1>5 DEF NeverStalls, JobsAsk, WireIsOld, IInv
<1> QED BY <1>4, <1>6, <1>8, <1>9 DEF IInv

-----------------------------------------------------------------------------
(* Sending. *)

\* The end of a pause sends the first job of the queue.
LEMMA StartKeeps ==
    ASSUME IInv, ~busy, jobs # <<>>, Start(jobs), gap' \in BOOLEAN,
           UNCHANGED <<session, fresh, posted>>
    PROVE  IInv'
<1>1. BarsTypeOK /\ active = NoJob /\ pending = {}
  BY DEF IInv, JobsAsk, NeverStalls
<1>2. /\ jobs' = Tail(jobs) /\ active' = Head(jobs) /\ busy' = TRUE
      /\ lastId' = lastId + 1 /\ pending' = {lastId + 1} /\ answer' = answer
      /\ wire' = wire \cup {[id |-> lastId + 1, key |-> Head(jobs).key]}
      /\ fresh' = fresh /\ posted' = posted /\ isReady' = isReady /\ conn' = conn
  BY <1>1 DEF Start, session
<1>3. /\ jobs \in Seq(Job) /\ Len(jobs) \in Nat /\ DOMAIN jobs = 1..Len(jobs)
      /\ Head(jobs) = jobs[1] /\ 1 \in DOMAIN jobs
      /\ Tail(jobs) \in Seq(Job) /\ DOMAIN Tail(jobs) = 1..Len(jobs) - 1
      /\ \A i \in DOMAIN Tail(jobs) : Tail(jobs)[i] = jobs[i + 1]
  BY <1>1 DEF BarsTypeOK
<1>4. Head(jobs) \in Job /\ Asks(Head(jobs))
  BY <1>3 DEF IInv, JobsAsk
<1>5. BarsTypeOK'
  <2>1. /\ busy' \in BOOLEAN /\ isReady' \in BOOLEAN /\ conn' \in BOOLEAN
        /\ fresh' \subseteq Calls /\ posted' \subseteq Calls
        /\ answer' \in [Calls -> Seq(Result)]
    BY <1>1, <1>2 DEF BarsTypeOK
  <2>2. jobs' \in Seq(Job) /\ active' \in Job /\ lastId' \in Nat /\ pending' \subseteq Nat
    BY <1>1, <1>2, <1>3, <1>4 DEF BarsTypeOK
  <2>3. wire' \subseteq [id : Nat, key : Keys]
    BY <1>1, <1>2, <1>4 DEF BarsTypeOK, Asks
  <2> QED BY <2>1, <2>2, <2>3, Zenon DEF BarsTypeOK
<1>6. \A c \in Calls : Places(c)' = {x - 1 : x \in Places(c)}
  <2> SUFFICES ASSUME NEW c \in Calls
               PROVE  Places(c)' = {x - 1 : x \in Places(c)}
    OBVIOUS
  <2>1. Places(c) = {i \in DOMAIN jobs : c \in jobs[i].waiters}
    BY <1>1 DEF Places, NoJob
  <2>2. Places(c)' = {i \in DOMAIN Tail(jobs) : c \in Tail(jobs)[i].waiters}
                        \cup (IF c \in jobs[1].waiters THEN {0} ELSE {})
    BY <1>2, <1>3 DEF Places
  <2>3. ASSUME NEW x \in Places(c)
        PROVE  x - 1 \in Places(c)'
    <3>1. x \in 1..Len(jobs) /\ c \in jobs[x].waiters
      BY <1>3, <2>1
    <3>2. CASE x = 1
      BY <2>2, <3>1, <3>2
    <3>3. CASE x # 1
      <4>1. x - 1 \in DOMAIN Tail(jobs) /\ Tail(jobs)[x - 1] = jobs[x]
        BY <1>3, <3>1, <3>3
      <4> QED BY <2>2, <3>1, <4>1
    <3> QED BY <3>2, <3>3
  <2>4. ASSUME NEW y \in Places(c)'
        PROVE  \E x \in Places(c) : y = x - 1
    <3>1. CASE y = 0 /\ c \in jobs[1].waiters
      BY <1>3, <2>1, <3>1
    <3>2. CASE y \in DOMAIN Tail(jobs) /\ c \in Tail(jobs)[y].waiters
      <4>1. y + 1 \in DOMAIN jobs /\ jobs[y + 1] = Tail(jobs)[y] /\ y = (y + 1) - 1
        BY <1>3, <3>2
      <4> QED BY <2>1, <3>2, <4>1
    <3> QED BY <2>2, <2>4, <3>1, <3>2
  <2> QED BY <2>3, <2>4
<1>7. EachOnce'
  <2> SUFFICES ASSUME NEW c \in Calls
               PROVE  /\ \A x, y \in Places(c)' : x = y
                      /\ Places(c)' = {} <=> Places(c) = {}
    BY <1>2 DEF IInv, EachOnce
  <2>1. \A x, y \in Places(c) : x = y
    BY DEF IInv, EachOnce
  <2>2. Places(c)' = {x - 1 : x \in Places(c)}
    BY <1>6
  <2> QED BY <2>1, <2>2
<1>8. RightBars' /\ NeverStalls'
  BY <1>2 DEF IInv, RightBars, NeverStalls
<1>9. JobsAsk'
  <2>1. \A i \in DOMAIN jobs' : Asks(jobs'[i])
    <3>1. \A i \in DOMAIN Tail(jobs) : i + 1 \in DOMAIN jobs
      BY <1>3
    <3> QED BY <1>2, <1>3, <3>1 DEF IInv, JobsAsk
  <2> QED BY <1>2, <1>4, <2>1 DEF JobsAsk, Asks
<1>10. WireIsOld'
  BY <1>1, <1>2 DEF IInv, WireIsOld, BarsTypeOK
<1> QED BY <1>2, <1>5, <1>7, <1>8, <1>9, <1>10 DEF IInv

\* A call that finds the loop idle sends its job at once.
LEMMA StartNewKeeps ==
    ASSUME IInv, NEW c \in posted, ~busy, jobs = <<>>, gap' = gap, posted' = posted \ {c},
           Start(<<[key |-> KeyOf[c], waiters |-> {c}]>>),
           UNCHANGED <<session, fresh>>
    PROVE  IInv'
<1> DEFINE j == [key |-> KeyOf[c], waiters |-> {c}]
<1>1. BarsTypeOK /\ active = NoJob /\ pending = {} /\ c \in Calls
  BY DEF IInv, JobsAsk, NeverStalls, BarsTypeOK
<1>2. /\ jobs' = <<>> /\ active' = j /\ busy' = TRUE
      /\ lastId' = lastId + 1 /\ pending' = {lastId + 1} /\ answer' = answer
      /\ wire' = wire \cup {[id |-> lastId + 1, key |-> KeyOf[c]]}
      /\ fresh' = fresh /\ isReady' = isReady /\ conn' = conn
  <2>1. Tail(<<j>>) = <<>> /\ Head(<<j>>) = j
    OBVIOUS
  <2> QED BY <1>1, <2>1 DEF Start, session
<1>3. KeyOf[c] \in Keys /\ j \in Job /\ Asks(j)
  BY <1>1, CallAssumption DEF Job, Asks
<1>4. BarsTypeOK'
  <2>1. /\ busy' \in BOOLEAN /\ isReady' \in BOOLEAN /\ conn' \in BOOLEAN /\ gap' \in BOOLEAN
        /\ fresh' \subseteq Calls /\ posted' \subseteq Calls
        /\ answer' \in [Calls -> Seq(Result)]
    BY <1>1, <1>2 DEF BarsTypeOK
  <2>2. jobs' \in Seq(Job) /\ active' \in Job /\ lastId' \in Nat /\ pending' \subseteq Nat
    BY <1>1, <1>2, <1>3 DEF BarsTypeOK
  <2>3. wire' \subseteq [id : Nat, key : Keys]
    BY <1>1, <1>2, <1>3 DEF BarsTypeOK
  <2> QED BY <2>1, <2>2, <2>3, Zenon DEF BarsTypeOK
<1>5. \A d \in Calls : Places(d) = {} /\ Places(d)' = IF d = c THEN {0} ELSE {}
  BY <1>1, <1>2 DEF Places, NoJob
<1>6. EachOnce'
  BY <1>1, <1>2, <1>5 DEF IInv, EachOnce
<1>7. RightBars' /\ NeverStalls'
  BY <1>2 DEF IInv, RightBars, NeverStalls
<1>8. JobsAsk'
  BY <1>2, <1>3 DEF JobsAsk, Asks
<1>9. WireIsOld'
  BY <1>1, <1>2 DEF IInv, WireIsOld, BarsTypeOK
<1> QED BY <1>2, <1>4, <1>6, <1>7, <1>8, <1>9 DEF IInv

-----------------------------------------------------------------------------
(* Answers and timeouts. *)

\* The job that is out is done: its calls get r, which is for them if it is bars.
LEMMA FinishKeeps ==
    ASSUME IInv, busy, NEW r \in Result, r.ok => r.key = active.key, Finish(r),
           wire' \subseteq wire, pending' = {},
           UNCHANGED <<session, fresh, posted, jobs, lastId>>
    PROVE  IInv'
<1>1. BarsTypeOK /\ Asks(active) /\ active.waiters \in SUBSET Calls
  BY DEF IInv, JobsAsk, BarsTypeOK, Job
<1>2. /\ active' = NoJob /\ busy' = FALSE /\ gap' = TRUE /\ Give(active.waiters, r)
      /\ isReady' = isReady /\ conn' = conn
  BY DEF Finish, session
<1>3. \A c \in active.waiters : answer[c] = <<>> /\ c \notin fresh \cup posted /\ Places(c) # {}
  BY <1>1, WaitingHasNothing
<1>4. /\ answer' \in [Calls -> Seq(Result)] /\ RightBars'
      /\ \A c \in active.waiters : Len(answer'[c]) = 1
      /\ \A c \in Calls \ active.waiters : answer'[c] = answer[c]
  <2>1. \A c \in active.waiters : answer[c] = <<>> /\ (r.ok => r.key = KeyOf[c])
    BY <1>1, <1>3 DEF Asks
  <2> QED BY <1>1, <1>2, <2>1, GiveRight
<1>5. BarsTypeOK'
  <2>1. /\ fresh' \subseteq Calls /\ posted' \subseteq Calls /\ jobs' \in Seq(Job)
        /\ active' \in Job /\ lastId' \in Nat /\ pending' \subseteq Nat
        /\ wire' \subseteq [id : Nat, key : Keys]
    BY <1>1, <1>2, ConstantsTyped DEF BarsTypeOK
  <2>2. busy' \in BOOLEAN /\ gap' \in BOOLEAN /\ isReady' \in BOOLEAN /\ conn' \in BOOLEAN
    BY <1>1, <1>2 DEF BarsTypeOK
  <2> QED BY <1>4, <2>1, <2>2, Zenon DEF BarsTypeOK
<1>6. \A c \in Calls : Places(c)' = {i \in DOMAIN jobs : c \in jobs[i].waiters}
  BY <1>2 DEF Places, NoJob
<1>7. \A i \in DOMAIN jobs : i # 0
  BY <1>1 DEF BarsTypeOK
<1>8. EachOnce'
  <2> SUFFICES ASSUME NEW c \in Calls
               PROVE  /\ \A x, y \in Places(c)' : x = y
                      /\ \/ c \in fresh \cup posted /\ Places(c)' = {} /\ answer'[c] = <<>>
                         \/ c \notin fresh \cup posted /\ Places(c)' # {} /\ answer'[c] = <<>>
                         \/ c \notin fresh \cup posted /\ Places(c)' = {} /\ Len(answer'[c]) = 1
    BY <1>2 DEF EachOnce
  <2>1. \A x, y \in Places(c) : x = y
    BY DEF IInv, EachOnce
  <2>2. CASE c \in active.waiters
    <3>1. 0 \in Places(c) /\ Places(c)' = Places(c) \ {0}
      BY <1>6, <1>7, <2>2 DEF Places
    <3>2. Places(c)' = {}
      BY <2>1, <3>1
    <3> QED BY <1>3, <1>4, <2>2, <3>2
  <2>3. CASE c \notin active.waiters
    <3>1. Places(c)' = Places(c)
      BY <1>6, <2>3 DEF Places
    <3> QED BY <1>4, <2>3, <3>1 DEF IInv, EachOnce
  <2> QED BY <2>2, <2>3
<1>9. NeverStalls' /\ JobsAsk' /\ WireIsOld'
  BY <1>2 DEF NeverStalls, JobsAsk, WireIsOld, IInv
<1> QED BY <1>4, <1>5, <1>8, <1>9 DEF IInv

\* An answer from the server, or an error that names the request.
LEMMA ReceiveKeeps ==
    ASSUME IInv, NEW m \in wire, NEW r \in {Failed, Bars(m.key)}, Receive(m, r)
    PROVE  IInv'
<1>1. CASE m.id \in pending
  <2>1. busy /\ m.id = lastId /\ m.key = active.key
    BY <1>1 DEF IInv, NeverStalls, WireIsOld
  <2>2. r \in Result /\ (r.ok => r.key = active.key)
    <3>1. m.key \in Keys
      BY DEF IInv, BarsTypeOK
    <3>2. r = Failed \/ r = Bars(m.key)
      OBVIOUS
    <3>3. r \in Result
      BY <3>1, <3>2, ConstantsTyped
    <3>4. r.ok => r.key = active.key
      BY <2>1, <3>2 DEF Failed, Bars
    <3> QED BY <3>3, <3>4
  <2>3. Finish(r) /\ wire' \subseteq wire /\ pending' = {}
        /\ UNCHANGED <<session, fresh, posted, jobs, lastId>>
    BY <1>1, <2>1 DEF Receive, Awaited, IInv, NeverStalls
  <2> QED BY <2>1, <2>2, <2>3, FinishKeeps
<1>2. CASE m.id \notin pending
  <2>1. wire' \subseteq wire
        /\ UNCHANGED <<session, fresh, posted, jobs, lastId, pending, active, busy, gap, answer>>
    BY <1>2 DEF Receive, Awaited
  <2>2. BarsTypeOK'
    BY <2>1 DEF IInv, BarsTypeOK, session
  <2>3. EachOnce'
    BY <2>1 DEF IInv, EachOnce, Places
  <2> QED BY <2>1, <2>2, <2>3 DEF IInv, NeverStalls, RightBars, JobsAsk, WireIsOld
<1> QED BY <1>1, <1>2

\* A request that is given up.
LEMMA TimeoutKeeps ==
    ASSUME IInv, NEW id \in pending, Timeout(id)
    PROVE  IInv'
<1>1. busy /\ pending = {lastId} /\ id = lastId
  BY DEF IInv, NeverStalls
<1>2. Failed \in Result /\ ~Failed.ok
  BY ConstantsTyped DEF Failed
<1>3. Finish(Failed) /\ wire' \subseteq wire /\ pending' = {}
      /\ UNCHANGED <<session, fresh, posted, jobs, lastId>>
  BY <1>1 DEF Timeout
<1> QED BY <1>1, <1>2, <1>3, FinishKeeps

-----------------------------------------------------------------------------
(* Asking. *)

\* A call comes to a place of its own, and nothing else changes for any call.
LEMMA CallJoins ==
    ASSUME IInv, NEW c \in posted, NEW p, posted' = posted \ {c},
           UNCHANGED <<fresh, answer>>,
           Places(c)' = {p},
           \A d \in Calls \ {c} : Places(d)' = Places(d)
    PROVE  EachOnce'
<1>1. c \in Calls /\ c \notin fresh /\ answer[c] = <<>>
  BY DEF IInv, EachOnce, BarsTypeOK
<1> SUFFICES ASSUME NEW d \in Calls
             PROVE  /\ \A x, y \in Places(d)' : x = y
                    /\ \/ d \in fresh' \cup posted' /\ Places(d)' = {} /\ answer'[d] = <<>>
                       \/ d \notin fresh' \cup posted' /\ Places(d)' # {} /\ answer'[d] = <<>>
                       \/ d \notin fresh' \cup posted' /\ Places(d)' = {} /\ Len(answer'[d]) = 1
  BY DEF EachOnce
<1>2. CASE d = c
  BY <1>1, <1>2
<1>3. CASE d # c
  <2>1. Places(d)' = Places(d) /\ (d \in fresh' \cup posted' <=> d \in fresh \cup posted)
    BY <1>3
  <2> QED BY <2>1 DEF IInv, EachOnce
<1> QED BY <1>2, <1>3

\* A call that asks while the session is not ready fails at once.
LEMMA AskInVain ==
    ASSUME IInv, NEW c \in posted, posted' = posted \ {c}, Give({c}, Failed),
           UNCHANGED <<session, fresh, gap, requests>>
    PROVE  IInv'
<1>1. c \in Calls /\ c \notin fresh /\ answer[c] = <<>> /\ Places(c) = {}
  BY DEF IInv, EachOnce, BarsTypeOK
<1>2. Failed \in Result /\ ~Failed.ok
  BY ConstantsTyped DEF Failed
<1>3. /\ answer' \in [Calls -> Seq(Result)] /\ RightBars' /\ Len(answer'[c]) = 1
      /\ \A d \in Calls \ {c} : answer'[d] = answer[d]
  <2>1. \A d \in {c} : answer[d] = <<>> /\ (Failed.ok => Failed.key = KeyOf[d])
    BY <1>1, <1>2
  <2>2. {c} \in SUBSET Calls
    BY <1>1
  <2> QED BY <1>2, <2>1, <2>2, GiveRight
<1>4. /\ isReady' = isReady /\ conn' = conn /\ jobs' = jobs /\ active' = active
      /\ busy' = busy /\ pending' = pending /\ lastId' = lastId /\ wire' = wire
  BY DEF session, requests
<1>5. BarsTypeOK'
  BY <1>3, <1>4 DEF IInv, BarsTypeOK
<1>6. \A d \in Calls : Places(d)' = Places(d)
  BY <1>4 DEF Places
<1>7. EachOnce'
  <2> SUFFICES ASSUME NEW d \in Calls
               PROVE  \/ d \in fresh' \cup posted' /\ Places(d) = {} /\ answer'[d] = <<>>
                      \/ d \notin fresh' \cup posted' /\ Places(d) # {} /\ answer'[d] = <<>>
                      \/ d \notin fresh' \cup posted' /\ Places(d) = {} /\ Len(answer'[d]) = 1
    BY <1>6 DEF IInv, EachOnce
  <2>1. CASE d = c
    BY <1>1, <1>3, <2>1
  <2>2. CASE d # c
    <3>1. answer'[d] = answer[d] /\ (d \in fresh' \cup posted' <=> d \in fresh \cup posted)
      BY <1>3, <2>2
    <3> QED BY <3>1 DEF IInv, EachOnce
  <2> QED BY <2>1, <2>2
<1> QED BY <1>3, <1>4, <1>5, <1>7 DEF IInv, NeverStalls, JobsAsk, WireIsOld

\* A call that asks for what is out waits with the others.
LEMMA JoinActiveKeeps ==
    ASSUME IInv, NEW c \in posted, posted' = posted \ {c}, busy, active.key = KeyOf[c],
           active' = [active EXCEPT !.waiters = @ \cup {c}],
           UNCHANGED <<session, fresh, gap, jobs, busy, pending, lastId, wire, answer>>
    PROVE  IInv'
<1>1. c \in Calls /\ Places(c) = {} /\ active \in Job /\ Asks(active)
  BY DEF IInv, EachOnce, BarsTypeOK, JobsAsk
<1>2. active' \in Job /\ active'.key = active.key /\ active'.waiters = active.waiters \cup {c}
  BY <1>1 DEF Job
<1>3. BarsTypeOK'
  BY <1>2 DEF IInv, BarsTypeOK, session
<1>4. Places(c)' = {0} /\ \A d \in Calls \ {c} : Places(d)' = Places(d)
  BY <1>1, <1>2 DEF Places
<1>5. EachOnce'
  BY <1>4, CallJoins
<1>6. JobsAsk' /\ WireIsOld'
  BY <1>1, <1>2 DEF IInv, JobsAsk, WireIsOld, Asks
<1> QED BY <1>3, <1>5, <1>6 DEF IInv, NeverStalls, RightBars

\* A call that asks for what is queued already waits for that job.
LEMMA JoinQueuedKeeps ==
    ASSUME IInv, NEW c \in posted, posted' = posted \ {c}, NEW i \in Same(c),
           jobs' = [jobs EXCEPT ![i].waiters = @ \cup {c}],
           UNCHANGED <<session, fresh, gap, active, busy, pending, lastId, wire, answer>>
    PROVE  IInv'
<1>1. /\ c \in Calls /\ Places(c) = {} /\ jobs \in Seq(Job)
      /\ i \in DOMAIN jobs /\ jobs[i].key = KeyOf[c]
  BY DEF IInv, EachOnce, BarsTypeOK, Same
<1>2. jobs[i] \in Job /\ i # 0 /\ jobs # <<>>
  BY <1>1
<1>3. /\ DOMAIN jobs' = DOMAIN jobs
      /\ jobs'[i] = [jobs[i] EXCEPT !.waiters = @ \cup {c}]
      /\ \A k \in DOMAIN jobs \ {i} : jobs'[k] = jobs[k]
  BY <1>1
<1>4. /\ jobs'[i] \in Job /\ jobs'[i].key = jobs[i].key
      /\ jobs'[i].waiters = jobs[i].waiters \cup {c}
  BY <1>1, <1>2, <1>3 DEF Job
<1>5. jobs' \in Seq(Job)
  BY <1>1, <1>3, <1>4
<1>6. BarsTypeOK'
  BY <1>5 DEF IInv, BarsTypeOK, session
<1>7. Places(c)' = {i}
  BY <1>1, <1>3, <1>4 DEF Places
<1>8. \A d \in Calls \ {c} : Places(d)' = Places(d)
  BY <1>1, <1>3, <1>4 DEF Places
<1>9. EachOnce'
  BY <1>7, <1>8, CallJoins
<1>10. JobsAsk'
  BY <1>1, <1>3, <1>4 DEF IInv, JobsAsk, Asks
<1>11. NeverStalls'
  BY <1>2 DEF IInv, NeverStalls
<1> QED BY <1>6, <1>9, <1>10, <1>11 DEF IInv, RightBars, WireIsOld

\* A call that asks for something new while the loop is busy or pauses goes to the end.
LEMMA QueueKeeps ==
    ASSUME IInv, NEW c \in posted, posted' = posted \ {c}, busy \/ gap,
           jobs' = Append(jobs, [key |-> KeyOf[c], waiters |-> {c}]),
           UNCHANGED <<session, fresh, gap, active, busy, pending, lastId, wire, answer>>
    PROVE  IInv'
<1> DEFINE j == [key |-> KeyOf[c], waiters |-> {c}]
           n == Len(jobs) + 1
<1>1. /\ c \in Calls /\ Places(c) = {} /\ jobs \in Seq(Job)
  BY DEF IInv, EachOnce, BarsTypeOK
<1>2. j \in Job /\ Asks(j)
  BY <1>1, CallAssumption DEF Job, Asks
<1>3. /\ jobs' \in Seq(Job) /\ DOMAIN jobs' = DOMAIN jobs \cup {n} /\ n \notin DOMAIN jobs
      /\ jobs'[n] = j /\ n # 0
      /\ \A k \in DOMAIN jobs : jobs'[k] = jobs[k]
  BY <1>1, <1>2
<1>4. BarsTypeOK'
  BY <1>3 DEF IInv, BarsTypeOK, session
<1>5. Places(c)' = {n}
  BY <1>1, <1>3 DEF Places
<1>6. \A d \in Calls \ {c} : Places(d)' = Places(d)
  BY <1>3 DEF Places
<1>7. EachOnce'
  BY <1>5, <1>6, CallJoins
<1>8. JobsAsk'
  BY <1>2, <1>3 DEF IInv, JobsAsk, Asks
<1> QED BY <1>4, <1>7, <1>8 DEF IInv, NeverStalls, RightBars, WireIsOld

\* A call arrives on the loop.
LEMMA RunAskKeeps ==
    ASSUME IInv, NEW c \in posted, RunAsk(c)
    PROVE  IInv'
<1> DEFINE j == [key |-> KeyOf[c], waiters |-> {c}]
           q == Append(jobs, j)
<1>1. posted' = posted \ {c} /\ UNCHANGED <<session, fresh, gap>>
  BY DEF RunAsk
<1>2. c \in Calls /\ jobs \in Seq(Job) /\ j \in Job /\ q \in Seq(Job)
  BY CallAssumption DEF IInv, BarsTypeOK, Job
<1>3. CASE ~isReady /\ Give({c}, Failed) /\ UNCHANGED requests
  BY <1>1, <1>3, AskInVain
<1>4. CASE /\ busy /\ active.key = KeyOf[c]
           /\ active' = [active EXCEPT !.waiters = @ \cup {c}]
           /\ UNCHANGED <<jobs, busy, pending, lastId, wire, answer>>
  BY <1>1, <1>4, JoinActiveKeeps
<1>5. ASSUME NEW i \in Same(c), jobs' = [jobs EXCEPT ![i].waiters = @ \cup {c}],
             UNCHANGED <<active, busy, pending, lastId, wire, answer>>
      PROVE  IInv'
  BY <1>1, <1>5, JoinQueuedKeeps
<1>6. CASE Pump(q, gap)
  <2>1. q # <<>>
    BY <1>2
  <2>2. CASE /\ busy \/ gap
             /\ jobs' = q
             /\ UNCHANGED <<active, busy, pending, lastId, wire, answer>>
    BY <1>1, <2>2, QueueKeeps
  <2>3. CASE Abandon(q) /\ wire' = wire
    <3>1. WaitersOf(q) = WaitersOf(jobs) \cup {c}
      <4>1. /\ DOMAIN q = DOMAIN jobs \cup {Len(jobs) + 1} /\ q[Len(jobs) + 1] = j
            /\ \A k \in DOMAIN jobs : q[k] = jobs[k]
        BY <1>2
      <4> HIDE DEF q
      <4>2. \A d \in WaitersOf(q) : d \in WaitersOf(jobs) \cup {c}
        BY <4>1 DEF WaitersOf
      <4>3. \A d \in WaitersOf(jobs) \cup {c} : d \in WaitersOf(q)
        BY <4>1 DEF WaitersOf
      <4> QED BY <4>2, <4>3
    <3>2. {c} \in SUBSET Calls /\ {c} \subseteq posted
      BY <1>2
    <3>3. isReady' \in BOOLEAN /\ conn' \in BOOLEAN /\ gap' \in BOOLEAN /\ fresh' = fresh
      BY <1>1 DEF IInv, BarsTypeOK, session
    <3> HIDE DEF q
    <3> QED BY <1>1, <1>2, <2>3, <3>1, <3>2, <3>3, AbandonKeeps
  <2>4. CASE ~busy /\ ~gap /\ Start(q)
    <3>1. jobs = <<>>
      BY <2>4 DEF IInv, NeverStalls
    <3>2. q = <<j>>
      BY <3>1
    <3> HIDE DEF q
    <3> QED BY <1>1, <2>4, <3>1, <3>2, StartNewKeeps
  <2> HIDE DEF q
  <2> QED BY <1>6, <2>1, <2>2, <2>3, <2>4 DEF Pump
<1> QED BY <1>3, <1>4, <1>5, <1>6 DEF RunAsk

\* A call is made.
LEMMA AskKeeps ==
    ASSUME IInv, NEW c \in Calls, Ask(c)
    PROVE  IInv'
<1>1. /\ c \in fresh /\ fresh' = fresh \ {c} /\ posted' = posted \cup {c}
      /\ UNCHANGED <<session, requests, gap, answer>>
  BY DEF Ask
<1>2. BarsTypeOK'
  BY <1>1 DEF IInv, BarsTypeOK, session, requests
<1>3. \A d \in Calls : Places(d)' = Places(d)
  BY <1>1 DEF Places, requests
<1>4. fresh' \cup posted' = fresh \cup posted /\ fresh' \cap posted' = {}
  BY <1>1 DEF IInv
<1>5. EachOnce'
  BY <1>1, <1>3, <1>4 DEF IInv, EachOnce
<1> QED BY <1>1, <1>2, <1>4, <1>5 DEF IInv, NeverStalls, RightBars, JobsAsk, WireIsOld, requests

\* The pause ends, and the next job goes out, or everybody who waits fails.
LEMMA GapEndsKeeps ==
    ASSUME IInv, GapEnds
    PROVE  IInv'
<1>1. gap' = FALSE /\ Pump(jobs, FALSE) /\ UNCHANGED <<session, fresh, posted>>
  BY DEF GapEnds
<1>2. isReady' \in BOOLEAN /\ conn' \in BOOLEAN /\ gap' \in BOOLEAN
  BY <1>1 DEF IInv, BarsTypeOK, session
<1>3. CASE /\ busy \/ jobs = <<>>
           /\ jobs' = jobs
           /\ UNCHANGED <<active, busy, pending, lastId, wire, answer>>
  <2>1. BarsTypeOK'
    BY <1>1, <1>2, <1>3 DEF IInv, BarsTypeOK
  <2>2. EachOnce'
    BY <1>1, <1>3 DEF IInv, EachOnce, Places
  <2> QED BY <1>1, <1>3, <2>1, <2>2 DEF IInv, NeverStalls, RightBars, JobsAsk, WireIsOld
<1>4. CASE Abandon(jobs) /\ wire' = wire
  <2>1. jobs \in Seq(Job) /\ WaitersOf(jobs) = WaitersOf(jobs) \cup {}
        /\ {} \in SUBSET Calls /\ {} \subseteq posted /\ posted' = posted \ {} /\ fresh' = fresh
    BY <1>1 DEF IInv, BarsTypeOK
  <2> QED BY <1>2, <1>4, <2>1, AbandonKeeps
<1>5. CASE ~busy /\ jobs # <<>> /\ Start(jobs)
  BY <1>1, <1>2, <1>5, StartKeeps
<1> QED BY <1>1, <1>3, <1>4, <1>5 DEF Pump

-----------------------------------------------------------------------------
(* The session. *)

\* It goes down, by itself or for an error of the server, and everybody who waits fails.
LEMMA DisconnectedKeeps ==
    ASSUME IInv, Disconnected \/ \E m \in wire : ReceiveFatal(m)
    PROVE  IInv'
<1>1. Abandon(jobs) /\ UNCHANGED <<fresh, posted, gap>> /\ wire' \subseteq wire
      /\ isReady' \in BOOLEAN /\ conn' \in BOOLEAN
  BY DEF Disconnected, ReceiveFatal
<1>2. jobs \in Seq(Job) /\ WaitersOf(jobs) = WaitersOf(jobs) \cup {}
      /\ {} \in SUBSET Calls /\ {} \subseteq posted /\ posted' = posted \ {} /\ gap' \in BOOLEAN
  BY <1>1 DEF IInv, BarsTypeOK
<1> QED BY <1>1, <1>2, AbandonKeeps

\* Nothing else about the session touches a request.
LEMMA SessionKeeps ==
    ASSUME IInv, isReady' \in BOOLEAN, conn' \in BOOLEAN,
           UNCHANGED <<fresh, posted, requests, gap, answer>>
    PROVE  IInv'
<1>1. BarsTypeOK'
  BY DEF IInv, BarsTypeOK, requests
<1>2. EachOnce'
  BY DEF IInv, EachOnce, Places, requests
<1> QED BY <1>1, <1>2 DEF IInv, NeverStalls, RightBars, JobsAsk, WireIsOld, requests

-----------------------------------------------------------------------------
(* The theorems. *)

\* No call has been made, and nothing is out.
LEMMA InitIInv == BarsInit => IInv
<1> SUFFICES ASSUME BarsInit
             PROVE  IInv
  OBVIOUS
<1>1. BarsTypeOK
  <2>1. /\ isReady \in BOOLEAN /\ conn \in BOOLEAN /\ busy \in BOOLEAN /\ gap \in BOOLEAN
        /\ fresh \subseteq Calls /\ posted \subseteq Calls
    BY DEF BarsInit
  <2>2. <<>> \in Seq(Job) /\ <<>> \in Seq(Result) /\ 0 \in Nat
    OBVIOUS
  <2>3. jobs \in Seq(Job) /\ active \in Job /\ lastId \in Nat /\ pending \subseteq Nat
    BY <2>2, ConstantsTyped, Zenon DEF BarsInit
  <2>4. answer \in [Calls -> Seq(Result)] /\ wire \subseteq [id : Nat, key : Keys]
    BY <2>2, Zenon DEF BarsInit
  <2> QED BY <2>1, <2>3, <2>4, Zenon DEF BarsTypeOK
<1>2. EachOnce
  <2> SUFFICES ASSUME NEW c \in Calls
               PROVE  Places(c) = {} /\ c \in fresh /\ answer[c] = <<>>
    BY Zenon DEF EachOnce
  <2>1. DOMAIN jobs = {} /\ active.waiters = {}
    BY DEF BarsInit, NoJob
  <2>2. Places(c) = {}
    BY <2>1 DEF Places
  <2>3. c \in fresh /\ answer[c] = <<>>
    BY Zenon DEF BarsInit
  <2> QED BY <2>2, <2>3
<1> QED BY <1>1, <1>2 DEF IInv, BarsInit, NeverStalls, RightBars, JobsAsk, WireIsOld

\* One step per action.
LEMMA NextIInv == IInv /\ [BarsNext]_trendbars => IInv'
<1> SUFFICES ASSUME IInv, [BarsNext]_trendbars
             PROVE  IInv'
  OBVIOUS
<1>1. ASSUME NEW c \in Calls, Ask(c)
      PROVE  IInv'
  BY <1>1, AskKeeps
<1>2. ASSUME NEW c \in posted, RunAsk(c)
      PROVE  IInv'
  BY <1>2, RunAskKeeps
<1>3. ASSUME NEW id \in pending, Timeout(id)
      PROVE  IInv'
  BY <1>3, TimeoutKeeps
<1>4. CASE GapEnds
  BY <1>4, GapEndsKeeps
<1>5. ASSUME NEW m \in wire, NEW r \in {Failed, Bars(m.key)}, Receive(m, r)
      PROVE  IInv'
  BY <1>5, ReceiveKeeps
<1>6. CASE Disconnected \/ \E m \in wire : ReceiveFatal(m)
  BY <1>6, DisconnectedKeeps
<1>7. CASE Connected \/ BecomeReady \/ Reconnect
  <2>1. isReady' \in BOOLEAN /\ conn' \in BOOLEAN /\ UNCHANGED <<fresh, posted, requests, gap, answer>>
    BY <1>7 DEF IInv, BarsTypeOK, Connected, BecomeReady, Reconnect
  <2> QED BY <2>1, SessionKeeps
<1>8. CASE UNCHANGED trendbars
  <2>1. isReady' \in BOOLEAN /\ conn' \in BOOLEAN /\ UNCHANGED <<fresh, posted, requests, gap, answer>>
    BY <1>8 DEF IInv, BarsTypeOK, trendbars, session
  <2> QED BY <2>1, SessionKeeps
<1> QED BY <1>1, <1>2, <1>3, <1>4, <1>5, <1>6, <1>7, <1>8 DEF BarsNext, Loop

\* The strengthening is an invariant.
THEOREM Invariance == BarsSpec => []IInv
BY InitIInv, NextIInv, PTL DEF BarsSpec

\* Every variable keeps its type.
THEOREM TypeCorrect == BarsSpec => []BarsTypeOK
<1>1. IInv => BarsTypeOK
  BY DEF IInv
<1> QED BY <1>1, Invariance, PTL

\* However requests, answers, timeouts and lost sessions follow each other, a queue that
\* is not empty has the answer, the timeout or the end of a pause ahead that goes on with it.
THEOREM NeverStalled == BarsSpec => []NeverStalls
<1>1. IInv => NeverStalls
  BY DEF IInv
<1> QED BY <1>1, Invariance, PTL

\* No caller's callback runs twice, and none is dropped while it waits.
THEOREM AnsweredOnce == BarsSpec => []EachOnce
<1>1. IInv => EachOnce
  BY DEF IInv
<1> QED BY <1>1, Invariance, PTL

\* Late answers and answers of connections that were given up never reach a caller that
\* asked for something else.
THEOREM BarsAreRight == BarsSpec => []RightBars
<1>1. IInv => RightBars
  BY DEF IInv
<1> QED BY <1>1, Invariance, PTL

-----------------------------------------------------------------------------
(* Pairs of a candle and the level it does something to, when a track grows *)

\* The candles a market can make, and a sequence of them in the order they were made.
Candles == {Candle(n, s) : n \in Nat \ {0}, s \in Shapes}
Ordered(b) == \A m, n \in 1..Len(b) : m < n => b[m].at < b[n].at

\* A candle has a place in the market and three prices.
LEMMA CandleHas ==
    ASSUME StructureConstants, NEW c \in Candles
    PROVE  c.at \in Nat \ {0} /\ c.high \in Int /\ c.low \in Int /\ c.close \in Int
<1>1. PICK n \in Nat \ {0}, s \in Shapes : c = Candle(n, s)
  BY DEF Candles
<1>2. s.high \in Int /\ s.low \in Int /\ s.close \in Int
  BY DEF StructureConstants
<1> QED BY <1>1, <1>2 DEF Candle

\* Firsts, with the two relations D (Does) and B (Breaks) as sets of pairs; and its pairs at candle n.
FirstsOf(n, js, D, B) ==
    {p \in (1..n) \X js :
        /\ p[2] \in InForce(js, p[1]) /\ <<p[2], p[1]>> \in D
        /\ \A k \in p[2] + 2..p[1] - 1 : <<p[2], k>> \notin D /\ <<p[2], k>> \notin B}

FirstsAt(n, js, D, D2, B) ==
    {p \in {n} \X js : /\ \A k \in js : k <= p[2]
                       /\ <<p[2], n>> \in D2
                       /\ \A k \in p[2] + 2..n - 1 : <<p[2], k>> \notin D /\ <<p[2], k>> \notin B}

\* D and D2 agree on the levels js before candle n; the levels ks are those of js and at most candle n - 1.
Agree(js, n, D, D2) == \A j \in js : \A k \in 1..n - 1 : <<j, k>> \in D <=> <<j, k>> \in D2
Grows(n, js, ks) == /\ n \in Nat \ {0} /\ js \subseteq Nat /\ ks \subseteq Nat /\ js \subseteq ks
                    /\ \A j \in js : j <= n - 2
                    /\ \A j \in ks : j \notin js => j = n - 1

\* A candle more adds pairs at that candle, and changes none of those before it.
LEMMA FirstsGrow ==
    ASSUME NEW n, NEW js, NEW ks, Grows(n, js, ks), NEW D, NEW D2, NEW B, NEW B2,
           Agree(js, n, D, D2), Agree(js, n, B, B2)
    PROVE  FirstsOf(n, ks, D2, B2) = FirstsOf(n - 1, js, D, B) \cup FirstsAt(n, js, D, D2, B)
<1> DEFINE new == FirstsAt(n, js, D, D2, B)
           old == FirstsOf(n - 1, js, D, B)
           all == FirstsOf(n, ks, D2, B2)
<1> USE DEF Grows
<1>0. \A j \in js : \A k \in 1..n - 1 : (<<j, k>> \in D <=> <<j, k>> \in D2)
        /\ (<<j, k>> \in B <=> <<j, k>> \in B2)
  BY DEF Agree
<1>1. ASSUME NEW i \in 1..n, NEW j \in ks
      PROVE  <<i, j>> \in all <=> (<<i, j>> \in old \/ <<i, j>> \in new)
  <2>1. CASE i = n
    <3>1. <<i, j>> \notin old
      BY <2>1 DEF FirstsOf
    <3>2. j \in InForce(ks, i) <=> (j \in js /\ \A k \in js : k <= j)
      BY <2>1 DEF InForce
    <3>3. ASSUME j \in js PROVE \A k \in j + 2..n - 1 : (<<j, k>> \in D <=> <<j, k>> \in D2)
            /\ (<<j, k>> \in B <=> <<j, k>> \in B2)
      <4>1. \A k \in j + 2..n - 1 : k \in 1..n - 1
        BY <3>3
      <4> QED BY <1>0, <3>3, <4>1
    <3>4. <<i, j>> \in all <=> /\ j \in InForce(ks, i) /\ <<j, i>> \in D2
                               /\ \A k \in j + 2..i - 1 : <<j, k>> \notin D2 /\ <<j, k>> \notin B2
      BY DEF FirstsOf
    <3>5. <<i, j>> \in new <=> /\ j \in js /\ \A k \in js : k <= j
                               /\ <<j, n>> \in D2
                               /\ \A k \in j + 2..n - 1 : <<j, k>> \notin D /\ <<j, k>> \notin B
      BY <2>1 DEF FirstsAt
    <3> HIDE DEF all, old, new
    <3> QED BY <2>1, <3>1, <3>2, <3>3, <3>4, <3>5
  <2>2. CASE i \in 1..n - 1
    <3>1. <<i, j>> \notin new
      BY <2>2 DEF FirstsAt
    <3>2. j \in InForce(ks, i) => j \in js
      BY <2>2 DEF InForce
    <3>3. CASE j \notin js
      <4>1. <<i, j>> \notin old
        BY <3>3 DEF FirstsOf
      <4>2. <<i, j>> \in all => j \in InForce(ks, i)
        BY DEF FirstsOf
      <4> QED BY <3>1, <3>2, <3>3, <4>1, <4>2
    <3>4. CASE j \in js
      <4>1. j \in InForce(ks, i) <=> j \in InForce(js, i)
        BY <2>2, <3>4 DEF InForce
      <4>2. \A k \in j + 2..i - 1 : (<<j, k>> \in D <=> <<j, k>> \in D2) /\ (<<j, k>> \in B <=> <<j, k>> \in B2)
        <5>1. \A k \in j + 2..i - 1 : k \in 1..n - 1
          BY <2>2
        <5> QED BY <1>0, <3>4, <5>1
      <4>3. <<j, i>> \in D <=> <<j, i>> \in D2
        BY <1>0, <2>2, <3>4
      <4>4. <<i, j>> \in all <=> /\ j \in InForce(ks, i) /\ <<j, i>> \in D2
                                 /\ \A k \in j + 2..i - 1 : <<j, k>> \notin D2 /\ <<j, k>> \notin B2
        BY DEF FirstsOf
      <4>5. <<i, j>> \in old <=> /\ j \in InForce(js, i) /\ <<j, i>> \in D
                                 /\ \A k \in j + 2..i - 1 : <<j, k>> \notin D /\ <<j, k>> \notin B
        BY <2>2, <3>4 DEF FirstsOf
      <4> HIDE DEF all, old, new
      <4> QED BY <3>1, <4>1, <4>2, <4>3, <4>4, <4>5
    <3> QED BY <3>3, <3>4
  <2> QED BY <2>1, <2>2
<1>2. all \subseteq (1..n) \X ks
  BY DEF FirstsOf
<1>3. old \subseteq (1..n) \X ks /\ new \subseteq (1..n) \X ks
  <2>1. (1..n - 1) \X js \subseteq (1..n) \X ks /\ {n} \X js \subseteq (1..n) \X ks
    <3>1. 1..n - 1 \subseteq 1..n /\ {n} \subseteq 1..n
      OBVIOUS
    <3> QED BY <3>1, Zenon
  <2>2. old \subseteq (1..n - 1) \X js /\ new \subseteq {n} \X js
    BY DEF FirstsOf, FirstsAt
  <2> QED BY <2>1, <2>2
<1> HIDE DEF all, old, new
<1>4. ASSUME NEW p \in (1..n) \X ks PROVE p \in all <=> p \in old \cup new
  <2>1. p = <<p[1], p[2]>> /\ p[1] \in 1..n /\ p[2] \in ks
    OBVIOUS
  <2> QED BY <1>1, <2>1
<1>5. all = old \cup new
  BY <1>2, <1>3, <1>4
<1> QED BY <1>5 DEF all, old, new

-----------------------------------------------------------------------------
(* Highs, their breaks and their sweeps *)

\* Which candles close beyond a high, which dip through it, and the sweeps of highs.
BrokenHighs(b) == {p \in (1..Len(b)) \X (1..Len(b)) : BrokeHigh(b, p[1], p[2])}
DippedHighs(b) == {p \in (1..Len(b)) \X (1..Len(b)) : DippedHigh(b, p[1], p[2])}
HighSweeps(b) == Firsts(b, Highs(b), DippedHigh, BrokeHigh)

\* The breaks of highs, with the two relations as sets of pairs.
LEMMA BullsAre ==
    ASSUME NEW b \in Seq(Candles)
    PROVE  Bulls(b) = FirstsOf(Len(b), Highs(b), BrokenHighs(b), BrokenHighs(b))
<1>1. DOMAIN b = 1..Len(b) /\ Len(b) \in Nat
  OBVIOUS
<1>2. Highs(b) \subseteq 1..Len(b)
  BY <1>1 DEF Highs
<1>3. ASSUME NEW i \in 1..Len(b), NEW j \in 1..Len(b)
      PROVE  <<j, i>> \in BrokenHighs(b) <=> BrokeHigh(b, j, i)
  BY DEF BrokenHighs
<1>4. ASSUME NEW p \in (1..Len(b)) \X Highs(b)
      PROVE  p \in Bulls(b) <=> p \in FirstsOf(Len(b), Highs(b), BrokenHighs(b), BrokenHighs(b))
  <2>1. p[1] \in 1..Len(b) /\ p[2] \in 1..Len(b) /\ p[2] \in Highs(b)
    BY <1>2
  <2>2. \A k \in p[2] + 2..p[1] - 1 : k \in 1..Len(b)
    BY <1>1, <2>1
  <2> QED BY <1>1, <1>3, <2>1, <2>2 DEF Bulls, Firsts, FirstsOf
<1> QED BY <1>1, <1>4 DEF Bulls, Firsts, FirstsOf

\* The sweeps of highs, with the two relations as sets of pairs.
LEMMA HighSweepsAre ==
    ASSUME NEW b \in Seq(Candles)
    PROVE  HighSweeps(b) = FirstsOf(Len(b), Highs(b), DippedHighs(b), BrokenHighs(b))
<1>1. DOMAIN b = 1..Len(b) /\ Len(b) \in Nat
  OBVIOUS
<1>2. Highs(b) \subseteq 1..Len(b)
  BY <1>1 DEF Highs
<1>3. ASSUME NEW i \in 1..Len(b), NEW j \in 1..Len(b)
      PROVE  /\ <<j, i>> \in BrokenHighs(b) <=> BrokeHigh(b, j, i)
             /\ <<j, i>> \in DippedHighs(b) <=> DippedHigh(b, j, i)
  BY DEF BrokenHighs, DippedHighs
<1>4. ASSUME NEW p \in (1..Len(b)) \X Highs(b)
      PROVE  p \in HighSweeps(b) <=> p \in FirstsOf(Len(b), Highs(b), DippedHighs(b), BrokenHighs(b))
  <2>1. p[1] \in 1..Len(b) /\ p[2] \in 1..Len(b) /\ p[2] \in Highs(b)
    BY <1>2
  <2>2. \A k \in p[2] + 2..p[1] - 1 : k \in 1..Len(b)
    BY <1>1, <2>1
  <2> QED BY <1>1, <1>3, <2>1, <2>2 DEF HighSweeps, Firsts, FirstsOf
<1> QED BY <1>1, <1>4 DEF HighSweeps, Firsts, FirstsOf

\* What Highs(c) is when c is b and one candle more, bar.
HighsGrown(b, bar, c, n) ==
    /\ c \in Seq(Candles) /\ Len(c) = n /\ n \in Nat \ {0} /\ c[n] = bar
    /\ \A j \in 1..n - 1 : c[j] = b[j]
    /\ Highs(b) \subseteq 2..n - 2 /\ Highs(b) \subseteq Highs(c)
    /\ \A j \in Highs(c) \ Highs(b) : j = n - 1
    /\ n - 1 \in Highs(c) <=> n > 2 /\ IsHigh(b[n - 2], b[n - 1], bar)
    /\ \A j, k \in 1..n - 1 : BrokeHigh(c, j, k) <=> BrokeHigh(b, j, k)
    /\ \A j, k \in 1..n - 1 : DippedHigh(c, j, k) <=> DippedHigh(b, j, k)

\* A candle more makes the one before it a high or does not, and leaves the other highs as they are.
LEMMA HighsGrow ==
    ASSUME NEW b \in Seq(Candles), NEW bar \in Candles, NEW c, c = Append(b, bar),
           NEW n, n = Len(b) + 1
    PROVE  HighsGrown(b, bar, c, n)
<1>1. c \in Seq(Candles) /\ Len(c) = n /\ n \in Nat \ {0} /\ c[n] = bar
  OBVIOUS
<1>2. \A j \in 1..n - 1 : c[j] = b[j]
  OBVIOUS
<1>3. Highs(b) \subseteq 2..n - 2
  BY <1>1 DEF Highs
<1>4. ASSUME NEW j \in 2..n - 2 PROVE j \in Highs(b) <=> j \in Highs(c)
  <2>1. c[j - 1] = b[j - 1] /\ c[j] = b[j] /\ c[j + 1] = b[j + 1]
    BY <1>1, <1>2
  <2>2. j \in 2..Len(b) - 1 /\ j \in 2..Len(c) - 1
    BY <1>1
  <2> QED BY <2>1, <2>2 DEF Highs
<1>5. Highs(c) \subseteq 2..n - 1
  BY <1>1 DEF Highs
<1>6. n - 1 \in Highs(c) <=> n > 2 /\ IsHigh(b[n - 2], b[n - 1], bar)
  <2>1. n - 1 \in Highs(c) <=> n - 1 \in 2..Len(c) - 1 /\ IsHigh(c[(n - 1) - 1], c[n - 1], c[(n - 1) + 1])
    BY DEF Highs
  <2>2. n - 1 \in 2..Len(c) - 1 <=> n > 2
    BY <1>1
  <2>3. (n - 1) - 1 = n - 2 /\ (n - 1) + 1 = n
    BY <1>1
  <2>4. n > 2 => c[n - 2] = b[n - 2] /\ c[n - 1] = b[n - 1]
    BY <1>1, <1>2
  <2> QED BY <1>1, <2>1, <2>2, <2>3, <2>4
<1>7. Highs(b) \subseteq Highs(c) /\ \A j \in Highs(c) \ Highs(b) : j = n - 1
  <2>1. \A j \in 2..n - 1 : j \in 2..n - 2 \/ j = n - 1
    BY <1>1
  <2> QED BY <1>3, <1>4, <1>5, <2>1
<1>8. \A j, k \in 1..n - 1 : BrokeHigh(c, j, k) <=> BrokeHigh(b, j, k)
  BY <1>2 DEF BrokeHigh
<1>9. \A j, k \in 1..n - 1 : DippedHigh(c, j, k) <=> DippedHigh(b, j, k)
  BY <1>2 DEF DippedHigh, BrokeHigh
<1> QED BY <1>1, <1>2, <1>3, <1>6, <1>7, <1>8, <1>9 DEF HighsGrown

\* The breaks and the sweeps of highs at candle n.
BullsAt(b, c, n) == {p \in {n} \X Highs(b) : /\ \A k \in Highs(b) : k <= p[2]
                                       /\ BrokeHigh(c, p[2], n)
                                       /\ \A k \in p[2] + 2..n - 1 : ~BrokeHigh(b, p[2], k)}
HighSweepsAt(b, c, n) == {p \in {n} \X Highs(b) : /\ \A k \in Highs(b) : k <= p[2]
                                       /\ DippedHigh(c, p[2], n)
                                       /\ \A k \in p[2] + 2..n - 1 : ~DippedHigh(b, p[2], k)
                                            /\ ~BrokeHigh(b, p[2], k)}
BullsGrown(b, c, n) == Bulls(c) = Bulls(b) \cup BullsAt(b, c, n)
  /\ HighSweeps(c) = HighSweeps(b) \cup HighSweepsAt(b, c, n)

\* The breaks and sweeps of highs after one candle more: those before, and those at that candle.
LEMMA BullsGrow ==
    ASSUME NEW b \in Seq(Candles), NEW bar \in Candles, NEW c, c = Append(b, bar),
           NEW n, n = Len(b) + 1
    PROVE  BullsGrown(b, c, n)
<1>1. /\ c \in Seq(Candles) /\ Len(c) = n /\ n \in Nat \ {0} /\ c[n] = bar
      /\ Highs(b) \subseteq 2..n - 2 /\ Highs(b) \subseteq Highs(c)
      /\ \A j \in Highs(c) \ Highs(b) : j = n - 1
      /\ \A j, k \in 1..n - 1 : BrokeHigh(c, j, k) <=> BrokeHigh(b, j, k)
      /\ \A j, k \in 1..n - 1 : DippedHigh(c, j, k) <=> DippedHigh(b, j, k)
  <2>1. HighsGrown(b, bar, c, n)
    BY HighsGrow
  <2> QED BY <2>1 DEF HighsGrown
<1>2. Len(b) = n - 1 /\ Len(b) \in Nat
  BY <1>1
<1>3. Grows(n, Highs(b), Highs(c))
  <2>1. Highs(c) \subseteq Nat
    BY <1>1 DEF Highs
  <2> QED BY <1>1, <2>1 DEF Grows
<1>4. /\ Agree(Highs(b), n, BrokenHighs(b), BrokenHighs(c))
      /\ Agree(Highs(b), n, DippedHighs(b), DippedHighs(c))
  <2> SUFFICES ASSUME NEW j \in Highs(b), NEW k \in 1..n - 1
               PROVE  /\ <<j, k>> \in BrokenHighs(b) <=> <<j, k>> \in BrokenHighs(c)
                      /\ <<j, k>> \in DippedHighs(b) <=> <<j, k>> \in DippedHighs(c)
    BY DEF Agree
  <2>1. j \in 1..n - 1 /\ j \in 1..n /\ k \in 1..n
    BY <1>1
  <2> QED BY <1>1, <1>2, <2>1 DEF BrokenHighs, DippedHighs
<1> DEFINE breaks == FirstsAt(n, Highs(b), BrokenHighs(b), BrokenHighs(c), BrokenHighs(b))
           sweeps == FirstsAt(n, Highs(b), DippedHighs(b), DippedHighs(c), BrokenHighs(b))
<1>5. FirstsOf(n, Highs(c), BrokenHighs(c), BrokenHighs(c)) =
      FirstsOf(n - 1, Highs(b), BrokenHighs(b), BrokenHighs(b)) \cup breaks
  BY <1>3, <1>4, FirstsGrow
<1>6. FirstsOf(n, Highs(c), DippedHighs(c), BrokenHighs(c)) =
      FirstsOf(n - 1, Highs(b), DippedHighs(b), BrokenHighs(b)) \cup sweeps
  BY <1>3, <1>4, FirstsGrow
<1>7. ASSUME NEW p \in {n} \X Highs(b)
      PROVE  /\ <<p[2], n>> \in BrokenHighs(c) <=> BrokeHigh(c, p[2], n)
             /\ <<p[2], n>> \in DippedHighs(c) <=> DippedHigh(c, p[2], n)
             /\ \A k \in p[2] + 2..n - 1 : /\ <<p[2], k>> \in BrokenHighs(b) <=> BrokeHigh(b, p[2], k)
                                           /\ <<p[2], k>> \in DippedHighs(b) <=> DippedHigh(b, p[2], k)
  <2>1. p[2] \in 1..n - 1 /\ p[2] \in 1..n /\ n \in 1..n
    BY <1>1
  <2>2. \A k \in p[2] + 2..n - 1 : k \in 1..n - 1
    BY <1>1, <2>1
  <2> QED BY <1>1, <1>2, <2>1, <2>2 DEF BrokenHighs, DippedHighs
<1>8. Bulls(c) = FirstsOf(n, Highs(c), BrokenHighs(c), BrokenHighs(c))
        /\ Bulls(b) = FirstsOf(n - 1, Highs(b), BrokenHighs(b), BrokenHighs(b))
  BY <1>1, <1>2, BullsAre
<1>9. HighSweeps(c) = FirstsOf(n, Highs(c), DippedHighs(c), BrokenHighs(c))
        /\ HighSweeps(b) = FirstsOf(n - 1, Highs(b), DippedHighs(b), BrokenHighs(b))
  BY <1>1, <1>2, HighSweepsAre
<1>10. breaks = BullsAt(b, c, n)
  <2>1. \A p \in {n} \X Highs(b) : p \in breaks <=> p \in BullsAt(b, c, n)
    BY <1>7 DEF FirstsAt, BullsAt
  <2> QED BY <2>1 DEF FirstsAt, BullsAt
<1>11. sweeps = HighSweepsAt(b, c, n)
  <2>1. \A p \in {n} \X Highs(b) : p \in sweeps <=> p \in HighSweepsAt(b, c, n)
    BY <1>7 DEF FirstsAt, HighSweepsAt
  <2> QED BY <2>1 DEF FirstsAt, HighSweepsAt
<1> QED BY <1>5, <1>6, <1>8, <1>9, <1>10, <1>11 DEF BullsGrown

-----------------------------------------------------------------------------
(* What the engine makes of its high *)

\* A level at its place and price, broken or not and swept or not.
Level(at, price) == [at : {at}, price : {price}, broken : BOOLEAN, swept : BOOLEAN]

\* The engine's high is the latest high of the track, broken and swept as the candles after it show.
LatestHigh(b, j) == j \in Highs(b) /\ \A k \in Highs(b) : k <= j
HighKnown(p, b, j) ==
    /\ p \in Level(b[j].at, b[j].high)
    /\ p.broken <=> \E k \in j + 2..Len(b) : BrokeHigh(b, j, k)
    /\ ~p.broken => (p.swept <=> \E k \in j + 2..Len(b) : DippedHigh(b, j, k))
HighIs(p, b) == IF Highs(b) = {} THEN p = NoPivot
                ELSE \E j \in Highs(b) : LatestHigh(b, j) /\ HighKnown(p, b, j)

\* What Engine::onBar finds of the candle and its high, and what it makes of the high.
BreaksHigh(p, bar) == p # NoPivot /\ ~p.broken /\ bar.close > p.price + Buffer
GrazesHigh(p, bar) == p # NoPivot /\ ~p.broken /\ ~(bar.close > p.price + Buffer) /\ SweepsHigh(bar, p)
HighAfter(p, bar) == IF BreaksHigh(p, bar) THEN Broken(p) ELSE IF GrazesHigh(p, bar) THEN SweptOf(p) ELSE p

\* What it finds of a high that is known is what the candles show.
HighVerdict(p, b, bar, c, n, j) ==
    /\ BreaksHigh(p, bar) => BullsAt(b, c, n) = {<<n, j>>}
    /\ ~BreaksHigh(p, bar) => BullsAt(b, c, n) = {}
    /\ GrazesHigh(p, bar) => HighSweepsAt(b, c, n) = {<<n, j>>}
    /\ ~GrazesHigh(p, bar) => HighSweepsAt(b, c, n) = {}
    /\ HighKnown(HighAfter(p, bar), c, j)
    /\ b[j].at = p.at /\ p.at > 0 /\ j \in 2..n - 2

\* A level begins unbroken and unswept.
LEMMA PivotMade ==
    ASSUME NEW at, NEW price
    PROVE  /\ Pivot(at, price) \in Level(at, price)
           /\ Pivot(at, price).broken = FALSE /\ Pivot(at, price).swept = FALSE
  BY DEF Level, Pivot, NoPivot

\* Against a high that is known, the engine finds a break or a sweep exactly when the candles show one,
\* and what it then notes of the high is what the longer track says.
LEMMA HighJudged ==
    ASSUME StructureConstants, NEW b \in Seq(Candles), NEW bar \in Candles,
           NEW c, c = Append(b, bar), NEW n, n = Len(b) + 1,
           NEW p, NEW j, LatestHigh(b, j), HighKnown(p, b, j)
    PROVE  HighVerdict(p, b, bar, c, n, j)
<1>1. HighsGrown(b, bar, c, n)
  BY HighsGrow
<1>2. /\ c \in Seq(Candles) /\ Len(c) = n /\ n \in Nat \ {0} /\ c[n] = bar /\ Len(b) = n - 1
      /\ \A i \in 1..n - 1 : c[i] = b[i]
      /\ \A i, k \in 1..n - 1 : BrokeHigh(c, i, k) <=> BrokeHigh(b, i, k)
      /\ \A i, k \in 1..n - 1 : DippedHigh(c, i, k) <=> DippedHigh(b, i, k)
  BY <1>1 DEF HighsGrown
<1>3. j \in Highs(b) /\ j \in 2..n - 2 /\ j \in Nat /\ j + 2 <= n /\ j \in 1..n - 1
  <2>1. Highs(b) \subseteq 2..n - 2
    BY <1>1 DEF HighsGrown
  <2> QED BY <1>2, <2>1 DEF LatestHigh
<1>4. ASSUME NEW q \in {n} \X Highs(b), \A k \in Highs(b) : k <= q[2] PROVE q = <<n, j>>
  <2>1. q[2] \in Highs(b) /\ q = <<n, q[2]>>
    OBVIOUS
  <2>2. Highs(b) \subseteq Nat
    BY <1>1 DEF HighsGrown
  <2>3. q[2] <= j /\ j <= q[2]
    BY <1>3, <1>4, <2>1 DEF LatestHigh
  <2> QED BY <1>3, <2>1, <2>2, <2>3
<1>5. <<n, j>> \in {n} \X Highs(b) /\ \A k \in Highs(b) : k <= j
  BY <1>3 DEF LatestHigh
<1>6. b[j] \in Candles /\ b[j].at \in Nat \ {0} /\ b[j].high \in Int /\ bar.high \in Int /\ bar.close \in Int
  <2>1. b[j] \in Candles
    BY <1>2, <1>3
  <2> QED BY <2>1, CandleHas
<1>7. /\ BrokeHigh(c, j, n) <=> bar.close > b[j].high + Buffer
      /\ DippedHigh(c, j, n) <=> bar.high > b[j].high /\ bar.close < b[j].high /\ ~BrokeHigh(c, j, n)
      /\ ~(BrokeHigh(c, j, n) /\ DippedHigh(c, j, n))
  <2>1. c[j] = b[j]
    BY <1>2, <1>3
  <2> QED BY <1>2, <1>6, <2>1 DEF BrokeHigh, DippedHigh, StructureConstants
<1>8. /\ p.at = b[j].at /\ p.price = b[j].high /\ p # NoPivot
      /\ p.broken \in BOOLEAN /\ p.swept \in BOOLEAN
      /\ p.broken <=> \E k \in j + 2..n - 1 : BrokeHigh(b, j, k)
      /\ ~p.broken => (p.swept <=> \E k \in j + 2..n - 1 : DippedHigh(b, j, k))
  <2>1. p \in Level(b[j].at, b[j].high)
    BY DEF HighKnown
  <2>2. p.at = b[j].at /\ p.price = b[j].high /\ p.broken \in BOOLEAN /\ p.swept \in BOOLEAN
    BY <2>1 DEF Level
  <2>3. p # NoPivot
    BY <1>6, <2>2 DEF NoPivot
  <2> QED BY <1>2, <2>2, <2>3 DEF HighKnown
<1>9. /\ BreaksHigh(p, bar) <=> ~p.broken /\ BrokeHigh(c, j, n)
      /\ GrazesHigh(p, bar) <=> ~p.broken /\ ~p.swept /\ DippedHigh(c, j, n)
  BY <1>7, <1>8 DEF BreaksHigh, GrazesHigh, SweepsHigh
<1>10. /\ <<n, j>> \in BullsAt(b, c, n) <=> BreaksHigh(p, bar)
       /\ <<n, j>> \in HighSweepsAt(b, c, n) <=> GrazesHigh(p, bar)
  BY <1>5, <1>8, <1>9 DEF BullsAt, HighSweepsAt
<1>11. BullsAt(b, c, n) \subseteq {<<n, j>>} /\ HighSweepsAt(b, c, n) \subseteq {<<n, j>>}
  BY <1>4 DEF BullsAt, HighSweepsAt
<1>12. /\ BreaksHigh(p, bar) => BullsAt(b, c, n) = {<<n, j>>}
       /\ ~BreaksHigh(p, bar) => BullsAt(b, c, n) = {}
       /\ GrazesHigh(p, bar) => HighSweepsAt(b, c, n) = {<<n, j>>}
       /\ ~GrazesHigh(p, bar) => HighSweepsAt(b, c, n) = {}
  BY <1>10, <1>11, Zenon
<1>13. HighKnown(HighAfter(p, bar), c, j)
  <2> DEFINE q == HighAfter(p, bar)
  <2>2. c[j] = b[j]
    BY <1>2, <1>3
  <2>1. p \in Level(c[j].at, c[j].high)
    BY <2>2 DEF HighKnown
  <2>3. /\ (\E k \in j + 2..n : BrokeHigh(c, j, k)) <=> p.broken \/ BrokeHigh(c, j, n)
    <3>1. \A k \in j + 2..n - 1 : BrokeHigh(c, j, k) <=> BrokeHigh(b, j, k)
      BY <1>2, <1>3
    <3>2. n \in j + 2..n /\ \A k \in j + 2..n : k = n \/ k \in j + 2..n - 1
      BY <1>2, <1>3
    <3>3. \A k \in j + 2..n - 1 : k \in j + 2..n
      BY <1>2, <1>3
    <3> QED BY <1>8, <3>1, <3>2, <3>3
  <2>4. ~p.broken => ((\E k \in j + 2..n : DippedHigh(c, j, k)) <=> p.swept \/ DippedHigh(c, j, n))
    <3>1. \A k \in j + 2..n - 1 : DippedHigh(c, j, k) <=> DippedHigh(b, j, k)
      BY <1>2, <1>3
    <3>2. n \in j + 2..n /\ \A k \in j + 2..n : k = n \/ k \in j + 2..n - 1
      BY <1>2, <1>3
    <3>3. \A k \in j + 2..n - 1 : k \in j + 2..n
      BY <1>2, <1>3
    <3> QED BY <1>8, <3>1, <3>2, <3>3
  <2>5. /\ Broken(p) \in Level(c[j].at, c[j].high) /\ Broken(p).broken = TRUE /\ Broken(p).swept = p.swept
        /\ SweptOf(p) \in Level(c[j].at, c[j].high) /\ SweptOf(p).broken = p.broken /\ SweptOf(p).swept = TRUE
    BY <2>1 DEF Level, Broken, SweptOf
  <2>6. /\ q \in Level(c[j].at, c[j].high) /\ q.broken \in BOOLEAN /\ q.swept \in BOOLEAN
        /\ q.broken <=> p.broken \/ BrokeHigh(c, j, n)
        /\ ~q.broken => (q.swept <=> p.swept \/ DippedHigh(c, j, n))
    <3>1. CASE BreaksHigh(p, bar)
      <4>1. q = Broken(p)
        BY <3>1 DEF HighAfter
      <4> HIDE DEF q
      <4> QED BY <1>8, <1>9, <2>5, <3>1, <4>1
    <3>2. CASE GrazesHigh(p, bar)
      <4>1. ~BreaksHigh(p, bar)
        BY <3>2 DEF GrazesHigh, BreaksHigh
      <4>2. q = SweptOf(p)
        BY <3>2, <4>1 DEF HighAfter
      <4> HIDE DEF q
      <4> QED BY <1>7, <1>8, <1>9, <2>5, <3>2, <4>2
    <3>3. CASE ~BreaksHigh(p, bar) /\ ~GrazesHigh(p, bar)
      <4>1. q = p
        BY <3>3 DEF HighAfter
      <4> HIDE DEF q
      <4> QED BY <1>8, <1>9, <2>1, <2>2, <3>3, <4>1
    <3> QED BY <3>1, <3>2, <3>3
  <2> HIDE DEF q
  <2>7. ~q.broken => ~p.broken
    BY <2>6
  <2>8. HighKnown(q, c, j)
    BY <1>2, <2>3, <2>4, <2>6, <2>7 DEF HighKnown
  <2> QED BY <2>8 DEF q
<1> QED BY <1>3, <1>6, <1>8, <1>12, <1>13 DEF HighVerdict

\* What one candle does to the high, whether there is one or not.
HighStepped(p, b, bar, c, n) ==
    /\ BreaksHigh(p, bar) => \E j \in 1..n - 2 : b[j].at = p.at /\ BullsAt(b, c, n) = {<<n, j>>}
    /\ ~BreaksHigh(p, bar) => BullsAt(b, c, n) = {}
    /\ GrazesHigh(p, bar) => \E j \in 1..n - 2 : b[j].at = p.at /\ HighSweepsAt(b, c, n) = {<<n, j>>}
    /\ ~GrazesHigh(p, bar) => HighSweepsAt(b, c, n) = {}
    /\ HighIs(IF n - 1 \in Highs(c) THEN Pivot(b[n - 1].at, b[n - 1].high) ELSE HighAfter(p, bar), c)

\* The same whether or not there is a high, and whether or not the candle confirms a new one.
LEMMA HighStep ==
    ASSUME StructureConstants, NEW b \in Seq(Candles), NEW bar \in Candles,
           NEW c, c = Append(b, bar), NEW n, n = Len(b) + 1,
           NEW p, HighIs(p, b)
    PROVE  HighStepped(p, b, bar, c, n)
<1>1. HighsGrown(b, bar, c, n)
  BY HighsGrow
<1>2. /\ c \in Seq(Candles) /\ Len(c) = n /\ n \in Nat \ {0} /\ c[n] = bar /\ Len(b) = n - 1
      /\ \A i \in 1..n - 1 : c[i] = b[i]
      /\ Highs(b) \subseteq 2..n - 2 /\ Highs(b) \subseteq Highs(c)
      /\ \A i \in Highs(c) \ Highs(b) : i = n - 1
  BY <1>1 DEF HighsGrown
<1>3. ASSUME n - 1 \in Highs(c) PROVE HighIs(Pivot(b[n - 1].at, b[n - 1].high), c)
  <2> DEFINE q == Pivot(b[n - 1].at, b[n - 1].high)
  <2>1. LatestHigh(c, n - 1)
    BY <1>2, <1>3 DEF LatestHigh
  <2>2. n - 1 \in 1..n - 1
    <3>1. Highs(c) \subseteq 2..Len(c) - 1
      BY DEF Highs
    <3> QED BY <1>2, <1>3, <3>1
  <2>3. c[n - 1] = b[n - 1]
    BY <1>2, <2>2
  <2>4. q \in Level(c[n - 1].at, c[n - 1].high) /\ q.broken = FALSE /\ q.swept = FALSE
    BY <2>3, PivotMade
  <2>5. (n - 1) + 2..Len(c) = {}
    BY <1>2
  <2> HIDE DEF q
  <2>6. HighKnown(q, c, n - 1)
    BY <2>4, <2>5 DEF HighKnown
  <2> QED BY <1>3, <2>1, <2>6 DEF HighIs, q
<1>4. CASE Highs(b) = {}
  <2>1. p = NoPivot
    BY <1>4 DEF HighIs
  <2>2. ~BreaksHigh(p, bar) /\ ~GrazesHigh(p, bar) /\ HighAfter(p, bar) = NoPivot
    BY <2>1 DEF BreaksHigh, GrazesHigh, HighAfter
  <2>3. BullsAt(b, c, n) = {} /\ HighSweepsAt(b, c, n) = {}
    BY <1>4 DEF BullsAt, HighSweepsAt
  <2>4. n - 1 \notin Highs(c) => Highs(c) = {}
    BY <1>2, <1>4
  <2>5. n - 1 \notin Highs(c) => HighIs(HighAfter(p, bar), c)
    BY <2>2, <2>4 DEF HighIs
  <2> QED BY <1>3, <2>2, <2>3, <2>5 DEF HighStepped
<1>5. CASE Highs(b) # {}
  <2>1. PICK j \in Highs(b) : LatestHigh(b, j) /\ HighKnown(p, b, j)
    BY <1>5 DEF HighIs
  <2>2. HighVerdict(p, b, bar, c, n, j)
    BY <2>1, HighJudged
  <2>3. j \in 1..n - 2
    <3>1. j \in 2..n - 2 /\ n \in Nat
      BY <1>2, <2>2 DEF HighVerdict
    <3> QED BY <3>1
  <2>4. ASSUME n - 1 \notin Highs(c) PROVE HighIs(HighAfter(p, bar), c)
    <3>1. Highs(c) = Highs(b)
      BY <1>2, <2>4
    <3>2. LatestHigh(c, j) /\ j \in Highs(c)
      BY <2>1, <3>1 DEF LatestHigh
    <3> QED BY <2>2, <3>2 DEF HighIs, HighVerdict
  <2> QED BY <1>3, <2>2, <2>3, <2>4 DEF HighVerdict, HighStepped
<1> QED BY <1>4, <1>5

-----------------------------------------------------------------------------
(* Lows, likewise *)

\* The test of Engine::onBar for the sweep of a low.
SweepsLow(bar, p) == bar.low < p.price /\ bar.close > p.price /\ ~p.swept

\* Which candles close beyond a low, which dip through it, and the sweeps of lows.
BrokenLows(b) == {p \in (1..Len(b)) \X (1..Len(b)) : BrokeLow(b, p[1], p[2])}
DippedLows(b) == {p \in (1..Len(b)) \X (1..Len(b)) : DippedLow(b, p[1], p[2])}
LowSweeps(b) == Firsts(b, Lows(b), DippedLow, BrokeLow)

\* The breaks of lows, with the two relations as sets of pairs.
LEMMA BearsAre ==
    ASSUME NEW b \in Seq(Candles)
    PROVE  Bears(b) = FirstsOf(Len(b), Lows(b), BrokenLows(b), BrokenLows(b))
<1>1. DOMAIN b = 1..Len(b) /\ Len(b) \in Nat
  OBVIOUS
<1>2. Lows(b) \subseteq 1..Len(b)
  BY <1>1 DEF Lows, Highs
<1>3. ASSUME NEW i \in 1..Len(b), NEW j \in 1..Len(b)
      PROVE  <<j, i>> \in BrokenLows(b) <=> BrokeLow(b, j, i)
  BY DEF BrokenLows
<1>4. ASSUME NEW p \in (1..Len(b)) \X Lows(b)
      PROVE  p \in Bears(b) <=> p \in FirstsOf(Len(b), Lows(b), BrokenLows(b), BrokenLows(b))
  <2>1. p[1] \in 1..Len(b) /\ p[2] \in 1..Len(b) /\ p[2] \in Lows(b)
    BY <1>2
  <2>2. \A k \in p[2] + 2..p[1] - 1 : k \in 1..Len(b)
    BY <1>1, <2>1
  <2> QED BY <1>1, <1>3, <2>1, <2>2 DEF Bears, Firsts, FirstsOf
<1> QED BY <1>1, <1>4 DEF Bears, Firsts, FirstsOf

\* The sweeps of lows, with the two relations as sets of pairs.
LEMMA LowSweepsAre ==
    ASSUME NEW b \in Seq(Candles)
    PROVE  LowSweeps(b) = FirstsOf(Len(b), Lows(b), DippedLows(b), BrokenLows(b))
<1>1. DOMAIN b = 1..Len(b) /\ Len(b) \in Nat
  OBVIOUS
<1>2. Lows(b) \subseteq 1..Len(b)
  BY <1>1 DEF Lows, Highs
<1>3. ASSUME NEW i \in 1..Len(b), NEW j \in 1..Len(b)
      PROVE  /\ <<j, i>> \in BrokenLows(b) <=> BrokeLow(b, j, i)
             /\ <<j, i>> \in DippedLows(b) <=> DippedLow(b, j, i)
  BY DEF BrokenLows, DippedLows
<1>4. ASSUME NEW p \in (1..Len(b)) \X Lows(b)
      PROVE  p \in LowSweeps(b) <=> p \in FirstsOf(Len(b), Lows(b), DippedLows(b), BrokenLows(b))
  <2>1. p[1] \in 1..Len(b) /\ p[2] \in 1..Len(b) /\ p[2] \in Lows(b)
    BY <1>2
  <2>2. \A k \in p[2] + 2..p[1] - 1 : k \in 1..Len(b)
    BY <1>1, <2>1
  <2> QED BY <1>1, <1>3, <2>1, <2>2 DEF LowSweeps, Firsts, FirstsOf
<1> QED BY <1>1, <1>4 DEF LowSweeps, Firsts, FirstsOf

\* What Lows(c) is when c is b and one candle more, bar.
LowsGrown(b, bar, c, n) ==
    /\ c \in Seq(Candles) /\ Len(c) = n /\ n \in Nat \ {0} /\ c[n] = bar
    /\ \A j \in 1..n - 1 : c[j] = b[j]
    /\ Lows(b) \subseteq 2..n - 2 /\ Lows(b) \subseteq Lows(c)
    /\ \A j \in Lows(c) \ Lows(b) : j = n - 1
    /\ n - 1 \in Lows(c) <=> n > 2 /\ IsLow(b[n - 2], b[n - 1], bar) /\ ~IsHigh(b[n - 2], b[n - 1], bar)
    /\ \A j, k \in 1..n - 1 : BrokeLow(c, j, k) <=> BrokeLow(b, j, k)
    /\ \A j, k \in 1..n - 1 : DippedLow(c, j, k) <=> DippedLow(b, j, k)

\* A candle more makes the one before it a low or does not, and leaves the other lows as they are.
LEMMA LowsGrow ==
    ASSUME NEW b \in Seq(Candles), NEW bar \in Candles, NEW c, c = Append(b, bar),
           NEW n, n = Len(b) + 1
    PROVE  LowsGrown(b, bar, c, n)
<1>1. c \in Seq(Candles) /\ Len(c) = n /\ n \in Nat \ {0} /\ c[n] = bar
  OBVIOUS
<1>2. \A j \in 1..n - 1 : c[j] = b[j]
  OBVIOUS
<1>3. Lows(b) \subseteq 2..n - 2
  BY <1>1 DEF Lows, Highs
<1>4. ASSUME NEW j \in 2..n - 2 PROVE j \in Lows(b) <=> j \in Lows(c)
  <2>1. c[j - 1] = b[j - 1] /\ c[j] = b[j] /\ c[j + 1] = b[j + 1]
    BY <1>1, <1>2
  <2>2. j \in 2..Len(b) - 1 /\ j \in 2..Len(c) - 1
    BY <1>1
  <2> QED BY <2>1, <2>2 DEF Lows, Highs
<1>5. Lows(c) \subseteq 2..n - 1
  BY <1>1 DEF Lows, Highs
<1>6. n - 1 \in Lows(c) <=> n > 2 /\ IsLow(b[n - 2], b[n - 1], bar) /\ ~IsHigh(b[n - 2], b[n - 1], bar)
  <2>1. n - 1 \in Lows(c) <=> n - 1 \in 2..Len(c) - 1 /\ IsLow(c[(n - 1) - 1], c[n - 1], c[(n - 1) + 1])
                         /\ ~IsHigh(c[(n - 1) - 1], c[n - 1], c[(n - 1) + 1])
    BY DEF Lows, Highs
  <2>2. n - 1 \in 2..Len(c) - 1 <=> n > 2
    BY <1>1
  <2>3. (n - 1) - 1 = n - 2 /\ (n - 1) + 1 = n
    BY <1>1
  <2>4. n > 2 => c[n - 2] = b[n - 2] /\ c[n - 1] = b[n - 1]
    BY <1>1, <1>2
  <2> QED BY <1>1, <2>1, <2>2, <2>3, <2>4
<1>7. Lows(b) \subseteq Lows(c) /\ \A j \in Lows(c) \ Lows(b) : j = n - 1
  <2>1. \A j \in 2..n - 1 : j \in 2..n - 2 \/ j = n - 1
    BY <1>1
  <2> QED BY <1>3, <1>4, <1>5, <2>1
<1>8. \A j, k \in 1..n - 1 : BrokeLow(c, j, k) <=> BrokeLow(b, j, k)
  BY <1>2 DEF BrokeLow
<1>9. \A j, k \in 1..n - 1 : DippedLow(c, j, k) <=> DippedLow(b, j, k)
  BY <1>2 DEF DippedLow, BrokeLow
<1> QED BY <1>1, <1>2, <1>3, <1>6, <1>7, <1>8, <1>9 DEF LowsGrown

\* The breaks and the sweeps of lows at candle n.
BearsAt(b, c, n) == {p \in {n} \X Lows(b) : /\ \A k \in Lows(b) : k <= p[2]
                                       /\ BrokeLow(c, p[2], n)
                                       /\ \A k \in p[2] + 2..n - 1 : ~BrokeLow(b, p[2], k)}
LowSweepsAt(b, c, n) == {p \in {n} \X Lows(b) : /\ \A k \in Lows(b) : k <= p[2]
                                       /\ DippedLow(c, p[2], n)
                                       /\ \A k \in p[2] + 2..n - 1 : ~DippedLow(b, p[2], k)
                                            /\ ~BrokeLow(b, p[2], k)}
BearsGrown(b, c, n) == Bears(c) = Bears(b) \cup BearsAt(b, c, n)
  /\ LowSweeps(c) = LowSweeps(b) \cup LowSweepsAt(b, c, n)

\* The breaks and sweeps of lows after one candle more: those before, and those at that candle.
LEMMA BearsGrow ==
    ASSUME NEW b \in Seq(Candles), NEW bar \in Candles, NEW c, c = Append(b, bar),
           NEW n, n = Len(b) + 1
    PROVE  BearsGrown(b, c, n)
<1>1. /\ c \in Seq(Candles) /\ Len(c) = n /\ n \in Nat \ {0} /\ c[n] = bar
      /\ Lows(b) \subseteq 2..n - 2 /\ Lows(b) \subseteq Lows(c)
      /\ \A j \in Lows(c) \ Lows(b) : j = n - 1
      /\ \A j, k \in 1..n - 1 : BrokeLow(c, j, k) <=> BrokeLow(b, j, k)
      /\ \A j, k \in 1..n - 1 : DippedLow(c, j, k) <=> DippedLow(b, j, k)
  <2>1. LowsGrown(b, bar, c, n)
    BY LowsGrow
  <2> QED BY <2>1 DEF LowsGrown
<1>2. Len(b) = n - 1 /\ Len(b) \in Nat
  BY <1>1
<1>3. Grows(n, Lows(b), Lows(c))
  <2>1. Lows(c) \subseteq Nat
    BY <1>1 DEF Lows, Highs
  <2> QED BY <1>1, <2>1 DEF Grows
<1>4. /\ Agree(Lows(b), n, BrokenLows(b), BrokenLows(c))
      /\ Agree(Lows(b), n, DippedLows(b), DippedLows(c))
  <2> SUFFICES ASSUME NEW j \in Lows(b), NEW k \in 1..n - 1
               PROVE  /\ <<j, k>> \in BrokenLows(b) <=> <<j, k>> \in BrokenLows(c)
                      /\ <<j, k>> \in DippedLows(b) <=> <<j, k>> \in DippedLows(c)
    BY DEF Agree
  <2>1. j \in 1..n - 1 /\ j \in 1..n /\ k \in 1..n
    BY <1>1
  <2> QED BY <1>1, <1>2, <2>1 DEF BrokenLows, DippedLows
<1> DEFINE breaks == FirstsAt(n, Lows(b), BrokenLows(b), BrokenLows(c), BrokenLows(b))
           sweeps == FirstsAt(n, Lows(b), DippedLows(b), DippedLows(c), BrokenLows(b))
<1>5. FirstsOf(n, Lows(c), BrokenLows(c), BrokenLows(c)) =
      FirstsOf(n - 1, Lows(b), BrokenLows(b), BrokenLows(b)) \cup breaks
  BY <1>3, <1>4, FirstsGrow
<1>6. FirstsOf(n, Lows(c), DippedLows(c), BrokenLows(c)) =
      FirstsOf(n - 1, Lows(b), DippedLows(b), BrokenLows(b)) \cup sweeps
  BY <1>3, <1>4, FirstsGrow
<1>7. ASSUME NEW p \in {n} \X Lows(b)
      PROVE  /\ <<p[2], n>> \in BrokenLows(c) <=> BrokeLow(c, p[2], n)
             /\ <<p[2], n>> \in DippedLows(c) <=> DippedLow(c, p[2], n)
             /\ \A k \in p[2] + 2..n - 1 : /\ <<p[2], k>> \in BrokenLows(b) <=> BrokeLow(b, p[2], k)
                                           /\ <<p[2], k>> \in DippedLows(b) <=> DippedLow(b, p[2], k)
  <2>1. p[2] \in 1..n - 1 /\ p[2] \in 1..n /\ n \in 1..n
    BY <1>1
  <2>2. \A k \in p[2] + 2..n - 1 : k \in 1..n - 1
    BY <1>1, <2>1
  <2> QED BY <1>1, <1>2, <2>1, <2>2 DEF BrokenLows, DippedLows
<1>8. Bears(c) = FirstsOf(n, Lows(c), BrokenLows(c), BrokenLows(c))
        /\ Bears(b) = FirstsOf(n - 1, Lows(b), BrokenLows(b), BrokenLows(b))
  BY <1>1, <1>2, BearsAre
<1>9. LowSweeps(c) = FirstsOf(n, Lows(c), DippedLows(c), BrokenLows(c))
        /\ LowSweeps(b) = FirstsOf(n - 1, Lows(b), DippedLows(b), BrokenLows(b))
  BY <1>1, <1>2, LowSweepsAre
<1>10. breaks = BearsAt(b, c, n)
  <2>1. \A p \in {n} \X Lows(b) : p \in breaks <=> p \in BearsAt(b, c, n)
    BY <1>7 DEF FirstsAt, BearsAt
  <2> QED BY <2>1 DEF FirstsAt, BearsAt
<1>11. sweeps = LowSweepsAt(b, c, n)
  <2>1. \A p \in {n} \X Lows(b) : p \in sweeps <=> p \in LowSweepsAt(b, c, n)
    BY <1>7 DEF FirstsAt, LowSweepsAt
  <2> QED BY <2>1 DEF FirstsAt, LowSweepsAt
<1> QED BY <1>5, <1>6, <1>8, <1>9, <1>10, <1>11 DEF BearsGrown

\* The engine's low is the latest low of the track, broken and swept as the candles after it show.
LatestLow(b, j) == j \in Lows(b) /\ \A k \in Lows(b) : k <= j
LowKnown(p, b, j) ==
    /\ p \in Level(b[j].at, b[j].low)
    /\ p.broken <=> \E k \in j + 2..Len(b) : BrokeLow(b, j, k)
    /\ ~p.broken => (p.swept <=> \E k \in j + 2..Len(b) : DippedLow(b, j, k))
LowIs(p, b) == IF Lows(b) = {} THEN p = NoPivot
                ELSE \E j \in Lows(b) : LatestLow(b, j) /\ LowKnown(p, b, j)

\* What Engine::onBar finds of the candle and its low, and what it makes of the low.
BreaksLow(p, bar) == p # NoPivot /\ ~p.broken /\ bar.close < p.price - Buffer
GrazesLow(p, bar) == p # NoPivot /\ ~p.broken /\ ~(bar.close < p.price - Buffer) /\ SweepsLow(bar, p)
LowAfter(p, bar) == IF BreaksLow(p, bar) THEN Broken(p) ELSE IF GrazesLow(p, bar) THEN SweptOf(p) ELSE p

\* What it finds of a low that is known is what the candles show.
LowVerdict(p, b, bar, c, n, j) ==
    /\ BreaksLow(p, bar) => BearsAt(b, c, n) = {<<n, j>>}
    /\ ~BreaksLow(p, bar) => BearsAt(b, c, n) = {}
    /\ GrazesLow(p, bar) => LowSweepsAt(b, c, n) = {<<n, j>>}
    /\ ~GrazesLow(p, bar) => LowSweepsAt(b, c, n) = {}
    /\ LowKnown(LowAfter(p, bar), c, j)
    /\ b[j].at = p.at /\ p.at > 0 /\ j \in 2..n - 2

\* Against a low that is known, the engine finds a break or a sweep exactly when the candles show one,
\* and what it then notes of the low is what the longer track says.
LEMMA LowJudged ==
    ASSUME StructureConstants, NEW b \in Seq(Candles), NEW bar \in Candles,
           NEW c, c = Append(b, bar), NEW n, n = Len(b) + 1,
           NEW p, NEW j, LatestLow(b, j), LowKnown(p, b, j)
    PROVE  LowVerdict(p, b, bar, c, n, j)
<1>1. LowsGrown(b, bar, c, n)
  BY LowsGrow
<1>2. /\ c \in Seq(Candles) /\ Len(c) = n /\ n \in Nat \ {0} /\ c[n] = bar /\ Len(b) = n - 1
      /\ \A i \in 1..n - 1 : c[i] = b[i]
      /\ \A i, k \in 1..n - 1 : BrokeLow(c, i, k) <=> BrokeLow(b, i, k)
      /\ \A i, k \in 1..n - 1 : DippedLow(c, i, k) <=> DippedLow(b, i, k)
  BY <1>1 DEF LowsGrown
<1>3. j \in Lows(b) /\ j \in 2..n - 2 /\ j \in Nat /\ j + 2 <= n /\ j \in 1..n - 1
  <2>1. Lows(b) \subseteq 2..n - 2
    BY <1>1 DEF LowsGrown
  <2> QED BY <1>2, <2>1 DEF LatestLow
<1>4. ASSUME NEW q \in {n} \X Lows(b), \A k \in Lows(b) : k <= q[2] PROVE q = <<n, j>>
  <2>1. q[2] \in Lows(b) /\ q = <<n, q[2]>>
    OBVIOUS
  <2>2. Lows(b) \subseteq Nat
    BY <1>1 DEF LowsGrown
  <2>3. q[2] <= j /\ j <= q[2]
    BY <1>3, <1>4, <2>1 DEF LatestLow
  <2> QED BY <1>3, <2>1, <2>2, <2>3
<1>5. <<n, j>> \in {n} \X Lows(b) /\ \A k \in Lows(b) : k <= j
  BY <1>3 DEF LatestLow
<1>6. b[j] \in Candles /\ b[j].at \in Nat \ {0} /\ b[j].low \in Int /\ bar.low \in Int /\ bar.close \in Int
  <2>1. b[j] \in Candles
    BY <1>2, <1>3
  <2> QED BY <2>1, CandleHas
<1>7. /\ BrokeLow(c, j, n) <=> bar.close < b[j].low - Buffer
      /\ DippedLow(c, j, n) <=> bar.low < b[j].low /\ bar.close > b[j].low /\ ~BrokeLow(c, j, n)
      /\ ~(BrokeLow(c, j, n) /\ DippedLow(c, j, n))
  <2>1. c[j] = b[j]
    BY <1>2, <1>3
  <2> QED BY <1>2, <1>6, <2>1 DEF BrokeLow, DippedLow, StructureConstants
<1>8. /\ p.at = b[j].at /\ p.price = b[j].low /\ p # NoPivot
      /\ p.broken \in BOOLEAN /\ p.swept \in BOOLEAN
      /\ p.broken <=> \E k \in j + 2..n - 1 : BrokeLow(b, j, k)
      /\ ~p.broken => (p.swept <=> \E k \in j + 2..n - 1 : DippedLow(b, j, k))
  <2>1. p \in Level(b[j].at, b[j].low)
    BY DEF LowKnown
  <2>2. p.at = b[j].at /\ p.price = b[j].low /\ p.broken \in BOOLEAN /\ p.swept \in BOOLEAN
    BY <2>1 DEF Level
  <2>3. p # NoPivot
    BY <1>6, <2>2 DEF NoPivot
  <2> QED BY <1>2, <2>2, <2>3 DEF LowKnown
<1>9. /\ BreaksLow(p, bar) <=> ~p.broken /\ BrokeLow(c, j, n)
      /\ GrazesLow(p, bar) <=> ~p.broken /\ ~p.swept /\ DippedLow(c, j, n)
  BY <1>7, <1>8 DEF BreaksLow, GrazesLow, SweepsLow
<1>10. /\ <<n, j>> \in BearsAt(b, c, n) <=> BreaksLow(p, bar)
       /\ <<n, j>> \in LowSweepsAt(b, c, n) <=> GrazesLow(p, bar)
  BY <1>5, <1>8, <1>9 DEF BearsAt, LowSweepsAt
<1>11. BearsAt(b, c, n) \subseteq {<<n, j>>} /\ LowSweepsAt(b, c, n) \subseteq {<<n, j>>}
  BY <1>4 DEF BearsAt, LowSweepsAt
<1>12. /\ BreaksLow(p, bar) => BearsAt(b, c, n) = {<<n, j>>}
       /\ ~BreaksLow(p, bar) => BearsAt(b, c, n) = {}
       /\ GrazesLow(p, bar) => LowSweepsAt(b, c, n) = {<<n, j>>}
       /\ ~GrazesLow(p, bar) => LowSweepsAt(b, c, n) = {}
  BY <1>10, <1>11, Zenon
<1>13. LowKnown(LowAfter(p, bar), c, j)
  <2> DEFINE q == LowAfter(p, bar)
  <2>2. c[j] = b[j]
    BY <1>2, <1>3
  <2>1. p \in Level(c[j].at, c[j].low)
    BY <2>2 DEF LowKnown
  <2>3. /\ (\E k \in j + 2..n : BrokeLow(c, j, k)) <=> p.broken \/ BrokeLow(c, j, n)
    <3>1. \A k \in j + 2..n - 1 : BrokeLow(c, j, k) <=> BrokeLow(b, j, k)
      BY <1>2, <1>3
    <3>2. n \in j + 2..n /\ \A k \in j + 2..n : k = n \/ k \in j + 2..n - 1
      BY <1>2, <1>3
    <3>3. \A k \in j + 2..n - 1 : k \in j + 2..n
      BY <1>2, <1>3
    <3> QED BY <1>8, <3>1, <3>2, <3>3
  <2>4. ~p.broken => ((\E k \in j + 2..n : DippedLow(c, j, k)) <=> p.swept \/ DippedLow(c, j, n))
    <3>1. \A k \in j + 2..n - 1 : DippedLow(c, j, k) <=> DippedLow(b, j, k)
      BY <1>2, <1>3
    <3>2. n \in j + 2..n /\ \A k \in j + 2..n : k = n \/ k \in j + 2..n - 1
      BY <1>2, <1>3
    <3>3. \A k \in j + 2..n - 1 : k \in j + 2..n
      BY <1>2, <1>3
    <3> QED BY <1>8, <3>1, <3>2, <3>3
  <2>5. /\ Broken(p) \in Level(c[j].at, c[j].low) /\ Broken(p).broken = TRUE /\ Broken(p).swept = p.swept
        /\ SweptOf(p) \in Level(c[j].at, c[j].low) /\ SweptOf(p).broken = p.broken /\ SweptOf(p).swept = TRUE
    BY <2>1 DEF Level, Broken, SweptOf
  <2>6. /\ q \in Level(c[j].at, c[j].low) /\ q.broken \in BOOLEAN /\ q.swept \in BOOLEAN
        /\ q.broken <=> p.broken \/ BrokeLow(c, j, n)
        /\ ~q.broken => (q.swept <=> p.swept \/ DippedLow(c, j, n))
    <3>1. CASE BreaksLow(p, bar)
      <4>1. q = Broken(p)
        BY <3>1 DEF LowAfter
      <4> HIDE DEF q
      <4> QED BY <1>8, <1>9, <2>5, <3>1, <4>1
    <3>2. CASE GrazesLow(p, bar)
      <4>1. ~BreaksLow(p, bar)
        BY <3>2 DEF GrazesLow, BreaksLow
      <4>2. q = SweptOf(p)
        BY <3>2, <4>1 DEF LowAfter
      <4> HIDE DEF q
      <4> QED BY <1>7, <1>8, <1>9, <2>5, <3>2, <4>2
    <3>3. CASE ~BreaksLow(p, bar) /\ ~GrazesLow(p, bar)
      <4>1. q = p
        BY <3>3 DEF LowAfter
      <4> HIDE DEF q
      <4> QED BY <1>8, <1>9, <2>1, <2>2, <3>3, <4>1
    <3> QED BY <3>1, <3>2, <3>3
  <2> HIDE DEF q
  <2>7. ~q.broken => ~p.broken
    BY <2>6
  <2>8. LowKnown(q, c, j)
    BY <1>2, <2>3, <2>4, <2>6, <2>7 DEF LowKnown
  <2> QED BY <2>8 DEF q
<1> QED BY <1>3, <1>6, <1>8, <1>12, <1>13 DEF LowVerdict

\* What one candle does to the low, whether there is one or not.
LowStepped(p, b, bar, c, n) ==
    /\ BreaksLow(p, bar) => \E j \in 1..n - 2 : b[j].at = p.at /\ BearsAt(b, c, n) = {<<n, j>>}
    /\ ~BreaksLow(p, bar) => BearsAt(b, c, n) = {}
    /\ GrazesLow(p, bar) => \E j \in 1..n - 2 : b[j].at = p.at /\ LowSweepsAt(b, c, n) = {<<n, j>>}
    /\ ~GrazesLow(p, bar) => LowSweepsAt(b, c, n) = {}
    /\ LowIs(IF n - 1 \in Lows(c) THEN Pivot(b[n - 1].at, b[n - 1].low) ELSE LowAfter(p, bar), c)

\* The same whether or not there is a low, and whether or not the candle confirms a new one.
LEMMA LowStep ==
    ASSUME StructureConstants, NEW b \in Seq(Candles), NEW bar \in Candles,
           NEW c, c = Append(b, bar), NEW n, n = Len(b) + 1,
           NEW p, LowIs(p, b)
    PROVE  LowStepped(p, b, bar, c, n)
<1>1. LowsGrown(b, bar, c, n)
  BY LowsGrow
<1>2. /\ c \in Seq(Candles) /\ Len(c) = n /\ n \in Nat \ {0} /\ c[n] = bar /\ Len(b) = n - 1
      /\ \A i \in 1..n - 1 : c[i] = b[i]
      /\ Lows(b) \subseteq 2..n - 2 /\ Lows(b) \subseteq Lows(c)
      /\ \A i \in Lows(c) \ Lows(b) : i = n - 1
  BY <1>1 DEF LowsGrown
<1>3. ASSUME n - 1 \in Lows(c) PROVE LowIs(Pivot(b[n - 1].at, b[n - 1].low), c)
  <2> DEFINE q == Pivot(b[n - 1].at, b[n - 1].low)
  <2>1. LatestLow(c, n - 1)
    BY <1>2, <1>3 DEF LatestLow
  <2>2. n - 1 \in 1..n - 1
    <3>1. Lows(c) \subseteq 2..Len(c) - 1
      BY DEF Lows, Highs
    <3> QED BY <1>2, <1>3, <3>1
  <2>3. c[n - 1] = b[n - 1]
    BY <1>2, <2>2
  <2>4. q \in Level(c[n - 1].at, c[n - 1].low) /\ q.broken = FALSE /\ q.swept = FALSE
    BY <2>3, PivotMade
  <2>5. (n - 1) + 2..Len(c) = {}
    BY <1>2
  <2> HIDE DEF q
  <2>6. LowKnown(q, c, n - 1)
    BY <2>4, <2>5 DEF LowKnown
  <2> QED BY <1>3, <2>1, <2>6 DEF LowIs, q
<1>4. CASE Lows(b) = {}
  <2>1. p = NoPivot
    BY <1>4 DEF LowIs
  <2>2. ~BreaksLow(p, bar) /\ ~GrazesLow(p, bar) /\ LowAfter(p, bar) = NoPivot
    BY <2>1 DEF BreaksLow, GrazesLow, LowAfter
  <2>3. BearsAt(b, c, n) = {} /\ LowSweepsAt(b, c, n) = {}
    BY <1>4 DEF BearsAt, LowSweepsAt
  <2>4. n - 1 \notin Lows(c) => Lows(c) = {}
    BY <1>2, <1>4
  <2>5. n - 1 \notin Lows(c) => LowIs(LowAfter(p, bar), c)
    BY <2>2, <2>4 DEF LowIs
  <2> QED BY <1>3, <2>2, <2>3, <2>5 DEF LowStepped
<1>5. CASE Lows(b) # {}
  <2>1. PICK j \in Lows(b) : LatestLow(b, j) /\ LowKnown(p, b, j)
    BY <1>5 DEF LowIs
  <2>2. LowVerdict(p, b, bar, c, n, j)
    BY <2>1, LowJudged
  <2>3. j \in 1..n - 2
    <3>1. j \in 2..n - 2 /\ n \in Nat
      BY <1>2, <2>2 DEF LowVerdict
    <3> QED BY <3>1
  <2>4. ASSUME n - 1 \notin Lows(c) PROVE LowIs(LowAfter(p, bar), c)
    <3>1. Lows(c) = Lows(b)
      BY <1>2, <2>4
    <3>2. LatestLow(c, j) /\ j \in Lows(c)
      BY <2>1, <3>1 DEF LatestLow
    <3> QED BY <2>2, <3>2 DEF LowIs, LowVerdict
  <2> QED BY <1>3, <2>2, <2>3, <2>4 DEF LowVerdict, LowStepped
<1> QED BY <1>4, <1>5

-----------------------------------------------------------------------------
(* The engine's step in parts *)

\* The types of levels, events and engines.
Pivots == [at : Nat, price : Int, broken : BOOLEAN, swept : BOOLEAN]
Events == [kind : {"bos", "choch", "sweep"}, dir : {"bull", "bear"}, from : Nat, at : Nat]
Engines == [applied : Nat, last : Seq(Candles), high : Pivots, low : Pivots, trend : {"none", "up", "down"},
            events : Seq(Events)]

\* The events after each half.
HighEvents(e, bar) ==
    IF BreaksHigh(e.high, bar) THEN Append(e.events, Event(Reversed(e.trend, "down"), "bull", e.high, bar))
    ELSE IF GrazesHigh(e.high, bar) THEN Append(e.events, Event("sweep", "bear", e.high, bar))
    ELSE e.events
LowEvents(e, bar) ==
    IF BreaksLow(e.low, bar) THEN Append(e.events, Event(Reversed(e.trend, "up"), "bear", e.low, bar))
    ELSE IF GrazesLow(e.low, bar) THEN Append(e.events, Event("sweep", "bull", e.low, bar))
    ELSE e.events

\* A level that is broken or swept stays a level, at its place.
LEMMA PivotTyped ==
    ASSUME NEW p \in Pivots PROVE Broken(p) \in Pivots /\ SweptOf(p) \in Pivots /\ Broken(p).at = p.at
      /\ SweptOf(p).at = p.at
  BY DEF Pivots, Broken, SweptOf

\* A candle makes a level.
LEMMA PivotTypes ==
    ASSUME StructureConstants, NEW c \in Candles,
           NEW price \in Int PROVE Pivot(c.at, price) \in Pivots /\ Pivot(c.at, price).at = c.at
<1>1. c.at \in Nat
  BY CandleHas
<1> QED BY <1>1 DEF Pivots, Pivot, NoPivot

\* What a candle does to a level is an event.
LEMMA EventTyped ==
    ASSUME StructureConstants, NEW kind \in {"bos", "choch", "sweep"}, NEW dir \in {"bull", "bear"},
           NEW p \in Pivots, NEW bar \in Candles
    PROVE  Event(kind, dir, p, bar) \in Events
<1>1. bar.at \in Nat
  BY CandleHas
<1> QED BY <1>1 DEF Event, Events, Pivots

\* The half of Engine::onBar for the last high: what it writes and what it leaves alone.
LEMMA HighHalf ==
    ASSUME StructureConstants, NEW e \in Engines, NEW bar \in Candles,
           NEW f, f = AgainstHigh(e, bar)
    PROVE  /\ f \in Engines /\ f.applied = e.applied /\ f.last = e.last /\ f.low = e.low
           /\ f.high = HighAfter(e.high, bar)
           /\ f.trend = IF BreaksHigh(e.high, bar) THEN "up" ELSE e.trend
           /\ f.events = HighEvents(e, bar)
<1> DEFINE p == e.high
<1>1. p \in Pivots /\ Broken(p) \in Pivots /\ SweptOf(p) \in Pivots /\ e.trend \in {"none", "up", "down"}
        /\ e.events \in Seq(Events)
  BY PivotTyped DEF Engines
<1>2. Reversed(e.trend, "down") \in {"bos", "choch", "sweep"}
  BY DEF Reversed
<1> DEFINE hit == Event(Reversed(e.trend, "down"), "bull", p, bar)
           graze == Event("sweep", "bear", p, bar)
<1>3. hit \in Events /\ graze \in Events
  BY <1>1, <1>2, EventTyped
<1>4. CASE BreaksHigh(p, bar)
  <2>1. f = [e EXCEPT !.high = Broken(p), !.trend = "up", !.events = Append(e.events, hit)]
    BY <1>4 DEF BreaksHigh, AgainstHigh
  <2>2. Append(e.events, hit) \in Seq(Events)
    BY <1>1, <1>3
  <2> HIDE DEF hit
  <2>3. HighEvents(e, bar) = Append(e.events, hit) /\ HighAfter(e.high, bar) = Broken(p)
    BY <1>4 DEF HighEvents, HighAfter, hit
  <2>4. /\ f \in Engines /\ f.applied = e.applied /\ f.last = e.last /\ f.low = e.low /\ f.high = Broken(p)
             /\ f.trend = "up"
        /\ f.events = Append(e.events, hit)
    BY <1>1, <2>1, <2>2 DEF Engines
  <2> QED BY <1>4, <2>3, <2>4
<1>5. CASE GrazesHigh(p, bar)
  <2>0. ~BreaksHigh(p, bar)
    BY <1>5 DEF GrazesHigh, BreaksHigh
  <2>1. f = [e EXCEPT !.high = SweptOf(p), !.events = Append(e.events, graze)]
    BY <1>5 DEF GrazesHigh, AgainstHigh
  <2>2. Append(e.events, graze) \in Seq(Events)
    BY <1>1, <1>3
  <2> HIDE DEF graze
  <2>3. HighEvents(e, bar) = Append(e.events, graze) /\ HighAfter(e.high, bar) = SweptOf(p)
    BY <1>5, <2>0 DEF HighEvents, HighAfter, graze
  <2>4. /\ f \in Engines /\ f.applied = e.applied /\ f.last = e.last /\ f.low = e.low /\ f.high = SweptOf(p)
             /\ f.trend = e.trend
        /\ f.events = Append(e.events, graze)
    BY <1>1, <2>1, <2>2 DEF Engines
  <2> QED BY <1>5, <2>0, <2>3, <2>4
<1>6. CASE ~BreaksHigh(p, bar) /\ ~GrazesHigh(p, bar)
  <2>1. f = e
    BY <1>6 DEF GrazesHigh, BreaksHigh, AgainstHigh
  <2>2. HighEvents(e, bar) = e.events /\ HighAfter(e.high, bar) = e.high
    BY <1>6 DEF HighEvents, HighAfter
  <2> QED BY <1>6, <2>1, <2>2
<1> QED BY <1>4, <1>5, <1>6

\* The half of Engine::onBar for the last low: what it writes and what it leaves alone.
LEMMA LowHalf ==
    ASSUME StructureConstants, NEW e \in Engines, NEW bar \in Candles, NEW f, f = AgainstLow(e, bar)
    PROVE  /\ f \in Engines /\ f.applied = e.applied /\ f.last = e.last /\ f.high = e.high
           /\ f.low = LowAfter(e.low, bar)
           /\ f.trend = IF BreaksLow(e.low, bar) THEN "down" ELSE e.trend
           /\ f.events = LowEvents(e, bar)
<1> DEFINE p == e.low
<1>1. p \in Pivots /\ Broken(p) \in Pivots /\ SweptOf(p) \in Pivots /\ e.trend \in {"none", "up", "down"}
        /\ e.events \in Seq(Events)
  BY PivotTyped DEF Engines
<1>2. Reversed(e.trend, "up") \in {"bos", "choch", "sweep"}
  BY DEF Reversed
<1> DEFINE hit == Event(Reversed(e.trend, "up"), "bear", p, bar)
           graze == Event("sweep", "bull", p, bar)
<1>3. hit \in Events /\ graze \in Events
  BY <1>1, <1>2, EventTyped
<1>4. CASE BreaksLow(p, bar)
  <2>1. f = [e EXCEPT !.low = Broken(p), !.trend = "down", !.events = Append(e.events, hit)]
    BY <1>4 DEF BreaksLow, AgainstLow
  <2>2. Append(e.events, hit) \in Seq(Events)
    BY <1>1, <1>3
  <2> HIDE DEF hit
  <2>3. LowEvents(e, bar) = Append(e.events, hit) /\ LowAfter(e.low, bar) = Broken(p)
    BY <1>4 DEF LowEvents, LowAfter, hit
  <2>4. /\ f \in Engines /\ f.applied = e.applied /\ f.last = e.last /\ f.high = e.high /\ f.low = Broken(p)
             /\ f.trend = "down"
        /\ f.events = Append(e.events, hit)
    BY <1>1, <2>1, <2>2 DEF Engines
  <2> QED BY <1>4, <2>3, <2>4
<1>5. CASE GrazesLow(p, bar)
  <2>0. ~BreaksLow(p, bar)
    BY <1>5 DEF GrazesLow, BreaksLow
  <2>1. f = [e EXCEPT !.low = SweptOf(p), !.events = Append(e.events, graze)]
    BY <1>5 DEF GrazesLow, AgainstLow, SweepsLow
  <2>2. Append(e.events, graze) \in Seq(Events)
    BY <1>1, <1>3
  <2> HIDE DEF graze
  <2>3. LowEvents(e, bar) = Append(e.events, graze) /\ LowAfter(e.low, bar) = SweptOf(p)
    BY <1>5, <2>0 DEF LowEvents, LowAfter, graze
  <2>4. /\ f \in Engines /\ f.applied = e.applied /\ f.last = e.last /\ f.high = e.high /\ f.low = SweptOf(p)
             /\ f.trend = e.trend
        /\ f.events = Append(e.events, graze)
    BY <1>1, <2>1, <2>2 DEF Engines
  <2> QED BY <1>5, <2>0, <2>3, <2>4
<1>6. CASE ~BreaksLow(p, bar) /\ ~GrazesLow(p, bar)
  <2>1. f = e
    BY <1>6 DEF GrazesLow, BreaksLow, AgainstLow, SweepsLow
  <2>2. LowEvents(e, bar) = e.events /\ LowAfter(e.low, bar) = e.low
    BY <1>6 DEF LowEvents, LowAfter
  <2> QED BY <1>6, <2>1, <2>2
<1> QED BY <1>4, <1>5, <1>6

\* The last two candles, or as many as there are.
LastTwo(b) == IF Len(b) = 0 THEN <<>> ELSE IF Len(b) = 1 THEN <<b[1]>> ELSE <<b[Len(b) - 1], b[Len(b)]>>

\* Two candles, one after the other.
LEMMA TwoOf ==
    ASSUME NEW x \in Candles, NEW y \in Candles
    PROVE  Append(<<x>>, y) = <<x, y>>
<1>1. <<x>> \in Seq(Candles) /\ Len(<<x>>) = 1 /\ <<x>>[1] = x
  OBVIOUS
<1> DEFINE s == <<x>> t == <<x, y>>
<1>2. t \in Seq(Candles) /\ Len(t) = 2 /\ t[1] = x /\ t[2] = y
  OBVIOUS
<1> HIDE DEF s, t
<1>3. Append(s, y) \in Seq(Candles) /\ Len(Append(s, y)) = 2 /\ Append(s, y)[1] = x /\ Append(s, y)[2] = y
  BY <1>1 DEF s
<1>4. \A i \in 1..2 : Append(s, y)[i] = t[i]
  BY <1>2, <1>3
<1>5. Append(s, y) = t
  BY <1>2, <1>3, <1>4, SeqEqual
<1> QED BY <1>5 DEF s, t

\* What Take does to each field.
TakenApart(b, c, n, e, f, g, t) ==
    /\ t \in Engines /\ t.applied = e.applied + 1 /\ t.last = LastTwo(c)
    /\ t.trend = g.trend /\ t.events = g.events
    /\ t.high = IF n - 1 \in Highs(c) THEN Pivot(b[n - 1].at, b[n - 1].high) ELSE f.high
    /\ t.low = IF n - 1 \in Lows(c) THEN Pivot(b[n - 1].at, b[n - 1].low) ELSE g.low

\* IncrementalStructure::append in parts: the high, the low, the trend, the events, and the last two candles.
LEMMA TakeIs ==
    ASSUME StructureConstants, NEW b \in Seq(Candles), NEW bar \in Candles,
           NEW c, c = Append(b, bar), NEW n, n = Len(b) + 1,
           NEW e \in Engines, e.last = LastTwo(b), NEW f, f = AgainstHigh(e, bar),
           NEW g, g = AgainstLow(f, bar), NEW t, t = Take(e, bar)
    PROVE  TakenApart(b, c, n, e, f, g, t)
<1>1. /\ f \in Engines /\ f.applied = e.applied /\ f.last = e.last
  BY HighHalf
<1>2. /\ g \in Engines /\ g.applied = e.applied /\ g.last = e.last /\ g.high = f.high
  BY <1>1, LowHalf
<1>3. /\ n - 1 \in Highs(c) <=> n > 2 /\ IsHigh(b[n - 2], b[n - 1], bar)
      /\ c \in Seq(Candles) /\ Len(c) = n /\ n \in Nat \ {0} /\ c[n] = bar /\ Len(b) = n - 1
      /\ \A i \in 1..n - 1 : c[i] = b[i]
  <2>1. HighsGrown(b, bar, c, n)
    BY HighsGrow
  <2> QED BY <2>1 DEF HighsGrown
<1>4. n - 1 \in Lows(c) <=> n > 2 /\ IsLow(b[n - 2], b[n - 1], bar) /\ ~IsHigh(b[n - 2], b[n - 1], bar)
  <2>1. LowsGrown(b, bar, c, n)
    BY LowsGrow
  <2> QED BY <2>1 DEF LowsGrown
<1> DEFINE j == OnPivot(g, bar)
           newHigh == Pivot(b[n - 1].at, b[n - 1].high)
           newLow == Pivot(b[n - 1].at, b[n - 1].low)
<1>5. n > 2 => newHigh \in Pivots /\ newLow \in Pivots
  <2> SUFFICES ASSUME n > 2 PROVE newHigh \in Pivots /\ newLow \in Pivots
    OBVIOUS
  <2>1. b[n - 1] \in Candles
    BY <1>3
  <2>2. b[n - 1].high \in Int /\ b[n - 1].low \in Int
    BY <2>1, CandleHas
  <2> QED BY <2>1, <2>2, PivotTypes
<1>6. IF n > 2 THEN Len(e.last) = 2 /\ e.last[1] = b[n - 2] /\ e.last[2] = b[n - 1] ELSE Len(e.last) = n - 1
  BY <1>3 DEF LastTwo
<1>7. j = IF n - 1 \in Highs(c) THEN [g EXCEPT !.high = newHigh]
        ELSE IF n - 1 \in Lows(c) THEN [g EXCEPT !.low = newLow] ELSE g
  <2>1. CASE n > 2
    <3>1. Len(g.last) = 2 /\ g.last[1] = b[n - 2] /\ g.last[2] = b[n - 1]
      BY <1>2, <1>6, <2>1
    <3> QED BY <1>3, <1>4, <2>1, <3>1 DEF OnPivot
  <2>2. CASE ~(n > 2)
    <3>1. Len(g.last) < 2
      BY <1>2, <1>3, <1>6, <2>2
    <3> QED BY <1>3, <1>4, <2>2, <3>1 DEF OnPivot
  <2> QED BY <2>1, <2>2
<1> HIDE DEF newHigh, newLow
<1>8. /\ j \in Engines /\ j.applied = g.applied /\ j.last = g.last /\ j.trend = g.trend /\ j.events = g.events
      /\ j.high = IF n - 1 \in Highs(c) THEN newHigh ELSE g.high
      /\ j.low = IF n - 1 \in Lows(c) THEN newLow ELSE g.low
  <2>1. CASE n - 1 \in Highs(c)
    <3>1. n - 1 \notin Lows(c) /\ newHigh \in Pivots
      BY <1>3, <1>4, <1>5, <2>1
    <3>2. j = [g EXCEPT !.high = newHigh]
      BY <1>7, <2>1
    <3> QED BY <1>2, <2>1, <3>1, <3>2 DEF Engines
  <2>2. CASE n - 1 \notin Highs(c) /\ n - 1 \in Lows(c)
    <3>1. newLow \in Pivots
      BY <1>4, <1>5, <2>2
    <3>2. j = [g EXCEPT !.low = newLow]
      BY <1>7, <2>2
    <3> QED BY <1>2, <2>2, <3>1, <3>2 DEF Engines
  <2>3. CASE n - 1 \notin Highs(c) /\ n - 1 \notin Lows(c)
    BY <1>2, <1>7, <2>3
  <2> QED BY <2>1, <2>2, <2>3
<1> DEFINE kept == IF Len(e.last) = 2 THEN <<e.last[2], bar>> ELSE Append(e.last, bar)
<1>9. kept \in Seq(Candles) /\ kept = LastTwo(c)
  <2>0. n > 1 => n - 1 \in 1..n - 1 /\ b[n - 1] = c[n - 1] /\ b[n - 1] \in Candles
    <3> SUFFICES ASSUME n > 1 PROVE n - 1 \in 1..n - 1 /\ b[n - 1] = c[n - 1] /\ b[n - 1] \in Candles
      OBVIOUS
    <3>1. n - 1 \in 1..n - 1
      BY <1>3
    <3>2. n - 1 \in 1..Len(b)
      BY <1>3
    <3> QED BY <1>3, <3>1, <3>2
  <2>1. CASE n > 2
    <3>1. kept = <<b[n - 1], bar>>
      BY <1>6, <2>1
    <3>2. <<b[n - 1], bar>> \in Seq(Candles)
      BY <2>0, <2>1
    <3>3. LastTwo(c) = <<b[n - 1], bar>>
      <4>1. Len(c) = n /\ n # 0 /\ n # 1 /\ c[n - 1] = b[n - 1] /\ c[n] = bar
        <5>1. Len(c) = n /\ c[n] = bar
          BY <1>3
        <5>2. n # 0 /\ n # 1 /\ n > 1
          BY <1>3, <2>1
        <5>3. c[n - 1] = b[n - 1]
          BY <2>0, <5>2
        <5> QED BY <5>1, <5>2, <5>3, Zenon
      <4>2. LastTwo(c) = <<c[n - 1], c[n]>>
        BY <4>1, Zenon DEF LastTwo
      <4> QED BY <4>1, <4>2, Zenon
    <3> HIDE DEF kept
    <3> QED BY <3>1, <3>2, <3>3, Zenon
  <2>2. CASE n = 2
    <3>1. n - 1 = 1 /\ Len(b) = 1
      BY <1>3, <2>2
    <3>2. e.last = <<b[1]>>
      BY <3>1 DEF LastTwo
    <3>3. kept = Append(<<b[1]>>, bar)
      BY <3>2
    <3>4. Append(<<b[1]>>, bar) = <<b[1], bar>>
      BY <2>0, <2>2, <3>1, TwoOf
    <3>5. <<b[1], bar>> \in Seq(Candles)
      BY <2>0, <2>2, <3>1
    <3>6. LastTwo(c) = <<b[1], bar>>
      <4>1. Len(c) = n /\ n # 0 /\ n # 1 /\ n - 1 = 1 /\ c[1] = b[1] /\ c[n] = bar
        <5>1. Len(c) = n /\ c[n] = bar
          BY <1>3
        <5>2. n # 0 /\ n # 1 /\ n > 1 /\ n - 1 = 1
          BY <1>3, <2>2
        <5>3. c[n - 1] = b[n - 1]
          BY <2>0, <5>2
        <5>4. c[1] = b[1]
          BY <5>2, <5>3
        <5> QED BY <5>1, <5>2, <5>4, Zenon
      <4>2. LastTwo(c) = <<c[n - 1], c[n]>>
        BY <4>1, Zenon DEF LastTwo
      <4> QED BY <4>1, <4>2, Zenon
    <3> HIDE DEF kept
    <3> QED BY <3>3, <3>4, <3>5, <3>6, Zenon
  <2>3. CASE n = 1
    <3>1. e.last = <<>>
      BY <1>3, <2>3 DEF LastTwo
    <3>2. kept = <<bar>>
      BY <3>1
    <3>3. LastTwo(c) = <<c[1]>>
      BY <1>3, <2>3 DEF LastTwo
    <3> HIDE DEF kept
    <3> QED BY <1>3, <2>3, <3>2, <3>3
  <2> QED BY <1>3, <2>1, <2>2, <2>3
<1>10. t = [j EXCEPT !.applied = @ + 1, !.last = kept]
  BY DEF Take, Judge
<1> HIDE DEF j, kept
<1>101. t = [j EXCEPT !.applied = j.applied + 1, !.last = kept]
  BY <1>10, Zenon
<1>102. j.applied + 1 \in Nat /\ j \in Engines /\ kept \in Seq(Candles)
  BY <1>8, <1>9 DEF Engines
<1>11. t \in Engines /\ t.applied = j.applied + 1 /\ t.last = kept /\ t.high = j.high /\ t.low = j.low
         /\ t.trend = j.trend /\ t.events = j.events
  BY <1>101, <1>102 DEF Engines
<1> QED BY <1>2, <1>8, <1>9, <1>11 DEF newHigh, newLow, TakenApart

-----------------------------------------------------------------------------
(* The trend and the meaning *)

\* The trend before candle i: what broke last.
DownAt(b, i) == LastIsOf(At(Bears(b)), At(Bulls(b)), i)
UpAt(b, i) == LastIsOf(At(Bulls(b)), At(Bears(b)), i) /\ ~DownAt(b, i)
TrendIs(t, b) == (t = "down" <=> DownAt(b, Len(b) + 1)) /\ (t = "up" <=> UpAt(b, Len(b) + 1))

\* The four parts of the meaning of a track.
BullMeaning(b) == {Event(Character(DownAt(b, p[1])), "bull", b[p[2]], b[p[1]]) : p \in Bulls(b)}
BearMeaning(b) == {Event(Character(p[1] \in At(Bulls(b)) \/ UpAt(b, p[1])), "bear", b[p[2]], b[p[1]])
  : p \in Bears(b)}
HighMeaning(b) == {Event("sweep", "bear", b[p[2]], b[p[1]]) : p \in HighSweeps(b)}
LowMeaning(b) == {Event("sweep", "bull", b[p[2]], b[p[1]]) : p \in LowSweeps(b)}

\* The meaning of a track is that of its breaks and sweeps.
LEMMA MeaningIs ==
    ASSUME NEW b
    PROVE  Meaning(b) = BullMeaning(b) \cup BearMeaning(b) \cup HighMeaning(b) \cup LowMeaning(b)
  BY Zenon DEF Meaning, BullMeaning, BearMeaning, HighMeaning, LowMeaning, HighSweeps, LowSweeps, DownAt, UpAt

\* Pairs of candles among the first n.
Within(pairs, n) == \A p \in pairs : p[1] \in 1..n /\ p[2] \in 1..n

\* Breaks and sweeps are pairs of candles of the track.
LEMMA FirstsWithin ==
    ASSUME NEW b \in Seq(Candles)
    PROVE  Within(Bulls(b), Len(b)) /\ Within(Bears(b), Len(b)) /\ Within(HighSweeps(b), Len(b))
      /\ Within(LowSweeps(b), Len(b))
<1>1. DOMAIN b = 1..Len(b) /\ Len(b) \in Nat
  OBVIOUS
<1>2. Highs(b) \subseteq 1..Len(b) /\ Lows(b) \subseteq 1..Len(b)
  BY <1>1 DEF Highs, Lows
<1>3. Within(Bulls(b), Len(b)) /\ Within(HighSweeps(b), Len(b))
  BY <1>1, <1>2 DEF Within, Bulls, HighSweeps, Firsts
<1>4. Within(Bears(b), Len(b)) /\ Within(LowSweeps(b), Len(b))
  BY <1>1, <1>2 DEF Within, Bears, LowSweeps, Firsts
<1> QED BY <1>3, <1>4

\* LastIsOf, when candle n may be of X and of Y.
LastGrown(n, ks, ls, X, Y) ==
    /\ \A i \in 1..n : LastIsOf(ks \cup X, ls \cup Y, i) <=> LastIsOf(ks, ls, i)
    /\ X = {n} => LastIsOf(ks \cup X, ls \cup Y, n + 1)
    /\ X = {} /\ Y = {n} => ~LastIsOf(ks \cup X, ls \cup Y, n + 1)
    /\ X = {} /\ Y = {} => (LastIsOf(ks \cup X, ls \cup Y, n + 1) <=> LastIsOf(ks, ls, n))
UpTo(ks, n) == ks \subseteq 1..n - 1
NoneOr(X, n) == X = {} \/ X = {n}

\* Which of two kinds came last, when candle n is of both, of one or of neither.
LEMMA LastGrow ==
    ASSUME NEW n \in Nat \ {0}, NEW ks, UpTo(ks, n), NEW ls, UpTo(ls, n),
           NEW X, NoneOr(X, n), NEW Y, NoneOr(Y, n)
    PROVE  LastGrown(n, ks, ls, X, Y)
<1> USE DEF UpTo, NoneOr
<1>1. ASSUME NEW i \in 1..n PROVE LastIsOf(ks \cup X, ls \cup Y, i) <=> LastIsOf(ks, ls, i)
  BY DEF LastIsOf
<1>2. ASSUME X = {n} PROVE LastIsOf(ks \cup X, ls \cup Y, n + 1)
  BY <1>2 DEF LastIsOf
<1>3. ASSUME X = {}, Y = {n} PROVE ~LastIsOf(ks \cup X, ls \cup Y, n + 1)
  BY <1>3 DEF LastIsOf
<1>4. ASSUME X = {}, Y = {} PROVE LastIsOf(ks \cup X, ls \cup Y, n + 1) <=> LastIsOf(ks, ls, n)
  BY <1>4 DEF LastIsOf
<1> QED BY <1>1, <1>2, <1>3, <1>4 DEF LastGrown

\* At most one pair, at candle n.
Single(new, n) == new = {} \/ \E j \in Nat : new = {<<n, j>>}

\* The candles at which something happened, after one candle more.
LEMMA AtGrow ==
    ASSUME NEW n \in Nat \ {0}, NEW old, Within(old, n - 1), NEW new, Single(new, n)
    PROVE  /\ UpTo(At(old), n)
           /\ At(old \cup new) = At(old) \cup At(new)
           /\ NoneOr(At(new), n) /\ (At(new) = {} <=> new = {})
<1>1. UpTo(At(old), n)
  BY DEF At, Within, UpTo
<1>2. At(old \cup new) = At(old) \cup At(new)
  BY DEF At
<1>3. CASE new = {}
  <2>1. At(new) = {}
    BY <1>3 DEF At
  <2> QED BY <1>1, <1>2, <1>3, <2>1 DEF NoneOr
<1>4. ASSUME NEW j \in Nat, new = {<<n, j>>} PROVE At(new) = {n} /\ new # {}
  BY <1>4 DEF At
<1> QED BY <1>1, <1>2, <1>3, <1>4 DEF Single, NoneOr

\* What a candle adds to the trend and to the meaning.
TrendGrown(b, c, n, ups, downs) ==
    /\ \A i \in 1..n : DownAt(c, i) <=> DownAt(b, i)
    /\ \A i \in 1..n : UpAt(c, i) <=> UpAt(b, i)
    /\ \A i \in 1..n - 1 : i \in At(Bulls(c)) <=> i \in At(Bulls(b))
    /\ n \in At(Bulls(c)) <=> ups # {}
    /\ downs # {} => DownAt(c, n + 1) /\ ~UpAt(c, n + 1)
    /\ downs = {} /\ ups # {} => UpAt(c, n + 1) /\ ~DownAt(c, n + 1)
    /\ downs = {} /\ ups = {} => (DownAt(c, n + 1) <=> DownAt(b, n)) /\ (UpAt(c, n + 1) <=> UpAt(b, n))

\* A break at candle n, a bear before a bull, decides the trend after it; none leaves the trend as it was.
LEMMA TrendGrows ==
    ASSUME NEW b \in Seq(Candles), NEW bar \in Candles, NEW c, c = Append(b, bar),
           NEW n, n = Len(b) + 1,
           NEW ups, Single(ups, n), Bulls(c) = Bulls(b) \cup ups,
           NEW downs, Single(downs, n), Bears(c) = Bears(b) \cup downs
    PROVE  TrendGrown(b, c, n, ups, downs)
<1>1. n \in Nat \ {0} /\ Len(b) = n - 1
  OBVIOUS
<1>2. Within(Bulls(b), n - 1) /\ Within(Bears(b), n - 1)
  BY <1>1, FirstsWithin
<1> DEFINE ks == At(Bulls(b)) ls == At(Bears(b))
           X == At(ups) Y == At(downs)
<1>3. /\ UpTo(ks, n) /\ At(Bulls(c)) = ks \cup X
      /\ NoneOr(X, n) /\ (X = {} <=> ups = {})
  BY <1>1, <1>2, AtGrow
<1>4. /\ UpTo(ls, n) /\ At(Bears(c)) = ls \cup Y
      /\ NoneOr(Y, n) /\ (Y = {} <=> downs = {})
  BY <1>1, <1>2, AtGrow
<1> HIDE DEF ks, ls, X, Y
<1>5. /\ (X = {n} <=> ups # {}) /\ (Y = {n} <=> downs # {})
  BY <1>3, <1>4 DEF NoneOr
<1>6. LastGrown(n, ks, ls, X, Y)
  BY <1>1, <1>3, <1>4, LastGrow
<1>7. LastGrown(n, ls, ks, Y, X)
  BY <1>1, <1>3, <1>4, LastGrow
<1>8. \A i : /\ DownAt(b, i) <=> LastIsOf(ls, ks, i)
             /\ DownAt(c, i) <=> LastIsOf(ls \cup Y, ks \cup X, i)
             /\ UpAt(b, i) <=> LastIsOf(ks, ls, i) /\ ~LastIsOf(ls, ks, i)
             /\ UpAt(c, i) <=> LastIsOf(ks \cup X, ls \cup Y, i) /\ ~LastIsOf(ls \cup Y, ks \cup X, i)
  BY <1>3, <1>4 DEF DownAt, UpAt, ks, ls
<1>90. ks = At(Bulls(b)) /\ n \notin ks
  <2>1. n \notin 1..n - 1
    BY <1>1
  <2>2. ks = At(Bulls(b))
    BY DEF ks
  <2> QED BY <1>3, <2>1, <2>2 DEF UpTo
<1>9. \A i \in 1..n - 1 : i \in At(Bulls(c)) <=> i \in At(Bulls(b))
  <2>1. \A i \in 1..n - 1 : i \notin X
    BY <1>1, <1>3 DEF NoneOr
  <2> QED BY <1>3, <1>90, <2>1
<1>10. n \in At(Bulls(c)) <=> ups # {}
  <2>1. n \in X <=> ups # {}
    BY <1>3, <1>5
  <2> QED BY <1>3, <1>90, <2>1
<1> QED BY <1>3, <1>4, <1>5, <1>6, <1>7, <1>8, <1>9, <1>10 DEF TrendGrown, LastGrown

-----------------------------------------------------------------------------
(* What a candle adds to the meaning *)

\* What candle n adds to the meaning of the breaks of highs,
BullMeaningGrown(b, bar, c, n, new) ==
    /\ new = {} => BullMeaning(c) = BullMeaning(b)
    /\ \A j \in 1..n - 1 : new = {<<n, j>>} => BullMeaning(c) = BullMeaning(b)
         \cup {Event(Character(DownAt(b, n)), "bull", b[j], bar)}

\* A break of a high adds one event to the meaning, and changes none of those before.
LEMMA BullMeaningGrows ==
    ASSUME NEW b \in Seq(Candles), NEW bar \in Candles, NEW c, c = Append(b, bar),
           NEW n, n = Len(b) + 1,
           NEW ups, NEW downs, TrendGrown(b, c, n, ups, downs), NEW new,
           Bulls(c) = Bulls(b) \cup new
    PROVE  BullMeaningGrown(b, bar, c, n, new)
<1> DEFINE F(p) == Event(Character(DownAt(b, p[1])), "bull", b[p[2]], b[p[1]])
           G(p) == Event(Character(DownAt(c, p[1])), "bull", c[p[2]], c[p[1]])
<1>1. n \in Nat \ {0} /\ Len(b) = n - 1 /\ c[n] = bar /\ \A i \in 1..n - 1 : c[i] = b[i]
  OBVIOUS
<1>2. ASSUME NEW p \in Bulls(b) PROVE F(p) = G(p)
  <2>1. p[1] \in 1..n - 1 /\ p[2] \in 1..n - 1
    BY <1>1, FirstsWithin DEF Within
  <2>2. c[p[1]] = b[p[1]] /\ c[p[2]] = b[p[2]]
    BY <1>1, <2>1
  <2>3. Character(DownAt(c, p[1])) = Character(DownAt(b, p[1]))
    <3>1. p[1] \in 1..n /\ (DownAt(c, p[1]) <=> DownAt(b, p[1]))
      BY <1>1, <2>1 DEF TrendGrown
    <3> QED BY <3>1 DEF Character
  <2> QED BY <2>2, <2>3
<1>3. ASSUME NEW j \in 1..n - 1 PROVE G(<<n, j>>) = Event(Character(DownAt(b, n)), "bull", b[j], bar)
  <2>1. c[n] = bar /\ c[j] = b[j]
    BY <1>1
  <2>2. Character(DownAt(c, n)) = Character(DownAt(b, n))
    <3>1. n \in 1..n /\ (DownAt(c, n) <=> DownAt(b, n))
      BY <1>1 DEF TrendGrown
    <3> QED BY <3>1 DEF Character
  <2> QED BY <2>1, <2>2
<1>4. BullMeaning(b) = {F(p) : p \in Bulls(b)} /\ BullMeaning(c) = {G(p) : p \in Bulls(c)}
  BY DEF BullMeaning
<1> HIDE DEF F, G
<1>5. ASSUME new = {} PROVE BullMeaning(c) = BullMeaning(b)
  <2>1. Bulls(c) = Bulls(b)
    BY <1>5
  <2> QED BY <1>2, <1>4, <2>1
<1>6. ASSUME NEW j \in 1..n - 1, new = {<<n, j>>} PROVE BullMeaning(c) = BullMeaning(b) \cup {G(<<n, j>>)}
  <2>1. Bulls(c) = Bulls(b) \cup {<<n, j>>}
    BY <1>6
  <2> QED BY <1>2, <1>4, <2>1
<1> QED BY <1>3, <1>5, <1>6 DEF BullMeaningGrown

\* of the breaks of lows,
BearMeaningGrown(b, bar, c, n, ups, new) ==
    /\ new = {} => BearMeaning(c) = BearMeaning(b)
    /\ \A j \in 1..n - 1 : new = {<<n, j>>} => BearMeaning(c) = BearMeaning(b)
         \cup {Event(Character(ups # {} \/ UpAt(b, n)), "bear", b[j], bar)}

\* A break of a low adds one event to the meaning, and changes none of those before.
LEMMA BearMeaningGrows ==
    ASSUME NEW b \in Seq(Candles), NEW bar \in Candles, NEW c, c = Append(b, bar),
           NEW n, n = Len(b) + 1,
           NEW ups, NEW downs, TrendGrown(b, c, n, ups, downs), NEW new,
           Bears(c) = Bears(b) \cup new
    PROVE  BearMeaningGrown(b, bar, c, n, ups, new)
<1> DEFINE F(p) == Event(Character(p[1] \in At(Bulls(b)) \/ UpAt(b, p[1])), "bear", b[p[2]], b[p[1]])
           G(p) == Event(Character(p[1] \in At(Bulls(c)) \/ UpAt(c, p[1])), "bear", c[p[2]], c[p[1]])
<1>1. n \in Nat \ {0} /\ Len(b) = n - 1 /\ c[n] = bar /\ \A i \in 1..n - 1 : c[i] = b[i]
  OBVIOUS
<1>2. ASSUME NEW p \in Bears(b) PROVE F(p) = G(p)
  <2>1. p[1] \in 1..n - 1 /\ p[2] \in 1..n - 1
    BY <1>1, FirstsWithin DEF Within
  <2>2. c[p[1]] = b[p[1]] /\ c[p[2]] = b[p[2]]
    BY <1>1, <2>1
  <2>3. Character(p[1] \in At(Bulls(c)) \/ UpAt(c, p[1])) = Character(p[1] \in At(Bulls(b)) \/ UpAt(b, p[1]))
    <3>1. p[1] \in 1..n /\ (UpAt(c, p[1]) <=> UpAt(b, p[1]))
            /\ (p[1] \in At(Bulls(c)) <=> p[1] \in At(Bulls(b)))
      BY <1>1, <2>1 DEF TrendGrown
    <3> QED BY <3>1 DEF Character
  <2> QED BY <2>2, <2>3
<1>3. ASSUME NEW j \in 1..n - 1 PROVE G(<<n, j>>) = Event(Character(ups # {} \/ UpAt(b, n)), "bear", b[j], bar)
  <2>1. c[n] = bar /\ c[j] = b[j]
    BY <1>1
  <2>2. Character(n \in At(Bulls(c)) \/ UpAt(c, n)) = Character(ups # {} \/ UpAt(b, n))
    <3>1. n \in 1..n /\ (UpAt(c, n) <=> UpAt(b, n)) /\ (n \in At(Bulls(c)) <=> ups # {})
      BY <1>1 DEF TrendGrown
    <3> QED BY <3>1 DEF Character
  <2> QED BY <2>1, <2>2
<1>4. BearMeaning(b) = {F(p) : p \in Bears(b)} /\ BearMeaning(c) = {G(p) : p \in Bears(c)}
  BY DEF BearMeaning
<1> HIDE DEF F, G
<1>5. ASSUME new = {} PROVE BearMeaning(c) = BearMeaning(b)
  <2>1. Bears(c) = Bears(b)
    BY <1>5
  <2> QED BY <1>2, <1>4, <2>1
<1>6. ASSUME NEW j \in 1..n - 1, new = {<<n, j>>} PROVE BearMeaning(c) = BearMeaning(b) \cup {G(<<n, j>>)}
  <2>1. Bears(c) = Bears(b) \cup {<<n, j>>}
    BY <1>6
  <2> QED BY <1>2, <1>4, <2>1
<1> QED BY <1>3, <1>5, <1>6 DEF BearMeaningGrown

\* of the sweeps of highs
HighMeaningGrown(b, bar, c, n, new) ==
    /\ new = {} => HighMeaning(c) = HighMeaning(b)
    /\ \A j \in 1..n - 1 : new = {<<n, j>>} => HighMeaning(c) = HighMeaning(b)
         \cup {Event("sweep", "bear", b[j], bar)}

\* A sweep of a high adds one event to the meaning, and changes none of those before.
LEMMA HighMeaningGrows ==
    ASSUME NEW b \in Seq(Candles), NEW bar \in Candles, NEW c, c = Append(b, bar),
           NEW n, n = Len(b) + 1,
           NEW ups, NEW downs, TrendGrown(b, c, n, ups, downs), NEW new,
           HighSweeps(c) = HighSweeps(b) \cup new
    PROVE  HighMeaningGrown(b, bar, c, n, new)
<1> DEFINE F(p) == Event("sweep", "bear", b[p[2]], b[p[1]])
           G(p) == Event("sweep", "bear", c[p[2]], c[p[1]])
<1>1. n \in Nat \ {0} /\ Len(b) = n - 1 /\ c[n] = bar /\ \A i \in 1..n - 1 : c[i] = b[i]
  OBVIOUS
<1>2. ASSUME NEW p \in HighSweeps(b) PROVE F(p) = G(p)
  <2>1. p[1] \in 1..n - 1 /\ p[2] \in 1..n - 1
    BY <1>1, FirstsWithin DEF Within
  <2>2. c[p[1]] = b[p[1]] /\ c[p[2]] = b[p[2]]
    BY <1>1, <2>1
  <2> QED BY <2>2
<1>3. ASSUME NEW j \in 1..n - 1 PROVE G(<<n, j>>) = Event("sweep", "bear", b[j], bar)
  <2>1. c[n] = bar /\ c[j] = b[j]
    BY <1>1
  <2> QED BY <2>1
<1>4. HighMeaning(b) = {F(p) : p \in HighSweeps(b)} /\ HighMeaning(c) = {G(p) : p \in HighSweeps(c)}
  BY DEF HighMeaning
<1> HIDE DEF F, G
<1>5. ASSUME new = {} PROVE HighMeaning(c) = HighMeaning(b)
  <2>1. HighSweeps(c) = HighSweeps(b)
    BY <1>5
  <2> QED BY <1>2, <1>4, <2>1
<1>6. ASSUME NEW j \in 1..n - 1, new = {<<n, j>>} PROVE HighMeaning(c) = HighMeaning(b) \cup {G(<<n, j>>)}
  <2>1. HighSweeps(c) = HighSweeps(b) \cup {<<n, j>>}
    BY <1>6
  <2> QED BY <1>2, <1>4, <2>1
<1> QED BY <1>3, <1>5, <1>6 DEF HighMeaningGrown

\* and of the sweeps of lows.
LowMeaningGrown(b, bar, c, n, new) ==
    /\ new = {} => LowMeaning(c) = LowMeaning(b)
    /\ \A j \in 1..n - 1 : new = {<<n, j>>} => LowMeaning(c) = LowMeaning(b)
         \cup {Event("sweep", "bull", b[j], bar)}

\* A sweep of a low adds one event to the meaning, and changes none of those before.
LEMMA LowMeaningGrows ==
    ASSUME NEW b \in Seq(Candles), NEW bar \in Candles, NEW c, c = Append(b, bar),
           NEW n, n = Len(b) + 1,
           NEW ups, NEW downs, TrendGrown(b, c, n, ups, downs), NEW new,
           LowSweeps(c) = LowSweeps(b) \cup new
    PROVE  LowMeaningGrown(b, bar, c, n, new)
<1> DEFINE F(p) == Event("sweep", "bull", b[p[2]], b[p[1]])
           G(p) == Event("sweep", "bull", c[p[2]], c[p[1]])
<1>1. n \in Nat \ {0} /\ Len(b) = n - 1 /\ c[n] = bar /\ \A i \in 1..n - 1 : c[i] = b[i]
  OBVIOUS
<1>2. ASSUME NEW p \in LowSweeps(b) PROVE F(p) = G(p)
  <2>1. p[1] \in 1..n - 1 /\ p[2] \in 1..n - 1
    BY <1>1, FirstsWithin DEF Within
  <2>2. c[p[1]] = b[p[1]] /\ c[p[2]] = b[p[2]]
    BY <1>1, <2>1
  <2> QED BY <2>2
<1>3. ASSUME NEW j \in 1..n - 1 PROVE G(<<n, j>>) = Event("sweep", "bull", b[j], bar)
  <2>1. c[n] = bar /\ c[j] = b[j]
    BY <1>1
  <2> QED BY <2>1
<1>4. LowMeaning(b) = {F(p) : p \in LowSweeps(b)} /\ LowMeaning(c) = {G(p) : p \in LowSweeps(c)}
  BY DEF LowMeaning
<1> HIDE DEF F, G
<1>5. ASSUME new = {} PROVE LowMeaning(c) = LowMeaning(b)
  <2>1. LowSweeps(c) = LowSweeps(b)
    BY <1>5
  <2> QED BY <1>2, <1>4, <2>1
<1>6. ASSUME NEW j \in 1..n - 1, new = {<<n, j>>} PROVE LowMeaning(c) = LowMeaning(b) \cup {G(<<n, j>>)}
  <2>1. LowSweeps(c) = LowSweeps(b) \cup {<<n, j>>}
    BY <1>6
  <2> QED BY <1>2, <1>4, <2>1
<1> QED BY <1>3, <1>5, <1>6 DEF LowMeaningGrown

-----------------------------------------------------------------------------
(* Each level is spent once, and what it is to have read a track *)

\* Events of highs; those of one side are of levels no newer than its level, which is spent by them;
\* and no level has two events but a sweep and then a break.
HighEvent(ev) == (ev.kind = "sweep") # (ev.dir = "bull")
SideSpent(events, p, side) ==
    \A m \in 1..Len(events) :
        HighEvent(events[m]) = side =>
            /\ events[m].from <= p.at
            /\ events[m].from = p.at => IF events[m].kind = "sweep" THEN p.swept ELSE p.broken
Once(events) ==
    \A m, n \in 1..Len(events) :
        m < n /\ events[m].from = events[n].from /\ HighEvent(events[m]) = HighEvent(events[n])
        => events[m].kind = "sweep" /\ events[n].kind # "sweep"

\* An event of a level that is neither broken nor, for a sweep, swept leaves no level spent twice.
LEMMA SpentGrows ==
    ASSUME NEW events \in Seq(Events), NEW z \in Events, NEW p \in Pivots, NEW q \in Pivots, NEW r,
           NEW side \in BOOLEAN,
           Once(events), SideSpent(events, p, side), SideSpent(events, r, ~side),
           HighEvent(z) = side, z.from = p.at, q.at = p.at,
           p.swept => q.swept, p.broken => q.broken, ~p.broken,
           IF z.kind = "sweep" THEN ~p.swept /\ q.swept ELSE q.broken
    PROVE  Once(Append(events, z)) /\ SideSpent(Append(events, z), q, side)
      /\ SideSpent(Append(events, z), r, ~side)
<1> DEFINE all == Append(events, z)
           n == Len(events) + 1
<1>1. all \in Seq(Events) /\ Len(all) = n /\ n \in Nat /\ all[n] = z /\ \A m \in 1..n - 1 : all[m] = events[m]
  OBVIOUS
<1>2. Len(events) = n - 1 /\ \A m \in 1..n : m = n \/ m \in 1..n - 1
  OBVIOUS
<1> HIDE DEF all, n
<1>3. \A m \in 1..n : all[m] \in Events
  BY <1>1
<1>4. ASSUME NEW m \in 1..n - 1, all[m].from = z.from, HighEvent(all[m]) = HighEvent(z)
      PROVE  all[m].kind = "sweep" /\ z.kind # "sweep"
  <2>1. all[m] = events[m] /\ m \in 1..Len(events)
    BY <1>1, <1>2
  <2> QED BY <1>4, <2>1 DEF SideSpent
<1>5. Once(all)
  <2> SUFFICES ASSUME NEW k \in 1..n, NEW m \in 1..n, k < m, all[k].from = all[m].from, HighEvent(all[k])
    = HighEvent(all[m])
               PROVE  all[k].kind = "sweep" /\ all[m].kind # "sweep"
    BY <1>1 DEF Once
  <2>1. k \in 1..n - 1 /\ k \in 1..Len(events)
    BY <1>1, <1>2
  <2>2. CASE m = n
    BY <1>1, <1>4, <2>1, <2>2
  <2>3. CASE m \in 1..n - 1
    BY <1>1, <1>2, <2>1, <2>3 DEF Once
  <2> QED BY <1>2, <2>2, <2>3
<1>6. SideSpent(all, q, side)
  <2> SUFFICES ASSUME NEW m \in 1..n, HighEvent(all[m]) = side
               PROVE  /\ all[m].from <= q.at
                      /\ all[m].from = q.at => IF all[m].kind = "sweep" THEN q.swept ELSE q.broken
    BY <1>1 DEF SideSpent
  <2>1. CASE m = n
    <3>1. q.at \in Nat
      BY DEF Pivots
    <3> QED BY <1>1, <2>1, <3>1
  <2>2. CASE m \in 1..n - 1
    <3>1. all[m] = events[m] /\ m \in 1..Len(events)
      BY <1>1, <1>2, <2>2
    <3> QED BY <3>1 DEF SideSpent
  <2> QED BY <1>2, <2>1, <2>2
<1>7. SideSpent(all, r, ~side)
  <2> SUFFICES ASSUME NEW m \in 1..n, HighEvent(all[m]) = ~side
               PROVE  /\ all[m].from <= r.at
                      /\ all[m].from = r.at => IF all[m].kind = "sweep" THEN r.swept ELSE r.broken
    BY <1>1 DEF SideSpent
  <2>1. m # n
    BY <1>1
  <2>2. all[m] = events[m] /\ m \in 1..Len(events)
    BY <1>1, <1>2, <2>1
  <2> QED BY <2>2 DEF SideSpent
<1> QED BY <1>5, <1>6, <1>7 DEF all

\* A newer level has no event yet.
LEMMA SpentNewer ==
    ASSUME NEW events \in Seq(Events), NEW p \in Pivots, NEW q \in Pivots, NEW side,
           SideSpent(events, p, side), p.at < q.at
    PROVE  SideSpent(events, q, side)
<1>1. ASSUME NEW m \in 1..Len(events), HighEvent(events[m]) = side
      PROVE  events[m].from <= q.at /\ events[m].from # q.at
  <2>1. events[m].from \in Nat /\ p.at \in Nat /\ q.at \in Nat
    <3>1. events[m] \in Events
      OBVIOUS
    <3> QED BY <3>1 DEF Events, Pivots
  <2> QED BY <1>1, <2>1 DEF SideSpent
<1> QED BY <1>1 DEF SideSpent

\* The inductive invariant of an engine: it has read the candles b.  Its levels and trend are what b
\* shows after its last candle, and its events are what b means, each level spent once.
Reading(e, b) ==
    /\ e \in Engines /\ e.applied = Len(b) /\ e.last = LastTwo(b)
    /\ HighIs(e.high, b) /\ LowIs(e.low, b) /\ TrendIs(e.trend, b)
    /\ ToSet(e.events) = Meaning(b)
    /\ Once(e.events) /\ SideSpent(e.events, e.high, TRUE) /\ SideSpent(e.events, e.low, FALSE)

\* An engine that was reset has read a track of no candles.
LEMMA ReadingStarts == Reading(Reset, <<>>)
<1>1. Reset \in Engines
  BY DEF Reset, Engines, NoPivot, Pivots
<1>2. Highs(<<>>) = {} /\ Lows(<<>>) = {}
  BY DEF Highs, Lows
<1>3. HighIs(Reset.high, <<>>) /\ LowIs(Reset.low, <<>>)
  BY <1>2 DEF HighIs, LowIs, Reset
<1>4. Bulls(<<>>) = {} /\ Bears(<<>>) = {} /\ HighSweeps(<<>>) = {} /\ LowSweeps(<<>>) = {}
  BY <1>2 DEF Bulls, Bears, HighSweeps, LowSweeps, Firsts
<1>5. At(Bulls(<<>>)) = {} /\ At(Bears(<<>>)) = {}
  BY <1>4 DEF At
<1>6. TrendIs(Reset.trend, <<>>)
  BY <1>5 DEF TrendIs, UpAt, DownAt, LastIsOf, Reset
<1>7. Meaning(<<>>) = {}
  BY <1>4, MeaningIs DEF BullMeaning, BearMeaning, HighMeaning, LowMeaning
<1>8. Reset.events = <<>> /\ Reset.applied = 0 /\ Reset.last = <<>>
  BY DEF Reset
<1>9. ToSet(<<>>) = {}
  BY DEF ToSet
<1>10. Once(<<>>) /\ SideSpent(<<>>, Reset.high, TRUE) /\ SideSpent(<<>>, Reset.low, FALSE)
  BY DEF Once, SideSpent
<1> QED BY <1>1, <1>3, <1>6, <1>7, <1>8, <1>9, <1>10 DEF Reading, LastTwo

-----------------------------------------------------------------------------
(* The news of each half is what the candle means *)

\* The levels in force are older than the last candle, so that a new one is newer than both.
LEMMA LevelOlder ==
    ASSUME StructureConstants, NEW b \in Seq(Candles), Ordered(b), Len(b) > 0, NEW p
    PROVE  (HighIs(p, b) => p.at < b[Len(b)].at) /\ (LowIs(p, b) => p.at < b[Len(b)].at)
<1> DEFINE n == Len(b)
<1>1. n \in Nat /\ n \in 1..n /\ b[n] \in Candles
  OBVIOUS
<1>2. b[n].at \in Nat \ {0}
  BY <1>1, CandleHas
<1>3. Highs(b) \subseteq 1..n - 1 /\ Lows(b) \subseteq 1..n - 1
  BY <1>1 DEF Highs, Lows
<1>4. ASSUME NEW j \in 1..n - 1 PROVE b[j].at < b[n].at
  BY <1>1 DEF Ordered
<1>5. NoPivot.at = 0
  BY DEF NoPivot
<1>6. ASSUME HighIs(p, b) PROVE p.at < b[n].at
  <2>1. CASE Highs(b) = {}
    BY <1>2, <1>5, <1>6, <2>1 DEF HighIs
  <2>2. CASE Highs(b) # {}
    <3>1. PICK j \in Highs(b) : HighKnown(p, b, j)
      BY <1>6, <2>2 DEF HighIs
    <3>2. p.at = b[j].at
      BY <3>1 DEF HighKnown, Level
    <3> QED BY <1>3, <1>4, <3>2
  <2> QED BY <2>1, <2>2
<1>7. ASSUME LowIs(p, b) PROVE p.at < b[n].at
  <2>1. CASE Lows(b) = {}
    BY <1>2, <1>5, <1>7, <2>1 DEF LowIs
  <2>2. CASE Lows(b) # {}
    <3>1. PICK j \in Lows(b) : LowKnown(p, b, j)
      BY <1>7, <2>2 DEF LowIs
    <3>2. p.at = b[j].at
      BY <3>1 DEF LowKnown, Level
    <3> QED BY <1>3, <1>4, <3>2
  <2> QED BY <2>1, <2>2
<1> QED BY <1>6, <1>7

\* What is appended is what is added.
LEMMA ToSetAppend ==
    ASSUME NEW s \in Seq(Events), NEW z \in Events
    PROVE  ToSet(Append(s, z)) = ToSet(s) \cup {z}
<1> DEFINE all == Append(s, z) n == Len(s) + 1
<1>1. /\ DOMAIN all = 1..n /\ DOMAIN s = 1..n - 1 /\ n \in Nat \ {0} /\ all[n] = z
      /\ \A m \in 1..n - 1 : all[m] = s[m]
  OBVIOUS
<1> HIDE DEF all, n
<1>2. ToSet(all) = {all[m] : m \in 1..n} /\ ToSet(s) = {s[m] : m \in 1..n - 1}
  BY <1>1 DEF ToSet
<1>3. 1..n = (1..n - 1) \cup {n}
  BY <1>1
<1> QED BY <1>1, <1>2, <1>3 DEF all

\* What a high or a low does in the engine.
HighNews(e, bar) ==
    IF BreaksHigh(e.high, bar) THEN {Event(Reversed(e.trend, "down"), "bull", e.high, bar)}
    ELSE IF GrazesHigh(e.high, bar) THEN {Event("sweep", "bear", e.high, bar)}
    ELSE {}
LowNews(e, bar) ==
    IF BreaksLow(e.low, bar) THEN {Event(Reversed(e.trend, "up"), "bear", e.low, bar)}
    ELSE IF GrazesLow(e.low, bar) THEN {Event("sweep", "bull", e.low, bar)}
    ELSE {}

\* The events of each half are those before and its news.
LEMMA NewsTold ==
    ASSUME StructureConstants, NEW e \in Engines, NEW bar \in Candles
    PROVE  /\ ToSet(HighEvents(e, bar)) = ToSet(e.events) \cup HighNews(e, bar)
           /\ ToSet(LowEvents(e, bar)) = ToSet(e.events) \cup LowNews(e, bar)
<1>1. e.high \in Pivots /\ e.low \in Pivots /\ e.events \in Seq(Events)
  BY DEF Engines
<1>2. Reversed(e.trend, "down") \in {"bos", "choch", "sweep"}
        /\ Reversed(e.trend, "up") \in {"bos", "choch", "sweep"}
  BY DEF Reversed
<1>3. /\ Event(Reversed(e.trend, "down"), "bull", e.high, bar) \in Events
      /\ Event("sweep", "bear", e.high, bar) \in Events
      /\ Event(Reversed(e.trend, "up"), "bear", e.low, bar) \in Events
      /\ Event("sweep", "bull", e.low, bar) \in Events
  BY <1>1, <1>2, EventTyped
<1>4. /\ ToSet(Append(e.events, Event(Reversed(e.trend, "down"), "bull", e.high, bar))) = ToSet(e.events)
           \cup {Event(Reversed(e.trend, "down"), "bull", e.high, bar)}
      /\ ToSet(Append(e.events, Event("sweep", "bear", e.high, bar))) = ToSet(e.events)
           \cup {Event("sweep", "bear", e.high, bar)}
      /\ ToSet(Append(e.events, Event(Reversed(e.trend, "up"), "bear", e.low, bar))) = ToSet(e.events)
           \cup {Event(Reversed(e.trend, "up"), "bear", e.low, bar)}
      /\ ToSet(Append(e.events, Event("sweep", "bull", e.low, bar))) = ToSet(e.events)
           \cup {Event("sweep", "bull", e.low, bar)}
  BY <1>1, <1>3, ToSetAppend
<1>5. ToSet(HighEvents(e, bar)) = ToSet(e.events) \cup HighNews(e, bar)
  BY <1>4 DEF HighEvents, HighNews
<1>6. ToSet(LowEvents(e, bar)) = ToSet(e.events) \cup LowNews(e, bar)
  BY <1>4 DEF LowEvents, LowNews
<1> QED BY <1>5, <1>6

\* c is b and one candle more.
Stepped(b, bar, c, n) == b \in Seq(Candles) /\ bar \in Candles /\ c = Append(b, bar) /\ n = Len(b) + 1

\* The news of the high half is what the candle adds to the meaning of the highs.
LEMMA HighNewsMeant ==
    ASSUME StructureConstants, NEW b, NEW bar, NEW c, NEW n, Stepped(b, bar, c, n),
           NEW e, HighIs(e.high, b), TrendIs(e.trend, b), NEW downs, TrendGrown(b, c, n,
           BullsAt(b, c, n), downs)
    PROVE  BullMeaning(c) \cup HighMeaning(c) = BullMeaning(b) \cup HighMeaning(b) \cup HighNews(e, bar)
<1> DEFINE ups == BullsAt(b, c, n) dips == HighSweepsAt(b, c, n) p == e.high
<1>0. b \in Seq(Candles) /\ bar \in Candles /\ c = Append(b, bar) /\ n = Len(b) + 1 /\ n \in Nat
  BY DEF Stepped
<1>1. Bulls(c) = Bulls(b) \cup ups /\ HighSweeps(c) = HighSweeps(b) \cup dips
  <2>1. BullsGrown(b, c, n)
    BY <1>0, BullsGrow
  <2> QED BY <2>1 DEF BullsGrown
<1>2. HighStepped(p, b, bar, c, n)
  BY <1>0, HighStep
<1>3. GrazesHigh(p, bar) => ~BreaksHigh(p, bar)
  BY DEF GrazesHigh, BreaksHigh
<1> DEFINE hit(j) == Event(Character(DownAt(b, n)), "bull", b[j], bar)
           graze(j) == Event("sweep", "bear", b[j], bar)
<1>4. /\ ups = {} => BullMeaning(c) = BullMeaning(b)
      /\ \A j \in 1..n - 1 : ups = {<<n, j>>} => BullMeaning(c) = BullMeaning(b) \cup {hit(j)}
  <2>1. BullMeaningGrown(b, bar, c, n, ups)
    BY <1>0, <1>1, BullMeaningGrows
  <2> QED BY <2>1 DEF BullMeaningGrown
<1>5. /\ dips = {} => HighMeaning(c) = HighMeaning(b)
      /\ \A j \in 1..n - 1 : dips = {<<n, j>>} => HighMeaning(c) = HighMeaning(b) \cup {graze(j)}
  <2>1. HighMeaningGrown(b, bar, c, n, dips)
    BY <1>0, <1>1, HighMeaningGrows
  <2> QED BY <2>1 DEF HighMeaningGrown
<1>6. \A j \in 1..n - 2 : j \in 1..n - 1
  BY <1>0
<1>7. ASSUME NEW j, b[j].at = p.at
      PROVE  hit(j) = Event(Reversed(e.trend, "down"), "bull", p, bar)
        /\ graze(j) = Event("sweep", "bear", p, bar)
  <2>1. Character(DownAt(b, n)) = Reversed(e.trend, "down")
    BY <1>0 DEF Character, Reversed, TrendIs
  <2> QED BY <1>7, <2>1 DEF Event
<1> HIDE DEF hit, graze, ups, dips
<1>8. CASE BreaksHigh(p, bar)
  <2>1. PICK j \in 1..n - 2 : b[j].at = p.at /\ ups = {<<n, j>>}
    BY <1>2, <1>8 DEF HighStepped, ups
  <2>2. dips = {}
    BY <1>2, <1>3, <1>8 DEF HighStepped, dips
  <2>3. HighNews(e, bar) = {hit(j)}
    BY <1>7, <1>8, <2>1 DEF HighNews
  <2> QED BY <1>4, <1>5, <1>6, <2>1, <2>2, <2>3
<1>9. CASE GrazesHigh(p, bar)
  <2>1. PICK j \in 1..n - 2 : b[j].at = p.at /\ dips = {<<n, j>>}
    BY <1>2, <1>9 DEF HighStepped, dips
  <2>2. ups = {}
    BY <1>2, <1>3, <1>9 DEF HighStepped, ups
  <2>3. HighNews(e, bar) = {graze(j)}
    BY <1>3, <1>7, <1>9, <2>1 DEF HighNews
  <2> QED BY <1>4, <1>5, <1>6, <2>1, <2>2, <2>3
<1>10. CASE ~BreaksHigh(p, bar) /\ ~GrazesHigh(p, bar)
  <2>1. ups = {} /\ dips = {}
    BY <1>2, <1>10 DEF HighStepped, ups, dips
  <2>2. HighNews(e, bar) = {}
    BY <1>10 DEF HighNews
  <2> QED BY <1>4, <1>5, <2>1, <2>2
<1> QED BY <1>8, <1>9, <1>10

\* The news of the low half is what the candle adds to the meaning of the lows, in the trend the high left.
LEMMA LowNewsMeant ==
    ASSUME StructureConstants, NEW b, NEW bar, NEW c, NEW n, Stepped(b, bar, c, n),
           NEW e, LowIs(e.low, b), NEW ups, TrendGrown(b, c, n, ups, BearsAt(b, c, n)),
           e.trend = "up" <=> ups # {} \/ UpAt(b, n)
    PROVE  BearMeaning(c) \cup LowMeaning(c) = BearMeaning(b) \cup LowMeaning(b) \cup LowNews(e, bar)
<1> DEFINE downs == BearsAt(b, c, n) dips == LowSweepsAt(b, c, n) p == e.low
<1>0. b \in Seq(Candles) /\ bar \in Candles /\ c = Append(b, bar) /\ n = Len(b) + 1 /\ n \in Nat
  BY DEF Stepped
<1>1. Bears(c) = Bears(b) \cup downs /\ LowSweeps(c) = LowSweeps(b) \cup dips
  <2>1. BearsGrown(b, c, n)
    BY <1>0, BearsGrow
  <2> QED BY <2>1 DEF BearsGrown
<1>2. LowStepped(p, b, bar, c, n)
  BY <1>0, LowStep
<1>3. GrazesLow(p, bar) => ~BreaksLow(p, bar)
  BY DEF GrazesLow, BreaksLow
<1> DEFINE hit(j) == Event(Character(ups # {} \/ UpAt(b, n)), "bear", b[j], bar)
           graze(j) == Event("sweep", "bull", b[j], bar)
<1>4. /\ downs = {} => BearMeaning(c) = BearMeaning(b)
      /\ \A j \in 1..n - 1 : downs = {<<n, j>>} => BearMeaning(c) = BearMeaning(b) \cup {hit(j)}
  <2>1. BearMeaningGrown(b, bar, c, n, ups, downs)
    BY <1>0, <1>1, BearMeaningGrows
  <2> QED BY <2>1 DEF BearMeaningGrown
<1>5. /\ dips = {} => LowMeaning(c) = LowMeaning(b)
      /\ \A j \in 1..n - 1 : dips = {<<n, j>>} => LowMeaning(c) = LowMeaning(b) \cup {graze(j)}
  <2>1. LowMeaningGrown(b, bar, c, n, dips)
    BY <1>0, <1>1, LowMeaningGrows
  <2> QED BY <2>1 DEF LowMeaningGrown
<1>6. \A j \in 1..n - 2 : j \in 1..n - 1
  BY <1>0
<1>7. ASSUME NEW j, b[j].at = p.at
      PROVE  hit(j) = Event(Reversed(e.trend, "up"), "bear", p, bar)
        /\ graze(j) = Event("sweep", "bull", p, bar)
  <2>1. Character(ups # {} \/ UpAt(b, n)) = Reversed(e.trend, "up")
    BY <1>0 DEF Character, Reversed
  <2> QED BY <1>7, <2>1 DEF Event
<1> HIDE DEF hit, graze, downs, dips
<1>8. CASE BreaksLow(p, bar)
  <2>1. PICK j \in 1..n - 2 : b[j].at = p.at /\ downs = {<<n, j>>}
    BY <1>2, <1>8 DEF LowStepped, downs
  <2>2. dips = {}
    BY <1>2, <1>3, <1>8 DEF LowStepped, dips
  <2>3. LowNews(e, bar) = {hit(j)}
    BY <1>7, <1>8, <2>1 DEF LowNews
  <2> QED BY <1>4, <1>5, <1>6, <2>1, <2>2, <2>3
<1>9. CASE GrazesLow(p, bar)
  <2>1. PICK j \in 1..n - 2 : b[j].at = p.at /\ dips = {<<n, j>>}
    BY <1>2, <1>9 DEF LowStepped, dips
  <2>2. downs = {}
    BY <1>2, <1>3, <1>9 DEF LowStepped, downs
  <2>3. LowNews(e, bar) = {graze(j)}
    BY <1>3, <1>7, <1>9, <2>1 DEF LowNews
  <2> QED BY <1>4, <1>5, <1>6, <2>1, <2>2, <2>3
<1>10. CASE ~BreaksLow(p, bar) /\ ~GrazesLow(p, bar)
  <2>1. downs = {} /\ dips = {}
    BY <1>2, <1>10 DEF LowStepped, downs, dips
  <2>2. LowNews(e, bar) = {}
    BY <1>10 DEF LowNews
  <2> QED BY <1>4, <1>5, <2>1, <2>2
<1> QED BY <1>8, <1>9, <1>10

-----------------------------------------------------------------------------
(* An engine that has read a track reads the next candle *)

\* The high half spends a high at most once, and no low.
LEMMA SpentHigh ==
    ASSUME StructureConstants, NEW e \in Engines, NEW bar \in Candles,
           Once(e.events), SideSpent(e.events, e.high, TRUE), SideSpent(e.events, e.low, FALSE)
    PROVE  /\ Once(HighEvents(e, bar))
           /\ SideSpent(HighEvents(e, bar), HighAfter(e.high, bar), TRUE)
           /\ SideSpent(HighEvents(e, bar), e.low, FALSE)
<1> DEFINE p == e.high
<1>1. p \in Pivots /\ e.events \in Seq(Events) /\ Broken(p) \in Pivots /\ SweptOf(p) \in Pivots
        /\ e.trend \in {"none", "up", "down"}
  BY PivotTyped DEF Engines
<1>2. Broken(p).at = p.at /\ Broken(p).broken = TRUE /\ Broken(p).swept = p.swept /\ SweptOf(p).at = p.at
        /\ SweptOf(p).swept = TRUE /\ SweptOf(p).broken = p.broken
  BY <1>1 DEF Pivots, Broken, SweptOf
<1>3. CASE BreaksHigh(p, bar)
  <2> DEFINE z == Event(Reversed(e.trend, "down"), "bull", p, bar)
  <2>1. Reversed(e.trend, "down") \in {"bos", "choch"}
    BY DEF Reversed
  <2>2. z \in Events
    BY <1>1, <2>1, EventTyped
  <2>3. z.kind # "sweep" /\ HighEvent(z) = TRUE /\ z.from = p.at
    BY <2>1 DEF Event, HighEvent
  <2>4. ~p.broken
    BY <1>3 DEF BreaksHigh
  <2> HIDE DEF z
  <2>5. Once(Append(e.events, z)) /\ SideSpent(Append(e.events, z), Broken(p), TRUE)
          /\ SideSpent(Append(e.events, z), e.low, ~TRUE)
    BY <1>1, <1>2, <2>2, <2>3, <2>4, SpentGrows
  <2> QED BY <1>3, <2>5 DEF HighEvents, HighAfter, z
<1>4. CASE GrazesHigh(p, bar)
  <2> DEFINE z == Event("sweep", "bear", p, bar)
  <2>2. z \in Events
    BY <1>1, EventTyped
  <2>3. z.kind = "sweep" /\ HighEvent(z) = TRUE /\ z.from = p.at
    BY DEF Event, HighEvent
  <2>4. ~p.broken /\ ~p.swept /\ ~BreaksHigh(p, bar)
    BY <1>4 DEF GrazesHigh, BreaksHigh, SweepsHigh
  <2> HIDE DEF z
  <2>5. Once(Append(e.events, z)) /\ SideSpent(Append(e.events, z), SweptOf(p), TRUE)
          /\ SideSpent(Append(e.events, z), e.low, ~TRUE)
    BY <1>1, <1>2, <2>2, <2>3, <2>4, SpentGrows
  <2> QED BY <1>4, <2>4, <2>5 DEF HighEvents, HighAfter, z
<1>5. CASE ~BreaksHigh(p, bar) /\ ~GrazesHigh(p, bar)
  BY <1>5 DEF HighEvents, HighAfter
<1> QED BY <1>3, <1>4, <1>5

\* The low half spends a low at most once, and no high.
LEMMA SpentLow ==
    ASSUME StructureConstants, NEW e \in Engines, NEW bar \in Candles,
           Once(e.events), SideSpent(e.events, e.high, TRUE), SideSpent(e.events, e.low, FALSE)
    PROVE  /\ Once(LowEvents(e, bar))
           /\ SideSpent(LowEvents(e, bar), LowAfter(e.low, bar), FALSE)
           /\ SideSpent(LowEvents(e, bar), e.high, TRUE)
<1> DEFINE p == e.low
<1>1. p \in Pivots /\ e.events \in Seq(Events) /\ Broken(p) \in Pivots /\ SweptOf(p) \in Pivots
        /\ e.trend \in {"none", "up", "down"}
  BY PivotTyped DEF Engines
<1>2. Broken(p).at = p.at /\ Broken(p).broken = TRUE /\ Broken(p).swept = p.swept /\ SweptOf(p).at = p.at
        /\ SweptOf(p).swept = TRUE /\ SweptOf(p).broken = p.broken
  BY <1>1 DEF Pivots, Broken, SweptOf
<1>3. CASE BreaksLow(p, bar)
  <2> DEFINE z == Event(Reversed(e.trend, "up"), "bear", p, bar)
  <2>1. Reversed(e.trend, "up") \in {"bos", "choch"}
    BY DEF Reversed
  <2>2. z \in Events
    BY <1>1, <2>1, EventTyped
  <2>3. z.kind # "sweep" /\ HighEvent(z) = FALSE /\ z.from = p.at
    BY <2>1 DEF Event, HighEvent
  <2>4. ~p.broken
    BY <1>3 DEF BreaksLow
  <2> HIDE DEF z
  <2>5. Once(Append(e.events, z)) /\ SideSpent(Append(e.events, z), Broken(p), FALSE)
          /\ SideSpent(Append(e.events, z), e.high, ~FALSE)
    BY <1>1, <1>2, <2>2, <2>3, <2>4, SpentGrows
  <2> QED BY <1>3, <2>5 DEF LowEvents, LowAfter, z
<1>4. CASE GrazesLow(p, bar)
  <2> DEFINE z == Event("sweep", "bull", p, bar)
  <2>2. z \in Events
    BY <1>1, EventTyped
  <2>3. z.kind = "sweep" /\ HighEvent(z) = FALSE /\ z.from = p.at
    BY DEF Event, HighEvent
  <2>4. ~p.broken /\ ~p.swept /\ ~BreaksLow(p, bar)
    BY <1>4 DEF GrazesLow, BreaksLow, SweepsLow
  <2> HIDE DEF z
  <2>5. Once(Append(e.events, z)) /\ SideSpent(Append(e.events, z), SweptOf(p), FALSE)
          /\ SideSpent(Append(e.events, z), e.high, ~FALSE)
    BY <1>1, <1>2, <2>2, <2>3, <2>4, SpentGrows
  <2> QED BY <1>4, <2>4, <2>5 DEF LowEvents, LowAfter, z
<1>5. CASE ~BreaksLow(p, bar) /\ ~GrazesLow(p, bar)
  BY <1>5 DEF LowEvents, LowAfter
<1> QED BY <1>3, <1>4, <1>5

\* The core of the proof: an engine that has read a track and takes one candle more has read the longer
\* track.
LEMMA ReadingStep ==
    ASSUME StructureConstants, NEW b, NEW bar, NEW c, NEW n, Stepped(b, bar, c, n), Ordered(c),
           NEW e, Reading(e, b)
    PROVE  Reading(Take(e, bar), c)
<1> DEFINE f == AgainstHigh(e, bar) g == AgainstLow(f, bar) t == Take(e, bar)
           ups == BullsAt(b, c, n) downs == BearsAt(b, c, n)
<1>1. b \in Seq(Candles) /\ bar \in Candles /\ c = Append(b, bar) /\ n = Len(b) + 1 /\ n \in Nat \ {0}
        /\ Len(b) = n - 1
  BY DEF Stepped
<1>2. Len(c) = n /\ \A i \in 1..n - 1 : c[i] = b[i]
  <2>1. HighsGrown(b, bar, c, n)
    BY <1>1, HighsGrow
  <2> QED BY <2>1 DEF HighsGrown
<1>3. Ordered(b)
  <2>1. \A i \in 1..n - 1 : i \in 1..n
    BY <1>1
  <2> QED BY <1>1, <1>2, <2>1 DEF Ordered
<1>4. /\ e \in Engines /\ e.applied = Len(b) /\ e.last = LastTwo(b)
      /\ HighIs(e.high, b) /\ LowIs(e.low, b) /\ TrendIs(e.trend, b)
      /\ ToSet(e.events) = Meaning(b)
      /\ Once(e.events) /\ SideSpent(e.events, e.high, TRUE) /\ SideSpent(e.events, e.low, FALSE)
  BY DEF Reading
<1>5. /\ f \in Engines /\ f.low = e.low /\ f.high = HighAfter(e.high, bar)
      /\ f.trend = IF BreaksHigh(e.high, bar) THEN "up" ELSE e.trend
      /\ f.events = HighEvents(e, bar)
  BY <1>1, <1>4, HighHalf
<1> HIDE DEF f
<1>6. /\ g \in Engines /\ g.high = f.high /\ g.low = LowAfter(f.low, bar)
      /\ g.trend = IF BreaksLow(f.low, bar) THEN "down" ELSE f.trend
      /\ g.events = LowEvents(f, bar)
  BY <1>1, <1>5, LowHalf
<1>7. TakenApart(b, c, n, e, f, g, t)
  BY <1>1, <1>4, TakeIs DEF f
<1> HIDE DEF g, t
<1>8. /\ t \in Engines /\ t.applied = e.applied + 1 /\ t.last = LastTwo(c)
      /\ t.trend = g.trend /\ t.events = g.events
      /\ t.high = IF n - 1 \in Highs(c) THEN Pivot(b[n - 1].at, b[n - 1].high) ELSE f.high
      /\ t.low = IF n - 1 \in Lows(c) THEN Pivot(b[n - 1].at, b[n - 1].low) ELSE g.low
  BY <1>7 DEF TakenApart
<1>9. HighStepped(e.high, b, bar, c, n) /\ LowStepped(e.low, b, bar, c, n)
  BY <1>1, <1>4, HighStep, LowStep
<1>10. /\ Single(ups, n) /\ (ups # {} <=> BreaksHigh(e.high, bar))
       /\ Single(downs, n) /\ (downs # {} <=> BreaksLow(e.low, bar))
  <2>1. \A j \in 1..n - 2 : j \in Nat /\ {<<n, j>>} # {}
    BY <1>1
  <2>2. Single(ups, n) /\ (ups # {} <=> BreaksHigh(e.high, bar))
    BY <1>9, <2>1 DEF HighStepped, Single
  <2>3. Single(downs, n) /\ (downs # {} <=> BreaksLow(e.low, bar))
    BY <1>9, <2>1 DEF LowStepped, Single
  <2> QED BY <2>2, <2>3
<1>11. TrendGrown(b, c, n, ups, downs)
  <2>1. BullsGrown(b, c, n) /\ BearsGrown(b, c, n)
    BY <1>1, BullsGrow, BearsGrow
  <2>2. Bulls(c) = Bulls(b) \cup ups /\ Bears(c) = Bears(b) \cup downs
    BY <2>1 DEF BullsGrown, BearsGrown
  <2> HIDE DEF ups, downs
  <2> QED BY <1>1, <1>10, <2>2, TrendGrows
<1>12. TrendIs(t.trend, c)
  <2>1. t.trend = IF BreaksLow(e.low, bar) THEN "down" ELSE IF BreaksHigh(e.high, bar) THEN "up" ELSE e.trend
    BY <1>5, <1>6, <1>8
  <2>2. (e.trend = "down" <=> DownAt(b, n)) /\ (e.trend = "up" <=> UpAt(b, n))
    BY <1>1, <1>4 DEF TrendIs
  <2>3. /\ downs # {} => DownAt(c, n + 1) /\ ~UpAt(c, n + 1)
        /\ downs = {} /\ ups # {} => UpAt(c, n + 1) /\ ~DownAt(c, n + 1)
        /\ downs = {} /\ ups = {} => (DownAt(c, n + 1) <=> DownAt(b, n)) /\ (UpAt(c, n + 1) <=> UpAt(b, n))
    BY <1>11 DEF TrendGrown
  <2> HIDE DEF ups, downs
  <2>4. (t.trend = "down" <=> DownAt(c, n + 1)) /\ (t.trend = "up" <=> UpAt(c, n + 1))
    BY <1>10, <2>1, <2>2, <2>3
  <2> QED BY <1>2, <2>4 DEF TrendIs
<1>13. ToSet(t.events) = Meaning(c)
  <2>1. BullMeaning(c) \cup HighMeaning(c) = BullMeaning(b) \cup HighMeaning(b) \cup HighNews(e, bar)
    BY <1>4, <1>11, HighNewsMeant
  <2>2. f.trend = "up" <=> ups # {} \/ UpAt(b, n)
    <3>1. e.trend = "up" <=> UpAt(b, n)
      BY <1>1, <1>4 DEF TrendIs
    <3> QED BY <1>5, <1>10, <3>1
  <2>3. LowIs(f.low, b)
    BY <1>4, <1>5
  <2>4. BearMeaning(c) \cup LowMeaning(c) = BearMeaning(b) \cup LowMeaning(b) \cup LowNews(f, bar)
    BY <1>11, <2>2, <2>3, LowNewsMeant
  <2>5. ToSet(f.events) = ToSet(e.events) \cup HighNews(e, bar)
    BY <1>1, <1>4, <1>5, NewsTold
  <2>6. ToSet(g.events) = ToSet(f.events) \cup LowNews(f, bar)
    BY <1>1, <1>5, <1>6, NewsTold
  <2>7. Meaning(b) = BullMeaning(b) \cup BearMeaning(b) \cup HighMeaning(b) \cup LowMeaning(b)
    BY MeaningIs
  <2>8. Meaning(c) = BullMeaning(c) \cup BearMeaning(c) \cup HighMeaning(c) \cup LowMeaning(c)
    BY MeaningIs
  <2>9. ToSet(t.events) = Meaning(b) \cup HighNews(e, bar) \cup LowNews(f, bar)
    BY <1>4, <1>8, <2>5, <2>6
  <2> QED BY <2>1, <2>4, <2>7, <2>8, <2>9
<1>14. HighIs(t.high, c) /\ LowIs(t.low, c)
  <2>1. HighIs(IF n - 1 \in Highs(c) THEN Pivot(b[n - 1].at, b[n - 1].high) ELSE HighAfter(e.high, bar), c)
    BY <1>9 DEF HighStepped
  <2>2. LowIs(IF n - 1 \in Lows(c) THEN Pivot(b[n - 1].at, b[n - 1].low) ELSE LowAfter(e.low, bar), c)
    BY <1>9 DEF LowStepped
  <2> QED BY <1>5, <1>6, <1>8, <2>1, <2>2
<1>15. Once(g.events) /\ SideSpent(g.events, f.high, TRUE) /\ SideSpent(g.events, g.low, FALSE)
  <2>1. /\ Once(f.events) /\ SideSpent(f.events, f.high, TRUE) /\ SideSpent(f.events, f.low, FALSE)
    BY <1>1, <1>4, <1>5, SpentHigh
  <2>2. /\ Once(LowEvents(f, bar))
        /\ SideSpent(LowEvents(f, bar), LowAfter(f.low, bar), FALSE)
        /\ SideSpent(LowEvents(f, bar), f.high, TRUE)
    BY <1>1, <1>5, <2>1, SpentLow
  <2> QED BY <1>6, <2>2
<1>16. g.events \in Seq(Events) /\ f.high \in Pivots /\ g.low \in Pivots /\ e.high \in Pivots
         /\ e.low \in Pivots
  BY <1>4, <1>5, <1>6 DEF Engines
<1>17. ASSUME n > 1 PROVE /\ b[n - 1] \in Candles /\ f.high.at < b[n - 1].at /\ g.low.at < b[n - 1].at
                          /\ b[n - 1].high \in Int /\ b[n - 1].low \in Int
  <2>1. e.high.at < b[n - 1].at /\ e.low.at < b[n - 1].at
    BY <1>1, <1>3, <1>4, <1>17, LevelOlder
  <2>2. f.high.at = e.high.at
    BY <1>5, <1>16, PivotTyped DEF HighAfter
  <2>3. g.low.at = e.low.at
    BY <1>5, <1>6, <1>16, PivotTyped DEF LowAfter
  <2>4. b[n - 1] \in Candles
    <3>1. n - 1 \in 1..Len(b)
      BY <1>1, <1>17
    <3> QED BY <1>1, <3>1
  <2> QED BY <2>1, <2>2, <2>3, <2>4, CandleHas
<1>18. SideSpent(t.events, t.high, TRUE)
  <2>1. CASE n - 1 \in Highs(c)
    <3>1. n > 1
      <4>1. Highs(c) \subseteq 2..Len(c) - 1
        BY DEF Highs
      <4> QED BY <1>1, <1>2, <2>1, <4>1
    <3>2. Pivot(b[n - 1].at, b[n - 1].high) \in Pivots /\ Pivot(b[n - 1].at, b[n - 1].high).at = b[n - 1].at
      BY <1>17, <3>1, PivotTypes
    <3>3. t.high \in Pivots /\ f.high.at < t.high.at
      BY <1>8, <1>17, <2>1, <3>1, <3>2
    <3> QED BY <1>8, <1>15, <1>16, <3>3, SpentNewer
  <2>2. CASE n - 1 \notin Highs(c)
    BY <1>8, <1>15, <2>2
  <2> QED BY <2>1, <2>2
<1>19. SideSpent(t.events, t.low, FALSE)
  <2>1. CASE n - 1 \in Lows(c)
    <3>1. n > 1
      <4>1. Lows(c) \subseteq 2..Len(c) - 1
        BY DEF Lows
      <4> QED BY <1>1, <1>2, <2>1, <4>1
    <3>2. Pivot(b[n - 1].at, b[n - 1].low) \in Pivots /\ Pivot(b[n - 1].at, b[n - 1].low).at = b[n - 1].at
      BY <1>17, <3>1, PivotTypes
    <3>3. t.low \in Pivots /\ g.low.at < t.low.at
      BY <1>8, <1>17, <2>1, <3>1, <3>2
    <3> QED BY <1>8, <1>15, <1>16, <3>3, SpentNewer
  <2>2. CASE n - 1 \notin Lows(c)
    BY <1>8, <1>15, <2>2
  <2> QED BY <2>1, <2>2
<1>20. t.applied = Len(c)
  BY <1>1, <1>2, <1>4, <1>8
<1>21. Reading(t, c)
  BY <1>8, <1>12, <1>13, <1>14, <1>15, <1>18, <1>19, <1>20 DEF Reading
<1> QED BY <1>21 DEF t

-----------------------------------------------------------------------------
(* Induction over the candles *)

\* A set of naturals that is not empty has a least number.
LEMMA LeastOfSet ==
    ASSUME NEW T \in SUBSET Nat, T # {}
    PROVE  \E m \in T : \A k \in T : m <= k
<1> DEFINE R == OpToRel(<, Nat)
<1>1. IsWellFoundedOn(R, Nat)
  BY NatLessThanWellFounded
<1>2. \A x, y \in Nat : x < y => <<x, y>> \in R
  BY DEF OpToRel
<1> HIDE DEF R
<1>3. \E m \in T : \A k \in T : ~(<<k, m>> \in R)
  BY <1>1, WFMin
<1>4. PICK m \in T : \A k \in T : ~(<<k, m>> \in R)
  BY <1>3
<1>5. ASSUME NEW k \in T PROVE m <= k
  <2>1. k \in Nat /\ m \in Nat
    OBVIOUS
  <2>2. ~(k < m)
    BY <1>2, <1>4, <2>1
  <2> QED BY <2>1, <2>2
<1> QED BY <1>5

\* Induction over the naturals, said of a set.
LEMMA Induct ==
    ASSUME NEW S, 0 \in S, \A n \in Nat : n \in S => n + 1 \in S
    PROVE  \A n \in Nat : n \in S
<1> DEFINE T == Nat \ S
<1> SUFFICES ASSUME T # {} PROVE FALSE
  OBVIOUS
<1>1. PICK m \in T : \A k \in T : m <= k
  BY LeastOfSet
<1>2. m \in Nat /\ m # 0 /\ m \notin S
  OBVIOUS
<1>3. m - 1 \in Nat /\ m - 1 \notin T
  BY <1>1, <1>2
<1>4. (m - 1) + 1 \in S
  BY <1>3
<1>5. (m - 1) + 1 = m
  BY <1>2
<1> QED BY <1>2, <1>4, <1>5

\* Applied, said of any function that takes the candles one by one.
ReadStep(g, bars, i) == IF i = 0 THEN Reset ELSE Take(g[i - 1], bars[i])
IsReading(g, bars, n) == g = [i \in 0..n |-> ReadStep(g, bars, i)]

\* There is a function that takes the candles one by one.
LEMMA ReadingExists ==
    ASSUME NEW bars, NEW n \in Nat
    PROVE  \E g : IsReading(g, bars, n)
<1> DEFINE S == {k \in Nat : \E g : IsReading(g, bars, k)}
<1>1. 0 \in S
  <2> DEFINE h == [i \in 0..0 |-> Reset]
  <2>1. h = [i \in 0..0 |-> ReadStep(h, bars, i)]
    BY DEF ReadStep
  <2>2. IsReading(h, bars, 0)
    BY <2>1 DEF IsReading
  <2> QED BY <2>2
<1>2. ASSUME NEW k \in Nat, k \in S PROVE k + 1 \in S
  <2>1. PICK g : IsReading(g, bars, k)
    BY <1>2
  <2> DEFINE h == [i \in 0..k + 1 |-> IF i = k + 1 THEN Take(g[k], bars[k + 1]) ELSE g[i]]
  <2>3. ASSUME NEW i \in 0..k + 1 PROVE h[i] = ReadStep(h, bars, i)
    <3>1. CASE i = k + 1
      <4>1. h[i] = Take(g[k], bars[k + 1]) /\ i - 1 = k /\ i # 0
        BY <3>1
      <4>2. h[k] = g[k]
        OBVIOUS
      <4> HIDE DEF h
      <4> QED BY <3>1, <4>1, <4>2 DEF ReadStep
    <3>2. CASE i \in 0..k /\ i # 0
      <4>1. h[i] = g[i] /\ h[i - 1] = g[i - 1]
        BY <3>2
      <4>2. g[i] = ReadStep(g, bars, i)
        BY <2>1, <3>2 DEF IsReading
      <4> HIDE DEF h
      <4> QED BY <3>2, <4>1, <4>2 DEF ReadStep
    <3>3. CASE i = 0
      <4>1. h[i] = g[i]
        BY <3>3
      <4>2. g[i] = ReadStep(g, bars, i)
        BY <2>1, <3>3 DEF IsReading
      <4> HIDE DEF h
      <4> QED BY <3>3, <4>1, <4>2 DEF ReadStep
    <3> QED BY <3>1, <3>2, <3>3
  <2>4. h = [i \in 0..k + 1 |-> h[i]]
    OBVIOUS
  <2> HIDE DEF h
  <2>5. h = [i \in 0..k + 1 |-> ReadStep(h, bars, i)]
    BY <2>3, <2>4, Zenon
  <2>6. IsReading(h, bars, k + 1)
    BY <2>5 DEF IsReading
  <2> QED BY <2>6
<1> HIDE DEF S
<1>3. n \in S
  BY <1>1, <1>2, Induct
<1> QED BY <1>3 DEF S

\* Applied is the last value of such a function.
LEMMA AppliedReads ==
    ASSUME NEW bars, Len(bars) \in Nat
    PROVE  \E g : IsReading(g, bars, Len(bars)) /\ Applied(bars) = g[Len(bars)]
<1> DEFINE read == CHOOSE g : IsReading(g, bars, Len(bars))
<1>1. IsReading(read, bars, Len(bars))
  BY ReadingExists
<1>2. Applied(bars) = read[Len(bars)]
  BY DEF Applied, IsReading, ReadStep
<1> QED BY <1>1, <1>2

-----------------------------------------------------------------------------
(* An engine made from a track; the newer candles of a track *)

\* An engine made from a track has read it, whatever its length.
LEMMA AppliedRead ==
    ASSUME StructureConstants, NEW b \in Seq(Candles), Ordered(b)
    PROVE  Reading(Applied(b), b)
<1>0. Len(b) \in Nat /\ DOMAIN b = 1..Len(b)
  OBVIOUS
<1>1. PICK g : IsReading(g, b, Len(b)) /\ Applied(b) = g[Len(b)]
  BY <1>0, AppliedReads
<1>2. ASSUME NEW k \in 0..Len(b) PROVE g[k] = ReadStep(g, b, k)
  BY <1>1 DEF IsReading
<1> DEFINE Told(k) == Reading(g[k], SubSeq(b, 1, k))
           S == {k \in Nat : k <= Len(b) => Told(k)}
<1>3. 0 \in S
  <2>1. g[0] = Reset
    <3>1. 0 \in 0..Len(b)
      BY <1>0
    <3> QED BY <1>2, <3>1 DEF ReadStep
  <2>2. SubSeq(b, 1, 0) = <<>>
    OBVIOUS
  <2>3. Told(0)
    BY <2>1, <2>2, ReadingStarts
  <2> HIDE DEF Told
  <2> QED BY <2>3
<1>4. ASSUME NEW k \in Nat, k \in S PROVE k + 1 \in S
  <2> SUFFICES ASSUME k + 1 <= Len(b) PROVE Told(k + 1)
    OBVIOUS
  <2> DEFINE s == SubSeq(b, 1, k) t == SubSeq(b, 1, k + 1) bar == b[k + 1]
  <2>1. k + 1 \in 0..Len(b) /\ k + 1 \in 1..Len(b) /\ (k + 1) - 1 = k /\ k + 1 # 0
    BY <1>0
  <2>2. s \in Seq(Candles) /\ Len(s) = k /\ t \in Seq(Candles) /\ Len(t) = k + 1 /\ bar \in Candles
        /\ (\A i \in 1..k : s[i] = b[i]) /\ \A i \in 1..k + 1 : t[i] = b[i]
    BY <1>0, <2>1
  <2>3. Told(k)
    BY <1>0, <1>4
  <2>4. g[k + 1] = Take(g[k], bar)
    BY <1>2, <2>1 DEF ReadStep
  <2> HIDE DEF s, t, bar
  <2>5. t = Append(s, bar)
    <3> DEFINE u == Append(s, bar)
    <3>1. /\ u \in Seq(Candles) /\ Len(u) = k + 1
          /\ u[k + 1] = bar /\ \A i \in 1..k : u[i] = s[i]
      BY <2>2
    <3> HIDE DEF u
    <3>2. t[k + 1] = bar
      BY <2>2 DEF bar
    <3>3. ASSUME NEW i \in 1..k PROVE t[i] = u[i]
      <4>1. u[i] = s[i] /\ s[i] = b[i]
        BY <2>2, <3>1
      <4>2. i \in 1..k + 1
        BY <2>1
      <4>3. t[i] = b[i]
        BY <2>2, <4>2
      <4> QED BY <4>1, <4>3, Zenon
    <3>4. \A i \in 1..k + 1 : i = k + 1 \/ i \in 1..k
      BY <2>1
    <3>5. \A i \in 1..k + 1 : t[i] = u[i]
      BY <3>1, <3>2, <3>3, <3>4, Zenon
    <3>6. t = u
      BY <2>2, <3>1, <3>5, SeqEqual
    <3> QED BY <3>6 DEF u
  <2>6. Ordered(t)
    <3>1. \A i \in 1..k + 1 : i \in 1..Len(b)
      BY <1>0, <2>1
    <3> QED BY <2>2, <3>1 DEF Ordered
  <2>7. Stepped(s, bar, t, k + 1)
    BY <2>2, <2>5 DEF Stepped
  <2>8. Reading(g[k], s)
    BY <2>3 DEF s
  <2>9. Reading(Take(g[k], bar), t)
    BY <2>6, <2>7, <2>8, ReadingStep
  <2> QED BY <2>4, <2>9 DEF t
<1> HIDE DEF S
<1>5. \A k \in Nat : k \in S
  BY <1>3, <1>4, Induct
<1>6. Told(Len(b))
  BY <1>0, <1>5 DEF S
<1>7. SubSeq(b, 1, Len(b)) = b
  BY <1>0
<1> QED BY <1>1, <1>6, <1>7

\* Newer, said of any function that keeps the candles one by one.
NewStep(g, last, i) == IF i = 0 THEN <<>> ELSE IF track[i].at > last THEN Append(g[i - 1], track[i])
  ELSE g[i - 1]
IsNewing(g, last, n) == g = [i \in 0..n |-> NewStep(g, last, i)]

\* There is a function that keeps the newer candles one by one.
LEMMA NewingExists ==
    ASSUME NEW last, NEW n \in Nat
    PROVE  \E g : IsNewing(g, last, n)
<1> DEFINE S == {k \in Nat : \E g : IsNewing(g, last, k)}
<1>1. 0 \in S
  <2> DEFINE h == [i \in 0..0 |-> <<>>]
  <2>1. h = [i \in 0..0 |-> NewStep(h, last, i)]
    BY DEF NewStep
  <2>2. IsNewing(h, last, 0)
    BY <2>1 DEF IsNewing
  <2> QED BY <2>2
<1>2. ASSUME NEW k \in Nat, k \in S PROVE k + 1 \in S
  <2>1. PICK g : IsNewing(g, last, k)
    BY <1>2
  <2> DEFINE next == IF track[k + 1].at > last THEN Append(g[k], track[k + 1]) ELSE g[k]
             h == [i \in 0..k + 1 |-> IF i = k + 1 THEN next ELSE g[i]]
  <2>3. ASSUME NEW i \in 0..k + 1 PROVE h[i] = NewStep(h, last, i)
    <3>1. CASE i = k + 1
      <4>1. h[i] = next /\ i - 1 = k /\ i # 0
        BY <3>1
      <4>2. h[k] = g[k]
        OBVIOUS
      <4> HIDE DEF h
      <4> QED BY <3>1, <4>1, <4>2 DEF NewStep
    <3>2. CASE i \in 0..k /\ i # 0
      <4>1. h[i] = g[i] /\ h[i - 1] = g[i - 1]
        BY <3>2
      <4>2. g[i] = NewStep(g, last, i)
        BY <2>1, <3>2 DEF IsNewing
      <4> HIDE DEF h
      <4> QED BY <3>2, <4>1, <4>2 DEF NewStep
    <3>3. CASE i = 0
      <4>1. h[i] = g[i]
        BY <3>3
      <4>2. g[i] = NewStep(g, last, i)
        BY <2>1, <3>3 DEF IsNewing
      <4> HIDE DEF h
      <4> QED BY <3>3, <4>1, <4>2 DEF NewStep
    <3> QED BY <3>1, <3>2, <3>3
  <2>4. h = [i \in 0..k + 1 |-> h[i]]
    OBVIOUS
  <2> HIDE DEF h
  <2>5. h = [i \in 0..k + 1 |-> NewStep(h, last, i)]
    BY <2>3, <2>4, Zenon
  <2>6. IsNewing(h, last, k + 1)
    BY <2>5 DEF IsNewing
  <2> QED BY <2>6
<1> HIDE DEF S
<1>3. n \in S
  BY <1>1, <1>2, Induct
<1> QED BY <1>3 DEF S

\* Candles of the track after time last, in order, and before all candles of the track after the k-th.
Filtered(s, last, k) ==
    /\ s \in Seq(Candles) /\ Ordered(s)
    /\ \A i \in 1..Len(s) : /\ s[i] \in ToSet(track) /\ s[i].at > last
                            /\ \A m \in k + 1..Len(track) : s[i].at < track[m].at

\* Newer keeps candles of the track that are newer than the history, in their order.
LEMMA NewerIs ==
    ASSUME StructureConstants, track \in Seq(Candles), Ordered(track), NEW bars,
           Last(bars).at \in Nat
    PROVE  Filtered(Newer(bars), Last(bars).at, Len(track))
<1> DEFINE last == Last(bars).at N == Len(track)
<1>0. N \in Nat /\ DOMAIN track = 1..N
  OBVIOUS
<1>1. PICK g : IsNewing(g, last, N) /\ Newer(bars) = g[N]
  <2> DEFINE kept == CHOOSE g : IsNewing(g, last, N)
  <2>1. IsNewing(kept, last, N)
    BY <1>0, NewingExists
  <2>2. Newer(bars) = kept[N]
    BY DEF Newer, IsNewing, NewStep
  <2> QED BY <2>1, <2>2
<1> HIDE DEF last, N
<1>2. ASSUME NEW k \in 0..N PROVE g[k] = NewStep(g, last, k)
  BY <1>1 DEF IsNewing
<1> DEFINE S == {k \in Nat : k <= N => Filtered(g[k], last, k)}
<1>3. 0 \in S
  <2>1. g[0] = <<>>
    <3>1. 0 \in 0..N
      BY <1>0
    <3> QED BY <1>2, <3>1 DEF NewStep
  <2>2. Filtered(<<>>, last, 0)
    BY DEF Filtered, Ordered
  <2> QED BY <2>1, <2>2
<1>4. ASSUME NEW k \in Nat, k \in S PROVE k + 1 \in S
  <2> SUFFICES ASSUME k + 1 <= N PROVE Filtered(g[k + 1], last, k + 1)
    OBVIOUS
  <2> DEFINE s == g[k] bar == track[k + 1]
  <2>1. k + 1 \in 0..N /\ k + 1 \in 1..N /\ (k + 1) - 1 = k /\ k + 1 # 0
    BY <1>0
  <2>2. Filtered(s, last, k)
    BY <1>0, <1>4
  <2>3. g[k + 1] = IF bar.at > last THEN Append(s, bar) ELSE s
    BY <1>2, <2>1 DEF NewStep
  <2>4. bar \in Candles /\ bar \in ToSet(track) /\ \A m \in k + 2..N : bar.at < track[m].at
    BY <1>0, <2>1 DEF Ordered, ToSet, N
  <2> HIDE DEF s, bar
  <2>5. s \in Seq(Candles) /\ Ordered(s)
    BY <2>2 DEF Filtered
  <2>6. ASSUME NEW i \in 1..Len(s)
        PROVE  /\ s[i] \in ToSet(track) /\ s[i].at > last /\ s[i].at < bar.at
               /\ \A m \in k + 2..N : s[i].at < track[m].at
    <3>1. k + 1 \in k + 1..N /\ \A m \in k + 2..N : m \in k + 1..N
      BY <1>0, <2>1
    <3> QED BY <2>2, <3>1 DEF Filtered, N, bar
  <2>7. (k + 1) + 1 = k + 2
    OBVIOUS
  <2>8. CASE ~(bar.at > last)
    BY <2>3, <2>5, <2>6, <2>7, <2>8 DEF Filtered, N
  <2>9. CASE bar.at > last
    <3> DEFINE t == Append(s, bar) n == Len(s) + 1
    <3>1. t \in Seq(Candles) /\ Len(t) = n /\ t[n] = bar /\ n \in Nat \ {0}
          /\ \A i \in 1..n - 1 : t[i] = s[i] /\ i \in 1..Len(s)
      BY <2>4, <2>5
    <3> HIDE DEF t, n
    <3>2. \A i \in 1..n : i = n \/ i \in 1..n - 1
      BY <3>1
    <3>3. \A i \in 1..n - 1 : t[i].at < t[n].at
      BY <2>6, <3>1
    <3>4. Ordered(t)
      <4> SUFFICES ASSUME NEW i \in 1..n, NEW m \in 1..n, i < m PROVE t[i].at < t[m].at
        BY <3>1 DEF Ordered
      <4>1. i \in 1..n - 1
        BY <3>1
      <4>2. CASE m = n
        BY <3>3, <4>1, <4>2
      <4>3. CASE m \in 1..n - 1
        BY <2>5, <3>1, <4>1, <4>3 DEF Ordered
      <4> QED BY <3>2, <4>2, <4>3
    <3>5. ASSUME NEW i \in 1..n
          PROVE  t[i] \in ToSet(track) /\ t[i].at > last /\ \A m \in k + 2..N : t[i].at < track[m].at
      BY <2>4, <2>6, <2>9, <3>1, <3>2
    <3>6. Filtered(t, last, k + 1)
      BY <2>7, <3>1, <3>4, <3>5 DEF Filtered, N
    <3> QED BY <2>3, <2>9, <3>6 DEF t
  <2> QED BY <2>8, <2>9
<1> HIDE DEF S
<1>5. \A k \in Nat : k \in S
  BY <1>3, <1>4, Induct
<1>6. Filtered(g[N], last, N)
  BY <1>0, <1>5 DEF S
<1> QED BY <1>1, <1>6 DEF last, N

-----------------------------------------------------------------------------
(* The track *)

\* The market, the track and the invariant.
MarketIs(m) == m \in Seq(Candles) /\ Len(m) <= LastCandle /\ \A n \in 1..Len(m) : m[n].at = n
TrackIs(t, m) == t \in Seq(Candles) /\ Ordered(t) /\ Len(t) <= Window /\ \A n \in 1..Len(t) : t[n] \in ToSet(m)
TrackInv ==
    /\ MarketIs(market) /\ TrackIs(track, market)
    /\ engine = NoEngine \/ Reading(engine, track)
    /\ asked \in 0..Len(market) /\ histories \in 0..MaxHistories /\ behind \in 0..MaxBehind

\* The last candles of a sequence, in their order.
LEMMA LastOfIs ==
    ASSUME NEW s \in Seq(Candles), Ordered(s), NEW w \in Nat, NEW l, l = LastOf(s, w)
    PROVE  /\ l \in Seq(Candles) /\ Ordered(l) /\ Len(l) <= w
           /\ \A n \in 1..Len(l) : \E m \in 1..Len(s) : l[n] = s[m]
<1>1. CASE ~(Len(s) > w)
  <2>1. l = s
    BY <1>1 DEF LastOf
  <2> QED BY <1>1, <2>1
<1>2. CASE Len(s) > w
  <2> DEFINE d == Len(s) - w
  <2>1. d \in Nat /\ d + 1 \in 1..Len(s) + 1 /\ Len(s) \in Nat
    BY <1>2
  <2>2. l = SubSeq(s, d + 1, Len(s))
    BY <1>2 DEF LastOf
  <2>3. Len(l) = w /\ l \in Seq(Candles)
    BY <2>1, <2>2
  <2>4. \A n \in 1..w : l[n] = s[d + n] /\ d + n \in 1..Len(s)
    BY <2>1, <2>2
  <2> HIDE DEF d
  <2>5. Ordered(l)
    <3> SUFFICES ASSUME NEW m \in 1..w, NEW n \in 1..w, m < n PROVE l[m].at < l[n].at
      BY <2>3 DEF Ordered
    <3>1. d + m \in 1..Len(s) /\ d + n \in 1..Len(s) /\ d + m < d + n
      BY <2>1, <2>4
    <3> QED BY <2>4, <3>1 DEF Ordered
  <2> QED BY <2>3, <2>4, <2>5
<1> QED BY <1>1, <1>2

\* What fits in the window of an ordered sequence of the market's candles is a track.
LEMMA TrackIsLastOf ==
    ASSUME StructureConstants, NEW s \in Seq(Candles), Ordered(s),
           NEW m, \A n \in 1..Len(s) : s[n] \in ToSet(m)
    PROVE  TrackIs(LastOf(s, Window), m)
<1> DEFINE l == LastOf(s, Window)
<1>1. /\ l \in Seq(Candles) /\ Ordered(l) /\ Len(l) <= Window
      /\ \A n \in 1..Len(l) : \E k \in 1..Len(s) : l[n] = s[k]
  <2>1. Window \in Nat
    BY DEF StructureConstants
  <2> QED BY <2>1, LastOfIs
<1> HIDE DEF l
<1>2. \A n \in 1..Len(l) : l[n] \in ToSet(m)
  BY <1>1
<1> QED BY <1>1, <1>2 DEF TrackIs, l

\* The n-th candle of the market is the n-th.
LEMMA MarketHas ==
    ASSUME MarketIs(market), NEW n \in 1..Len(market)
    PROVE  market[n] \in Candles /\ market[n].at = n /\ market[n] \in ToSet(market)
  BY DEF MarketIs, ToSet

\* At the start there is no candle and no engine.
LEMMA InitTracks == ASSUME StructureConstants, StructureInit PROVE TrackInv
<1> USE DEF StructureInit
<1>1. MarketIs(market)
  BY DEF MarketIs, StructureConstants
<1>2. TrackIs(track, market)
  BY DEF TrackIs, Ordered, StructureConstants
<1> QED BY <1>1, <1>2 DEF TrackInv, StructureConstants

\* A candle that closes leaves the track and what was read off it alone.
LEMMA CloseTracks == ASSUME StructureConstants, TrackInv, Close PROVE TrackInv'
<1> USE DEF Close
<1> DEFINE n == Len(market) + 1
<1>1. PICK s \in Shapes : market' = Append(market, Candle(n, s))
  OBVIOUS
<1> DEFINE bar == Candle(n, s)
<1>2. market \in Seq(Candles) /\ n \in Nat \ {0} /\ Len(market) = n - 1 /\ Len(market) < LastCandle
  BY DEF TrackInv, MarketIs
<1>3. bar \in Candles /\ bar.at = n
  BY <1>2 DEF Candles, Candle
<1> HIDE DEF bar
<1>4. /\ market' \in Seq(Candles) /\ Len(market') = n /\ market'[n] = bar
      /\ \A i \in 1..n - 1 : market'[i] = market[i]
  BY <1>1, <1>2, <1>3 DEF bar
<1> HIDE DEF n
<1>5. MarketIs(market)'
  <2>1. \A i \in 1..n : i = n \/ i \in 1..n - 1
    BY <1>2
  <2>2. \A i \in 1..n - 1 : market[i].at = i
    BY <1>2 DEF TrackInv, MarketIs
  <2>3. n <= LastCandle
    BY <1>2 DEF StructureConstants
  <2> QED BY <1>3, <1>4, <2>1, <2>2, <2>3 DEF MarketIs
<1>6. ToSet(market) \subseteq ToSet(market')
  <2>1. \A i \in 1..n - 1 : i \in 1..n
    BY <1>2
  <2>2. DOMAIN market = 1..n - 1 /\ DOMAIN market' = 1..n
    BY <1>2, <1>4
  <2> QED BY <1>4, <2>1, <2>2 DEF ToSet
<1>7. TrackIs(track, market)'
  BY <1>6 DEF TrackInv, TrackIs
<1>8. engine' = NoEngine \/ Reading(engine', track')
  BY DEF TrackInv
<1>9. asked' \in 0..Len(market') /\ histories' \in 0..MaxHistories
  BY <1>2, <1>4 DEF TrackInv
<1>10. behind' \in 0..MaxBehind
  BY DEF TrackInv, StructureConstants
<1> QED BY <1>5, <1>7, <1>8, <1>9, <1>10 DEF TrackInv

\* appendStructureCandle: the candle is newer than the last, so the track stays in order; the engine
\* takes it, or reads the track again when its first candle is lost.
LEMMA AppendTracks ==
    ASSUME StructureConstants, TrackInv, NEW n \in 1..LastCandle, AppendCandle(n)
    PROVE  TrackInv'
<1> DEFINE bar == market[n] bars == Append(track, bar) k == Len(track) + 1
<1>1. n \in 1..Len(market) /\ n > Newest
  BY DEF AppendCandle, TrackInv, MarketIs, StructureConstants
<1>2. bar \in Candles /\ bar.at = n /\ bar \in ToSet(market)
  BY <1>1, MarketHas DEF TrackInv
<1>3. track \in Seq(Candles) /\ Ordered(track) /\ Len(track) <= Window /\ k \in Nat \ {0}
        /\ Len(track) = k - 1 /\ \A i \in 1..Len(track) : track[i] \in ToSet(market)
  BY DEF TrackInv, TrackIs
<1> HIDE DEF bar
<1>4. /\ bars \in Seq(Candles) /\ Len(bars) = k /\ bars[k] = bar
      /\ \A i \in 1..k - 1 : bars[i] = track[i]
  BY <1>2, <1>3
<1>5. \A i \in 1..k - 1 : track[i].at < n
  <2> SUFFICES ASSUME NEW i \in 1..k - 1 PROVE track[i].at < n
    OBVIOUS
  <2>1. track # <<>> /\ Len(track) \in 1..k - 1 /\ track[i] \in Candles /\ track[Len(track)] \in Candles
    BY <1>3
  <2>2. Newest = track[Len(track)].at
    BY <2>1 DEF Newest, Last
  <2>3. i = Len(track) \/ i < Len(track)
    <3> DEFINE l == Len(track)
    <3>1. l \in Nat /\ i \in 1..l
      BY <1>3
    <3> HIDE DEF l
    <3>2. i = l \/ i < l
      BY <3>1
    <3> QED BY <3>2 DEF l
  <2>4. i < Len(track) => track[i].at < track[Len(track)].at
    BY <1>3, <2>1 DEF Ordered
  <2>5. track[i].at \in Nat /\ track[Len(track)].at \in Nat
    BY <2>1, CandleHas
  <2> QED BY <1>1, <2>2, <2>3, <2>4, <2>5
<1>6. bars = Append(track, bar)
  OBVIOUS
<1> HIDE DEF bars, k
<1>7. Ordered(bars)
  <2> SUFFICES ASSUME NEW i \in 1..k, NEW m \in 1..k, i < m PROVE bars[i].at < bars[m].at
    BY <1>4 DEF Ordered
  <2>1. i \in 1..k - 1 /\ (m = k \/ m \in 1..k - 1)
    BY <1>3
  <2>2. CASE m = k
    <3>1. bars[i] = track[i] /\ track[i].at < n
      BY <1>4, <1>5, <2>1
    <3>2. bars[m].at = n
      BY <1>2, <1>4, <2>2
    <3> QED BY <3>1, <3>2
  <2>3. CASE m \in 1..k - 1
    <3>1. bars[i] = track[i] /\ bars[m] = track[m]
      BY <1>4, <2>1, <2>3
    <3>2. i \in 1..Len(track) /\ m \in 1..Len(track)
      BY <1>3, <2>1, <2>3, Zenon
    <3>3. track[i].at < track[m].at
      BY <1>3, <3>2 DEF Ordered
    <3> QED BY <3>1, <3>3
  <2> QED BY <2>1, <2>2, <2>3
<1>8. \A i \in 1..Len(bars) : bars[i] \in ToSet(market)
  <2>1. \A i \in 1..k : i = k \/ i \in 1..k - 1
    BY <1>3
  <2> QED BY <1>2, <1>3, <1>4, <2>1
<1>9. track' = LastOf(bars, Window) /\ UNCHANGED <<market, asked, histories, behind>>
  BY DEF AppendCandle, bars, bar
<1>10. TrackIs(track', market)
  BY <1>4, <1>7, <1>8, <1>9, TrackIsLastOf
<1>11. engine' = NoEngine \/ Reading(engine', track')
  <2>1. engine' = IF engine = NoEngine THEN engine
          ELSE IF Len(bars) > Window THEN Applied(LastOf(bars, Window)) ELSE Take(engine, bar)
    BY DEF AppendCandle, bars, bar
  <2>2. CASE engine = NoEngine
    BY <2>1, <2>2
  <2>3. CASE engine # NoEngine /\ Len(bars) > Window
    <3>1. Reading(Applied(track'), track')
      BY <1>10, AppliedRead DEF TrackIs
    <3> QED BY <1>9, <2>1, <2>3, <3>1
  <2>4. CASE engine # NoEngine /\ ~(Len(bars) > Window)
    <3>1. track' = bars
      BY <1>9, <2>4 DEF LastOf
    <3>2. Stepped(track, bar, bars, k)
      BY <1>2, <1>3, <1>6 DEF Stepped, k
    <3>3. Reading(engine, track)
      BY <2>4 DEF TrackInv
    <3>4. Reading(Take(engine, bar), bars)
      BY <1>7, <3>2, <3>3, ReadingStep
    <3> QED BY <2>1, <2>4, <3>1, <3>4
  <2> QED BY <2>2, <2>3, <2>4
<1>12. MarketIs(market)' /\ TrackIs(track, market)'
  BY <1>9, <1>10 DEF TrackInv, MarketIs
<1>13. asked' \in 0..Len(market') /\ histories' \in 0..MaxHistories /\ behind' \in 0..MaxBehind
  BY <1>9 DEF TrackInv
<1> QED BY <1>11, <1>12, <1>13 DEF TrackInv

\* structureEngine reads the whole track again.
LEMMA LookTracks == ASSUME StructureConstants, TrackInv, Look PROVE TrackInv'
<1> USE DEF Look
<1>1. Reading(Applied(track), track)
  BY AppliedRead DEF TrackInv, TrackIs
<1>2. engine' = Applied(track) /\ track' = track /\ market' = market
  OBVIOUS
<1>3. engine' = NoEngine \/ Reading(engine', track')
  BY <1>1, <1>2
<1>4. MarketIs(market)' /\ TrackIs(track, market)'
  BY <1>2 DEF TrackInv, MarketIs, TrackIs
<1> QED BY <1>3, <1>4 DEF TrackInv

\* Asking for history changes neither track nor engine.
LEMMA AskHistoryTracks == ASSUME StructureConstants, TrackInv, AskHistory PROVE TrackInv'
<1> USE DEF AskHistory
<1>1. MarketIs(market)' /\ TrackIs(track, market)'
  BY DEF TrackInv, MarketIs, TrackIs
<1>2. asked' \in 0..Len(market') /\ histories' \in 0..MaxHistories
  BY DEF TrackInv, MarketIs, StructureConstants
<1> QED BY <1>1, <1>2 DEF TrackInv

\* ingestStructureHistory: the history and then what is newer than it is in order, and the engine is gone.
LEMMA IngestTracks == ASSUME StructureConstants, TrackInv, Ingest PROVE TrackInv'
<1>1. PICK first \in {1, asked} :
          LET bars == SubSeq(market, first, asked) IN track' = LastOf(bars \o Kept(bars), Window)
  BY DEF Ingest
<1>2. asked > 0 /\ engine' = NoEngine /\ asked' = 0 /\ UNCHANGED <<market, histories, behind>>
  BY DEF Ingest
<1> DEFINE bars == SubSeq(market, first, asked) k == asked - first + 1
<1>3. market \in Seq(Candles) /\ asked \in 1..Len(market) /\ first \in 1..asked /\ k \in Nat \ {0}
        /\ first \in Nat
  BY <1>2 DEF TrackInv, MarketIs
<1>4. /\ bars \in Seq(Candles) /\ Len(bars) = k
      /\ \A i \in 1..k : bars[i] = market[first + i - 1] /\ first + i - 1 \in 1..Len(market)
  BY <1>3
<1> HIDE DEF bars, k
<1>5. \A i \in 1..k : bars[i].at = first + i - 1 /\ bars[i] \in ToSet(market)
  BY <1>4, MarketHas DEF TrackInv
<1>6. Last(bars).at = asked
  <2>1. k \in 1..k /\ first + k - 1 = asked
    BY <1>3 DEF k
  <2> QED BY <1>4, <1>5, <2>1 DEF Last
<1> DEFINE new == Newer(bars)
<1>7. Filtered(new, asked, Len(track))
  BY <1>3, <1>6, NewerIs DEF TrackInv, TrackIs
<1>8. /\ new \in Seq(Candles) /\ Ordered(new)
      /\ \A i \in 1..Len(new) : new[i] \in ToSet(track) /\ new[i].at > asked
  BY <1>7 DEF Filtered
<1> HIDE DEF new
<1> DEFINE all == bars \o new j == Len(new)
<1>9. /\ all \in Seq(Candles) /\ Len(all) = k + j /\ j \in Nat
      /\ \A i \in 1..k : all[i] = bars[i]
      /\ \A i \in k + 1..k + j : all[i] = new[i - k] /\ i - k \in 1..j
  <2>1. j \in Nat /\ Len(bars) = k /\ k \in Nat
    BY <1>3, <1>4, <1>8
  <2>2. all \in Seq(Candles) /\ Len(all) = k + j
    <3>1. bars \o new \in Seq(Candles) /\ Len(bars \o new) = Len(bars) + Len(new)
      BY <1>4, <1>8, ConcatProperties
    <3> QED BY <2>1, <3>1
  <2>3. \A i \in 1..k + j : all[i] = IF i <= k THEN bars[i] ELSE new[i - k]
    BY <1>4, <1>8, <2>1
  <2> HIDE DEF all, j
  <2>4. \A i \in 1..k : i \in 1..k + j /\ i <= k
    BY <2>1
  <2>5. \A i \in k + 1..k + j : i \in 1..k + j /\ ~(i <= k) /\ i - k \in 1..j
    BY <2>1
  <2> QED BY <2>1, <2>2, <2>3, <2>4, <2>5
<1>10. track' = LastOf(all, Window)
  BY <1>1 DEF Kept, bars, new
<1> HIDE DEF all, j
<1>11. \A i \in 1..k + j : i \in 1..k \/ i \in k + 1..k + j
  BY <1>3, <1>9
<1>12. Ordered(all)
  <2> SUFFICES ASSUME NEW i \in 1..k + j, NEW m \in 1..k + j, i < m PROVE all[i].at < all[m].at
    BY <1>9 DEF Ordered
  <2>1. CASE i \in 1..k /\ m \in 1..k
    <3>1. all[i].at = first + i - 1 /\ all[m].at = first + m - 1
      BY <1>5, <1>9, <2>1
    <3>2. first + i - 1 < first + m - 1
      BY <1>3, <2>1
    <3> QED BY <3>1, <3>2
  <2>2. CASE i \in 1..k /\ m \in k + 1..k + j
    <3>1. all[i].at = first + i - 1
      BY <1>5, <1>9, <2>2
    <3>4. first + i - 1 <= asked
      BY <1>3, <2>2 DEF k
    <3>2. all[m].at > asked /\ all[m] \in Candles
      BY <1>8, <1>9, <2>2 DEF j
    <3>3. all[m].at \in Nat
      BY <3>2, CandleHas
    <3> QED BY <1>3, <3>1, <3>2, <3>3, <3>4
  <2>3. CASE i \in k + 1..k + j /\ m \in k + 1..k + j
    <3>1. i - k \in 1..Len(new) /\ m - k \in 1..Len(new) /\ i - k < m - k
      BY <1>3, <1>9, <2>3 DEF j
    <3> QED BY <1>8, <1>9, <2>3, <3>1 DEF Ordered
  <2>4. ~(i \in k + 1..k + j /\ m \in 1..k)
    BY <1>3, <1>9
  <2> QED BY <1>11, <2>1, <2>2, <2>3, <2>4
<1>13. ToSet(track) \subseteq ToSet(market)
  BY DEF TrackInv, TrackIs, ToSet
<1>14. \A i \in 1..Len(all) : all[i] \in ToSet(market)
  BY <1>5, <1>8, <1>9, <1>11, <1>13 DEF j
<1>15. TrackIs(track', market)
  BY <1>9, <1>10, <1>12, <1>14, TrackIsLastOf
<1>16. MarketIs(market)' /\ TrackIs(track, market)'
  BY <1>2, <1>15 DEF TrackInv, MarketIs
<1>17. asked' \in 0..Len(market')
  BY <1>2, <1>3
<1> QED BY <1>2, <1>16, <1>17 DEF TrackInv

\* The invariant says what is promised of the track.
LEMMA TrackedSaysIt == ASSUME StructureConstants, TrackInv PROVE TrackKept
<1>1. /\ track \in Seq(Candles) /\ Ordered(track) /\ Len(track) <= Window /\ DOMAIN track = 1..Len(track)
      /\ \A n \in 1..Len(track) : track[n] \in ToSet(market)
  BY DEF TrackInv, TrackIs
<1>2. engine # NoEngine => Reading(engine, track)
  BY DEF TrackInv
<1>3. StructureTypeOK
  <2>1. ToSet(track) \subseteq ToSet(market)
    BY <1>1 DEF ToSet
  <2>2. engine = NoEngine \/ engine.applied \in 0..Len(track)
    <3>1. Len(track) \in Nat
      BY <1>1
    <3>2. Len(track) \in 0..Len(track)
      BY <3>1
    <3> QED BY <1>2, <3>1, <3>2 DEF Reading
  <2> QED BY <1>1, <2>1, <2>2 DEF StructureTypeOK, TrackInv, MarketIs
<1>4. TrackInOrder
  BY <1>1 DEF TrackInOrder, Ordered
<1>5. ReadsTheTrack
  BY <1>2 DEF ReadsTheTrack, Reading
<1>6. LevelsSpent
  <2> SUFFICES ASSUME engine # NoEngine,
                      NEW m \in DOMAIN engine.events, NEW n \in DOMAIN engine.events, m < n,
                      engine.events[m].from = engine.events[n].from,
                      ((engine.events[m].kind = "sweep") # (engine.events[m].dir = "bull"))
                          = ((engine.events[n].kind = "sweep") # (engine.events[n].dir = "bull"))
               PROVE  engine.events[m].kind = "sweep" /\ engine.events[n].kind # "sweep"
    BY DEF LevelsSpent
  <2>1. Once(engine.events) /\ engine.events \in Seq(Events)
    BY <1>2 DEF Reading, Engines
  <2>2. DOMAIN engine.events = 1..Len(engine.events)
    BY <2>1
  <2> QED BY <2>1, <2>2 DEF Once, HighEvent
<1> QED BY <1>3, <1>4, <1>5, <1>6 DEF TrackKept

\* The candles of a track are the market's, in order and at most Window; the events of an engine that has
\* taken them one by one, dropped and made again at any time, are those the track means when it is read as
\* a whole; and no level is broken or swept twice, nor swept after it was broken (appendStructureCandle,
\* structureEngine, ingestStructureHistory, IncrementalStructure::append).
THEOREM TrackIsKept == ASSUME StructureConstants PROVE StructureSpec => []TrackKept
<1>1. StructureInit => TrackInv
  BY InitTracks
<1>2. TrackInv /\ [StructureNext]_structure => TrackInv'
  <2> SUFFICES ASSUME TrackInv, [StructureNext]_structure PROVE TrackInv'
    OBVIOUS
  <2>1. CASE Close
    BY <2>1, CloseTracks
  <2>2. CASE Look
    BY <2>2, LookTracks
  <2>3. CASE AskHistory
    BY <2>3, AskHistoryTracks
  <2>4. CASE Ingest
    BY <2>4, IngestTracks
  <2>5. ASSUME NEW n \in 1..LastCandle, AppendCandle(n) PROVE TrackInv'
    BY <2>5, AppendTracks
  <2>6. CASE UNCHANGED structure
    BY <2>6 DEF structure, TrackInv, MarketIs, TrackIs
  <2> QED BY <2>1, <2>2, <2>3, <2>4, <2>5, <2>6 DEF StructureNext
<1>3. TrackInv => TrackKept
  BY TrackedSaysIt
<1> QED BY <1>1, <1>2, <1>3, PTL DEF StructureSpec
==============================================================================
