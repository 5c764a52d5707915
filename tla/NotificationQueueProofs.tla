----------------------- MODULE NotificationQueueProofs -----------------------
(***************************************************************************)
(* Theorems about NotificationQueue, for any number of alerts, users and   *)
(* phone numbers, any retry and hold limits, and any number of refusals    *)
(* and dead letters.                                                       *)
(***************************************************************************)
EXTENDS NotificationQueue, SequenceTheorems, TLAPS

\* The elements of a sequence over S are in S.
LEMMA ElementsTyped ==
    ASSUME NEW S, NEW s \in Seq(S)
    PROVE  Elements(s) \subseteq S
BY DEF Elements

\* Replacing an element of a sequence by one of the same set gives a sequence again.
LEMMA ReplaceTyped ==
    ASSUME NEW S, NEW s \in Seq(S), NEW i, NEW e \in S
    PROVE  [s EXCEPT ![i] = e] \in Seq(S)
<1>1. CASE i \in DOMAIN s
  BY <1>1, ExceptSeq
<1>2. CASE i \notin DOMAIN s
  <2>1. [s EXCEPT ![i] = e] = s
    BY <1>2
  <2> QED BY <2>1
<1> QED BY <1>1, <1>2

\* Merging alerts into one job of a queue gives a queue again.
LEMMA MergeTyped ==
    ASSUME NEW s \in Seq(Job), NEW i, NEW S \in SUBSET Alerts
    PROVE  [s EXCEPT ![i].merged = @ \cup S] \in Seq(Job)
<1>1. CASE i \in DOMAIN s
  <2>1. s[i] \in Job
    BY <1>1
  <2>2. [s[i] EXCEPT !.merged = @ \cup S] \in Job
    BY <2>1 DEF Job
  <2>3. [s EXCEPT ![i] = [s[i] EXCEPT !.merged = @ \cup S]] \in Seq(Job)
    BY <2>2, ReplaceTyped
  <2> QED BY <2>3
<1>2. CASE i \notin DOMAIN s
  <2>1. [s EXCEPT ![i].merged = @ \cup S] = s
    BY <1>2
  <2> QED BY <2>1
<1> QED BY <1>1, <1>2

\* The job of a fired alert f that enters the queue.
LEMMA PushTyped ==
    ASSUME TypeOK, NEW f \in Fired, Push(f)
    PROVE  pending' \in Seq(Job) /\ queuedIdems' \subseteq Idem
<1>1. Own(f.alert) \in Idem
  BY DEF Fired, Own, Idem
<1>2. [fired |-> f, idem |-> Own(f.alert), only |-> {}, merged |-> {}, attempts |-> 0] \in Job
  BY <1>1 DEF Job
<1>3. pending \in Seq(Job) /\ queuedIdems \subseteq Idem
  BY DEF TypeOK
<1> QED BY <1>1, <1>2, <1>3 DEF Push

\* What Push, Accept and Settle leave in the queue has its type.
LEMMA AcceptTyped ==
    ASSUME TypeOK, NEW f \in Fired, Accept(f)
    PROVE  /\ pending' \in Seq(Job)
           /\ inFlight' \in [Keys -> BOOLEAN] /\ window' \in [Keys -> BOOLEAN]
           /\ held' \in [Keys -> Seq(Fired)] /\ scheduled' \in [Keys -> BOOLEAN]
           /\ queuedIdems' \subseteq Idem
           /\ bell' \in [Alerts -> CallStatus]
<1> DEFINE k == Key(f)
           i == Host(f)
<1> USE QueueAssumption
<1>0. /\ f.alert \in Alerts /\ f.chans \subseteq External /\ f.event \in BOOLEAN
      /\ k \in Keys
  BY DEF Fired, Key
<1>1. /\ NoCall(f) \in Fired /\ Own(f.alert) \in Idem
  BY <1>0 DEF Fired, NoCall, Own, Idem
<1>2. \A g \in Fired : [fired |-> g, idem |-> Own(f.alert), only |-> {},
                        merged |-> {}, attempts |-> 0] \in Job
  BY <1>1 DEF Job
<1>3. ASSUME NEW g \in Fired, Push(g)
      PROVE  pending' \in Seq(Job) /\ queuedIdems' \subseteq Idem
  BY <1>3, PushTyped
<1>5. \A st \in CallStatus : Bell(f, st) \in [Alerts -> CallStatus]
  BY <1>0 DEF Bell, TypeOK
<1>6. CASE Own(f.alert) \in queuedIdems \cup deliveredIdems
  BY <1>6 DEF Accept, TypeOK, gates
<1>7. CASE Push(f) /\ UNCHANGED <<gates, bell>>
  BY <1>7, <1>3 DEF TypeOK, gates
<1>8. CASE /\ Hosts(f) # {}
           /\ pending' = Append([pending EXCEPT ![i].merged = @ \cup (IF f.event THEN {f.alert} ELSE {})],
                                [fired |-> NoCall(f), idem |-> Own(f.alert), only |-> {},
                                 merged |-> {}, attempts |-> 0])
           /\ queuedIdems' = queuedIdems \cup {Own(f.alert)}
           /\ UNCHANGED <<gates, bell>>
  <2> DEFINE more == IF f.event THEN {f.alert} ELSE {}
             grown == [pending EXCEPT ![i].merged = @ \cup more]
             rest == [fired |-> NoCall(f), idem |-> Own(f.alert), only |-> {},
                      merged |-> {}, attempts |-> 0]
  <2>1. more \in SUBSET Alerts /\ pending \in Seq(Job)
    BY <1>0 DEF TypeOK
  <2>2. grown \in Seq(Job)
    BY <2>1, MergeTyped
  <2>3. rest \in Job
    BY <1>1, <1>2
  <2>4. pending' = Append(grown, rest)
    BY <1>8
  <2>5. pending' \in Seq(Job)
    <3> HIDE DEF grown, rest
    <3> QED BY <2>2, <2>3, <2>4
  <2> QED BY <2>5, <1>8, <1>1 DEF TypeOK, gates
<1>9. CASE Hold(f, k) /\ Push(NoCall(f)) /\ bell' = Bell(f, "queued") /\ UNCHANGED <<inFlight, window>>
  <2>1. held' \in [Keys -> Seq(Fired)] /\ scheduled' \in [Keys -> BOOLEAN]
    BY <1>9, <1>0 DEF Hold, TypeOK
  <2>2. bell' \in [Alerts -> CallStatus]
    BY <1>9, <1>5 DEF CallStatus
  <2> QED BY <2>1, <2>2, <1>9, <1>1, <1>3 DEF TypeOK
<1>10. CASE Push(NoCall(f)) /\ bell' = Bell(f, "skipped") /\ UNCHANGED gates
  <2>2. bell' \in [Alerts -> CallStatus]
    BY <1>10, <1>5 DEF CallStatus
  <2> QED BY <2>2, <1>10, <1>1, <1>3 DEF TypeOK, gates
<1> QED BY <1>6, <1>7, <1>8, <1>9, <1>10 DEF Accept

\* Whatever becomes of a finished job, queue, lists and bell keep their types.
LEMMA SettleTyped ==
    ASSUME TypeOK, NEW j \in Job, NEW retry \in SUBSET External,
           NEW call \in CallStatus, NEW b \in [Alerts -> CallStatus],
           Settle(j, retry, call, b)
    PROVE  /\ bell' \in [Alerts -> CallStatus]
           /\ retrying' \subseteq Job
           /\ queuedIdems' \subseteq Idem /\ deliveredIdems' \subseteq Idem
           /\ dlq' \in Seq(Fired)
<1>1. /\ j.fired \in Fired /\ j.idem \in Idem /\ j.merged \subseteq Alerts /\ j.attempts \in Nat
  BY DEF Job
<1>2. NextTry(j, retry) \in Job
  <2>1. j.attempts + 1 \in Nat /\ retry \in SUBSET External
    BY <1>1
  <2>2. [j EXCEPT !.attempts = @ + 1] \in Job
    BY <2>1 DEF Job
  <2> QED BY <2>1, <2>2 DEF NextTry, Job
<1>3. bell' \in [Alerts -> CallStatus]
  BY <1>1 DEF Settle, BellAll
<1>4. /\ retrying \subseteq Job /\ queuedIdems \subseteq Idem
      /\ deliveredIdems \subseteq Idem /\ dlq \in Seq(Fired)
  BY DEF TypeOK
<1>5. CASE deliveredIdems' = deliveredIdems \cup {j.idem} /\ Forget(j) /\ UNCHANGED <<retrying, dlq>>
  BY <1>1, <1>3, <1>4, <1>5 DEF Forget
<1>6. CASE retrying' = retrying \cup {NextTry(j, retry)} /\ UNCHANGED <<idems, dlq>>
  BY <1>2, <1>3, <1>4, <1>6 DEF idems
<1>7. CASE Forget(j) /\ dlq' = Append(dlq, j.fired) /\ UNCHANGED <<retrying, deliveredIdems>>
  BY <1>1, <1>3, <1>4, <1>7 DEF Forget
<1> QED BY <1>5, <1>6, <1>7 DEF Settle

\* Handing over a popped job keeps every type.
LEMMA DispatchTyped ==
    ASSUME TypeOK, NEW barred \in SUBSET External, Dispatch(barred)
    PROVE  TypeOK'
<1> DEFINE j     == current[1]
           k     == Key(j.fired)
           tries == Channels(j) \ barred
           place == "call" \in tries /\ ~Blocked(k)
           hold  == "call" \in tries /\ Blocked(k) /\ Len(held[k]) < MaxHeld
           call  == IF place \/ "call" \notin Channels(j) THEN ""
                    ELSE IF hold THEN "queued" ELSE "skipped"
           out   == IF place THEN tries ELSE tries \ {"call"}
           b     == IF call = "" THEN bell ELSE Bell(j.fired, call)
<1>1. j \in Job
  <2>1. current \in Seq(Job) /\ current # <<>>
    BY DEF Dispatch, TypeOK
  <2> QED BY <2>1
<1>2. /\ j.fired \in Fired /\ j.fired.alert \in Alerts /\ k \in Keys
      /\ j.fired.chans \subseteq External /\ j.only \subseteq External
  BY <1>1, QueueAssumption DEF Job, Fired, Key
<1>3. out \in SUBSET External
  BY <1>2 DEF Channels
<1>4. call \in CallStatus
  BY DEF CallStatus
<1>5. b \in [Alerts -> CallStatus]
  BY <1>2, <1>4 DEF Bell, TypeOK
<1>6. inFlight' \in [Keys -> BOOLEAN]
  BY <1>2 DEF Dispatch, TypeOK
<1>7. held' \in [Keys -> Seq(Fired)] /\ scheduled' \in [Keys -> BOOLEAN]
  <2>1. CASE Hold(j.fired, k)
    BY <1>2, <2>1 DEF Hold, TypeOK
  <2>2. CASE UNCHANGED <<held, scheduled>>
    BY <2>2 DEF TypeOK
  <2> QED BY <2>1, <2>2 DEF Dispatch
<1>8. /\ bell' \in [Alerts -> CallStatus]
      /\ retrying' \subseteq Job
      /\ queuedIdems' \subseteq Idem /\ deliveredIdems' \subseteq Idem
      /\ dlq' \in Seq(Fired)
      /\ flights' \subseteq Flight
  <2>1. CASE Settle(j, {}, call, b) /\ UNCHANGED flights
    <3> HIDE DEF j, call, b
    <3> QED BY <1>1, <1>4, <1>5, <2>1, SettleTyped DEF TypeOK
  <2>2. CASE /\ flights' = flights \cup {[job |-> j, left |-> out, retry |-> {}, call |-> call]}
             /\ bell' = b
             /\ UNCHANGED <<retrying, idems, dlq>>
    <3> HIDE DEF j, call, b, out
    <3>1. [job |-> j, left |-> out, retry |-> {}, call |-> call] \in Flight
      BY <1>1, <1>3, <1>4 DEF Flight
    <3> QED BY <1>5, <2>2, <3>1 DEF TypeOK, idems
  <2> QED BY <2>1, <2>2 DEF Dispatch
<1>9. current' = <<>> /\ UNCHANGED <<fresh, pending, window, sent, digests, fails, taken>>
  BY DEF Dispatch
<1> HIDE DEF j, k, tries, place, hold, call, out, b
<1> QED BY <1>6, <1>7, <1>8, <1>9 DEF TypeOK

\* An answer of a provider keeps every type.
LEMMA AnswerTyped ==
    ASSUME TypeOK, NEW f \in flights, NEW c \in External, NEW ok \in BOOLEAN, Answer(f, c, ok)
    PROVE  TypeOK'
<1> DEFINE j     == f.job
           retry == IF ok THEN f.retry ELSE f.retry \cup {c}
           call  == IF c # "call" THEN f.call ELSE IF ok THEN "placed" ELSE "failed"
           b     == IF c = "call" THEN Bell(j.fired, call) ELSE bell
<1>1. /\ f \in Flight /\ j \in Job /\ f.left \subseteq External
      /\ f.retry \subseteq External /\ f.call \in CallStatus
  BY DEF TypeOK, Flight
<1>2. j.fired \in Fired /\ j.fired.alert \in Alerts /\ Key(j.fired) \in Keys
  BY <1>1, QueueAssumption DEF Job, Fired, Key
<1>3. retry \in SUBSET External /\ call \in CallStatus
  BY <1>1 DEF CallStatus
<1>4. b \in [Alerts -> CallStatus]
  BY <1>2, <1>3 DEF Bell, TypeOK
<1>5. /\ inFlight' \in [Keys -> BOOLEAN] /\ window' \in [Keys -> BOOLEAN]
      /\ held' \in [Keys -> Seq(Fired)] /\ scheduled' \in [Keys -> BOOLEAN]
  <2>1. CASE CallDone(Key(j.fired), ok)
    BY <1>2, <2>1 DEF CallDone, TypeOK
  <2>2. CASE UNCHANGED gates
    BY <2>2 DEF gates, TypeOK
  <2> QED BY <2>1, <2>2 DEF Answer
<1>6. sent' \in [Alerts -> [External -> Nat]] /\ fails' \in Nat
  <2>1. sent' = IF ok THEN [sent EXCEPT ![j.fired.alert][c] = @ + 1] ELSE sent
    BY DEF Answer
  <2>2. sent \in [Alerts -> [External -> Nat]]
    BY DEF TypeOK
  <2>3. sent' \in [Alerts -> [External -> Nat]]
    <3> HIDE DEF j
    <3> QED BY <1>2, <2>1, <2>2
  <2>4. fails' \in Nat
    BY DEF Answer, TypeOK
  <2> QED BY <2>3, <2>4
<1>7. /\ bell' \in [Alerts -> CallStatus]
      /\ retrying' \subseteq Job
      /\ queuedIdems' \subseteq Idem /\ deliveredIdems' \subseteq Idem
      /\ dlq' \in Seq(Fired)
      /\ flights' \subseteq Flight
  <2>1. CASE flights' = flights \ {f} /\ Settle(j, retry, call, b)
    <3> HIDE DEF j, retry, call, b
    <3> QED BY <1>1, <1>3, <1>4, <2>1, SettleTyped DEF TypeOK
  <2>2. CASE /\ flights' = (flights \ {f}) \cup
                            {[f EXCEPT !.left = @ \ {c}, !.retry = retry, !.call = call]}
             /\ bell' = b
             /\ UNCHANGED <<retrying, idems, dlq>>
    <3> HIDE DEF j, retry, call, b
    <3>1. [f EXCEPT !.left = @ \ {c}, !.retry = retry, !.call = call] \in Flight
      BY <1>1, <1>3 DEF Flight
    <3> QED BY <1>4, <2>2, <3>1 DEF TypeOK, idems
  <2> QED BY <2>1, <2>2 DEF Answer
<1>8. UNCHANGED <<fresh, pending, current, digests, taken>>
  BY DEF Answer
<1> HIDE DEF j, retry, call, b
<1> QED BY <1>5, <1>6, <1>7, <1>8 DEF TypeOK

\* The summary call for the held alerts of a key keeps every type.
LEMMA ReleaseTyped ==
    ASSUME TypeOK, NEW k \in Keys, ReleaseHeld(k)
    PROVE  TypeOK'
<1> DEFINE idem == [alert |-> held[k][1].alert, digest |-> digests + 1]
           rest == {f.alert : f \in {g \in Elements(Tail(held[k])) : g.event}}
           job  == [fired |-> held[k][1], idem |-> idem, only |-> {"call"}, attempts |-> 0,
                    merged |-> rest]
<1>1. held[k] \in Seq(Fired) /\ held[k] # <<>>
  BY DEF TypeOK, ReleaseHeld
<1>2. held[k][1] \in Fired /\ Tail(held[k]) \in Seq(Fired)
  BY <1>1
<1>3. held[k][1].alert \in Alerts /\ \A f \in Elements(Tail(held[k])) : f.alert \in Alerts
  BY <1>2, ElementsTyped DEF Fired
<1>4. idem \in Idem
  BY <1>3 DEF Idem, TypeOK
<1>5. rest \subseteq Alerts
  BY <1>3
<1>6. job \in Job
  <2> HIDE DEF idem, rest
  <2> QED BY <1>2, <1>4, <1>5 DEF Job, External
<1>7. /\ pending' = Append(pending, job)
      /\ queuedIdems' = queuedIdems \cup {idem}
  BY DEF ReleaseHeld
<1>8. held' \in [Keys -> Seq(Fired)] /\ scheduled' \in [Keys -> BOOLEAN] /\ digests' \in Nat
  BY DEF ReleaseHeld, TypeOK
<1> HIDE DEF idem, rest, job
<1>9. pending' \in Seq(Job) /\ queuedIdems' \subseteq Idem
  BY <1>4, <1>6, <1>7 DEF TypeOK
<1>10. UNCHANGED <<fresh, current, flights, retrying, inFlight, window, deliveredIdems, dlq, bell,
                   sent, fails, taken>>
  BY DEF ReleaseHeld
<1> QED BY <1>8, <1>9, <1>10 DEF TypeOK

\* Every variable of the queue keeps its type.
THEOREM TypeCorrect == Spec => []TypeOK
<1>1. Init => TypeOK
  <2> SUFFICES ASSUME Init PROVE TypeOK
    OBVIOUS
  <2>1. /\ pending \in Seq(Job) /\ current \in Seq(Job) /\ Len(current) <= 1
        /\ dlq \in Seq(Fired) /\ held \in [Keys -> Seq(Fired)]
    <3>1. <<>> \in Seq(Job) /\ <<>> \in Seq(Fired) /\ Len(<<>>) <= 1
      OBVIOUS
    <3> QED BY <3>1 DEF Init
  <2>2. bell \in [Alerts -> CallStatus] /\ sent \in [Alerts -> [External -> Nat]]
    BY DEF Init, CallStatus
  <2>3. /\ inFlight \in [Keys -> BOOLEAN] /\ window \in [Keys -> BOOLEAN]
        /\ scheduled \in [Keys -> BOOLEAN]
    BY DEF Init
  <2> QED BY <2>1, <2>2, <2>3 DEF Init, TypeOK
<1>2. TypeOK /\ [Next]_vars => TypeOK'
  <2> SUFFICES ASSUME TypeOK, [Next]_vars PROVE TypeOK'
    OBVIOUS
  <2> USE QueueAssumption
  <2>1. ASSUME NEW a \in Alerts, Enqueue(a) PROVE TypeOK'
    <3>1. [alert |-> a, chans |-> Wants[a], event |-> TRUE] \in Fired
      BY DEF Fired
    <3> QED BY <2>1, <3>1, AcceptTyped DEF Enqueue, TypeOK
  <2>2. ASSUME NEW a \in Alerts, EnqueueSuppressed(a) PROVE TypeOK'
    BY <2>2 DEF EnqueueSuppressed, TypeOK, gates, idems
  <2>3. CASE TakeDeadLetter
    <3>1. Head(dlq) \in Fired /\ dlq' \in Seq(Fired)
      BY <2>3 DEF TakeDeadLetter, TypeOK
    <3>2. [Head(dlq) EXCEPT !.event = FALSE] \in Fired
      BY <3>1 DEF Fired
    <3> QED BY <2>3, <3>1, <3>2, AcceptTyped DEF TakeDeadLetter, TypeOK
  <2>4. CASE DropDeadLetter
    BY <2>4 DEF DropDeadLetter, TypeOK, gates, idems
  <2>5. CASE Pop
    <3>1. Head(pending) \in Job /\ Tail(pending) \in Seq(Job)
      BY <2>5 DEF Pop, TypeOK
    <3> QED BY <2>5, <3>1 DEF Pop, TypeOK, gates, idems
  <2>6. ASSUME NEW barred \in SUBSET External, Dispatch(barred) PROVE TypeOK'
    BY <2>6, DispatchTyped
  <2>7. ASSUME NEW j \in retrying, Retry(j) PROVE TypeOK'
    <3>1. <<j>> \o pending \in Seq(Job)
      BY DEF TypeOK
    <3> QED BY <2>7, <3>1 DEF Retry, TypeOK, gates, idems
  <2>8. ASSUME NEW f \in flights, NEW c \in External, NEW ok \in BOOLEAN, Answer(f, c, ok)
        PROVE  TypeOK'
    BY <2>8, AnswerTyped
  <2>9. ASSUME NEW k \in Keys, ReleaseNothing(k) PROVE TypeOK'
    BY <2>9 DEF ReleaseNothing, TypeOK, idems
  <2>10. ASSUME NEW k \in Keys, ReleaseHeld(k) PROVE TypeOK'
    BY <2>10, ReleaseTyped
  <2>11. ASSUME NEW k \in Keys, WindowEnds(k) PROVE TypeOK'
    BY <2>11 DEF WindowEnds, TypeOK, idems
  <2>12. CASE UNCHANGED vars
    BY <2>12 DEF vars, gates, idems, TypeOK
  <2> QED BY <2>1, <2>2, <2>3, <2>4, <2>5, <2>6, <2>7, <2>8, <2>9, <2>10, <2>11, <2>12
          DEF Next, Loop, Answers, Release
<1> QED BY <1>1, <1>2, PTL DEF Spec

-----------------------------------------------------------------------------
(* The call gate.                                                            *)

\* What a step may do to the gate of key k; HeldIsReleased survives each of these.
LEMMA HoldKeepsRelease ==
    ASSUME TypeOK, HeldIsReleased, NEW f \in Fired, Hold(f, Key(f)),
           \A k \in Keys : inFlight[k] => inFlight'[k]
    PROVE  HeldIsReleased'
<1> SUFFICES ASSUME NEW k \in Keys, held'[k] # <<>> PROVE inFlight'[k] \/ scheduled'[k]
  BY DEF HeldIsReleased
<1>1. CASE k = Key(f)
  BY <1>1 DEF Hold, TypeOK
<1>2. CASE k # Key(f)
  BY <1>2 DEF Hold, TypeOK, HeldIsReleased
<1> QED BY <1>1, <1>2

\* Alerts held for the next minute always have a release on its way: the call that
\* is out, or a timer of their key.  For every load and every order of answers,
\* timers, retries and dead letters.
THEOREM HeldIsAlwaysReleased == Spec => []HeldIsReleased
<1>1. Init => HeldIsReleased
  BY DEF Init, HeldIsReleased
<1>2. TypeOK /\ HeldIsReleased /\ [Next]_vars => HeldIsReleased'
  <2> SUFFICES ASSUME TypeOK, HeldIsReleased, [Next]_vars PROVE HeldIsReleased'
    OBVIOUS
  <2> USE QueueAssumption
  <2>0. ASSUME UNCHANGED gates PROVE HeldIsReleased'
    BY <2>0 DEF gates, HeldIsReleased
  <2>1. ASSUME NEW f \in Fired, Accept(f) PROVE HeldIsReleased'
    <3>1. CASE Hold(f, Key(f)) /\ UNCHANGED <<inFlight, window>>
      BY <3>1, HoldKeepsRelease
    <3>2. CASE UNCHANGED gates
      BY <2>0, <3>2
    <3> QED BY <2>1, <3>1, <3>2 DEF Accept, gates
  <2>2. ASSUME NEW a \in Alerts, Enqueue(a) PROVE HeldIsReleased'
    <3>1. [alert |-> a, chans |-> Wants[a], event |-> TRUE] \in Fired
      BY DEF Fired
    <3> QED BY <2>1, <2>2, <3>1 DEF Enqueue
  <2>3. CASE TakeDeadLetter
    <3>1. Head(dlq) \in Fired
      BY <2>3 DEF TakeDeadLetter, TypeOK
    <3>2. [Head(dlq) EXCEPT !.event = FALSE] \in Fired
      BY <3>1 DEF Fired
    <3> QED BY <2>1, <2>3, <3>2 DEF TakeDeadLetter
  <2>4. ASSUME NEW barred \in SUBSET External, Dispatch(barred) PROVE HeldIsReleased'
    <3> DEFINE j == current[1]
               k == Key(j.fired)
    <3>1. current \in Seq(Job) /\ current # <<>>
      BY <2>4 DEF Dispatch, TypeOK
    <3>2. j \in Job
      BY <3>1
    <3>3. j.fired \in Fired
      BY <3>2 DEF Job
    <3>4. k \in Keys
      BY <3>3 DEF Fired, Key
    <3>5. \A n \in Keys : inFlight[n] => inFlight'[n]
      BY <2>4, <3>4 DEF Dispatch, TypeOK
    <3>6. CASE Hold(j.fired, k)
      BY <3>3, <3>5, <3>6, HoldKeepsRelease
    <3>7. CASE UNCHANGED <<held, scheduled>>
      BY <3>5, <3>7 DEF HeldIsReleased
    <3> QED BY <2>4, <3>6, <3>7 DEF Dispatch
  <2>5. ASSUME NEW f \in flights, NEW c \in External, NEW ok \in BOOLEAN, Answer(f, c, ok)
        PROVE  HeldIsReleased'
    <3>1. CASE CallDone(Key(f.job.fired), ok)
      BY <3>1 DEF CallDone, TypeOK, HeldIsReleased
    <3>2. CASE UNCHANGED gates
      BY <2>0, <3>2
    <3> QED BY <2>5, <3>1, <3>2 DEF Answer
  <2>6. ASSUME NEW k \in Keys, Release(k) PROVE HeldIsReleased'
    <3> SUFFICES ASSUME NEW n \in Keys, held'[n] # <<>> PROVE inFlight'[n] \/ scheduled'[n]
      BY DEF HeldIsReleased
    <3>1. CASE ReleaseNothing(k)
      BY <3>1 DEF ReleaseNothing, TypeOK, HeldIsReleased
    <3>2. CASE ReleaseHeld(k)
      <4>1. /\ held' = [held EXCEPT ![k] = <<>>] /\ inFlight' = inFlight
            /\ scheduled' = [scheduled EXCEPT ![k] = FALSE]
        BY <3>2 DEF ReleaseHeld
      <4> QED BY <4>1 DEF TypeOK, HeldIsReleased
    <3> QED BY <2>6, <3>1, <3>2 DEF Release
  <2>7. ASSUME NEW k \in Keys, WindowEnds(k) PROVE HeldIsReleased'
    BY <2>7 DEF WindowEnds, HeldIsReleased
  <2> QED
    <3>1. CASE DropDeadLetter \/ Pop \/ (\E a \in Alerts : EnqueueSuppressed(a)) \/ UNCHANGED vars
               \/ (\E j \in retrying : Retry(j))
      BY <2>0, <3>1 DEF DropDeadLetter, Pop, EnqueueSuppressed, Retry, vars
    <3> QED BY <2>2, <2>3, <2>4, <2>5, <2>6, <2>7, <3>1 DEF Next, Loop, Answers
<1> QED BY <1>1, <1>2, TypeCorrect, PTL DEF Spec

\* A call handed to the provider: the gate knows it, and it is the only one.
LEMMA DispatchKeepsGate ==
    ASSUME TypeOK, OneCallPerMinute, NEW barred \in SUBSET External, Dispatch(barred)
    PROVE  OneCallPerMinute'
<1> DEFINE j     == current[1]
           k     == Key(j.fired)
           tries == Channels(j) \ barred
           place == "call" \in tries /\ ~Blocked(k)
           out   == IF place THEN tries ELSE tries \ {"call"}
<1>1. k \in Keys
  <2>1. current \in Seq(Job) /\ current # <<>>
    BY DEF Dispatch, TypeOK
  <2>2. j \in Job
    BY <2>1
  <2> QED BY <2>2, QueueAssumption DEF Job, Fired, Key
<1>2. inFlight' = [inFlight EXCEPT ![k] = @ \/ place] /\ window' = window
  BY DEF Dispatch
<1>3. \/ out = {} /\ flights' = flights
      \/ \E g : /\ g.left = out /\ g.job = j
                /\ flights' = flights \cup {g}
  <2>1. CASE out = {} /\ UNCHANGED flights
    BY <2>1
  <2>2. ASSUME NEW call, flights' = flights \cup {[job |-> j, left |-> out, retry |-> {}, call |-> call]}
        PROVE  \E g : /\ g.left = out /\ g.job = j
                      /\ flights' = flights \cup {g}
    <3> WITNESS [job |-> j, left |-> out, retry |-> {}, call |-> call]
    <3> QED BY <2>2
  <2> QED BY <2>1, <2>2 DEF Dispatch
<1>4. place <=> "call" \in out
  OBVIOUS
<1>5. place => ~inFlight[k] /\ ~window[k]
  BY DEF Blocked
<1> HIDE DEF j, k, tries, place, out
<1>6. CASE ~place
  <2>1. inFlight' = inFlight
    BY <1>1, <1>2, <1>6 DEF TypeOK
  <2>2. \A n \in Keys : CallsOut(n)' = CallsOut(n)
    BY <1>3, <1>4, <1>6 DEF CallsOut
  <2> QED BY <1>2, <2>1, <2>2 DEF OneCallPerMinute
<1>7. CASE place
  <2>1. PICK g : g.left = out /\ g.job = j /\ flights' = flights \cup {g}
    BY <1>3, <1>4, <1>7
  <2>2. Key(g.job.fired) = k
    BY <2>1 DEF k
  <2>3. CallsOut(k) = {}
    BY <1>1, <1>5, <1>7 DEF OneCallPerMinute
  <2>4. ASSUME NEW n \in Keys, n = k PROVE CallsOut(n)' = {g}
    <3>1. "call" \in g.left
      BY <1>4, <1>7, <2>1
    <3>2. CallsOut(n)' = CallsOut(n) \cup {g}
      BY <2>1, <2>2, <2>4, <3>1 DEF CallsOut
    <3> QED BY <2>3, <2>4, <3>2
  <2>5. ASSUME NEW n \in Keys, n # k PROVE CallsOut(n)' = CallsOut(n)
    BY <2>1, <2>2, <2>5 DEF CallsOut
  <2>6. inFlight'[k] /\ \A n \in Keys \ {k} : inFlight'[n] = inFlight[n]
    BY <1>1, <1>2, <1>7 DEF TypeOK
  <2>7. ASSUME NEW n \in Keys
        PROVE  /\ inFlight'[n] <=> CallsOut(n)' # {}
               /\ \A e, h \in CallsOut(n)' : e = h
               /\ inFlight'[n] => ~window'[n]
    <3>1. CASE n = k
      <4>1. inFlight'[n] /\ ~window'[n] /\ CallsOut(n)' = {g}
        BY <1>2, <1>5, <1>7, <2>4, <2>6, <3>1
      <4> QED BY <4>1
    <3>2. CASE n # k
      <4>1. CallsOut(n)' = CallsOut(n) /\ inFlight'[n] = inFlight[n] /\ window'[n] = window[n]
        BY <1>2, <2>5, <2>6, <3>2
      <4> QED BY <4>1 DEF OneCallPerMinute
    <3> QED BY <3>1, <3>2
  <2> QED BY <2>7 DEF OneCallPerMinute
<1> QED BY <1>6, <1>7

\* An answer takes its own call off the gate and leaves the calls of others there.
LEMMA AnswerKeepsGate ==
    ASSUME TypeOK, OneCallPerMinute,
           NEW f \in flights, NEW c \in External, NEW ok \in BOOLEAN, Answer(f, c, ok)
    PROVE  OneCallPerMinute'
<1> DEFINE k == Key(f.job.fired)
<1>1. k \in Keys /\ f.left \subseteq External
  BY QueueAssumption DEF TypeOK, Flight, Job, Fired, Key
<1>2. c \in f.left
  BY DEF Answer
<1>3. \/ f.left = {c} /\ flights' = flights \ {f}
      \/ f.left # {c} /\ \E g : /\ g.left = f.left \ {c} /\ g.job = f.job
                                /\ flights' = (flights \ {f}) \cup {g}
  <2>1. CASE f.left = {c} /\ flights' = flights \ {f}
    BY <2>1
  <2>2. ASSUME NEW retry, NEW call, f.left # {c},
               flights' = (flights \ {f}) \cup {[f EXCEPT !.left = @ \ {c}, !.retry = retry, !.call = call]}
        PROVE  \E g : /\ g.left = f.left \ {c} /\ g.job = f.job
                      /\ flights' = (flights \ {f}) \cup {g}
    <3>1. f \in Flight
      BY DEF TypeOK
    <3> WITNESS [f EXCEPT !.left = @ \ {c}, !.retry = retry, !.call = call]
    <3> QED BY <2>2, <3>1 DEF Flight
  <2> QED BY <2>1, <2>2 DEF Answer
<1>4. \A n \in Keys \ {k} : CallsOut(n)' = CallsOut(n)
  BY <1>3 DEF CallsOut
<1> HIDE DEF k
<1>5. CASE c = "call"
  <2>1. f \in CallsOut(k)
    BY <1>2, <1>5 DEF CallsOut, k
  <2>2. CallsOut(k) = {f}
    <3>1. \A g \in CallsOut(k) : g = f
      BY <1>1, <2>1 DEF OneCallPerMinute
    <3> QED BY <2>1, <3>1
  <2>3. CallsOut(k)' = {}
    BY <1>3, <1>5, <2>2 DEF CallsOut
  <2>4. CallDone(k, ok)
    BY <1>5 DEF Answer, k
  <2>5. /\ ~inFlight'[k]
        /\ \A n \in Keys \ {k} : inFlight'[n] = inFlight[n] /\ window'[n] = window[n]
    BY <1>1, <2>4 DEF CallDone, TypeOK
  <2> QED BY <1>4, <2>3, <2>5 DEF OneCallPerMinute
<1>6. CASE c # "call"
  <2>1. inFlight' = inFlight /\ window' = window
    BY <1>6 DEF Answer, gates
  <2>2. CASE "call" \notin f.left
    <3>1. CallsOut(k)' = CallsOut(k)
      BY <1>3, <2>2 DEF CallsOut
    <3> QED BY <1>4, <2>1, <3>1 DEF OneCallPerMinute
  <2>3. CASE "call" \in f.left
    <3>1. CallsOut(k) = {f}
      <4>1. f \in CallsOut(k)
        BY <2>3 DEF CallsOut, k
      <4>2. \A g \in CallsOut(k) : g = f
        BY <1>1, <4>1 DEF OneCallPerMinute
      <4> QED BY <4>1, <4>2
    <3>2. PICK g : /\ g.left = f.left \ {c} /\ g.job = f.job
                   /\ flights' = (flights \ {f}) \cup {g}
      BY <1>3, <1>6, <2>3
    <3>3. CallsOut(k)' = {g}
      BY <1>6, <2>3, <3>1, <3>2 DEF CallsOut, k
    <3>4. inFlight[k] /\ ~window[k]
      BY <1>1, <3>1 DEF OneCallPerMinute
    <3> QED BY <1>4, <2>1, <3>3, <3>4 DEF OneCallPerMinute
  <2> QED BY <2>2, <2>3
<1> QED BY <1>5, <1>6

\* Never two calls to one number at a time, none in the minute after an accepted
\* one, and the gate is closed exactly while a call is out: for every number of
\* alerts and numbers and every interleaving of enqueue, dispatch and answers.
THEOREM OneCallAtATime == Spec => []OneCallPerMinute
<1>1. Init => OneCallPerMinute
  BY DEF Init, OneCallPerMinute, CallsOut
<1>2. TypeOK /\ OneCallPerMinute /\ [Next]_vars => OneCallPerMinute'
  <2> SUFFICES ASSUME TypeOK, OneCallPerMinute, [Next]_vars PROVE OneCallPerMinute'
    OBVIOUS
  <2>1. ASSUME UNCHANGED <<flights, inFlight, window>> PROVE OneCallPerMinute'
    BY <2>1 DEF OneCallPerMinute, CallsOut
  <2>2. ASSUME NEW f, Accept(f) PROVE UNCHANGED <<inFlight, window>>
    BY <2>2 DEF Accept, gates
  <2>3. CASE \E a \in Alerts : Enqueue(a)
    BY <2>1, <2>2, <2>3 DEF Enqueue
  <2>4. CASE TakeDeadLetter
    BY <2>1, <2>2, <2>4 DEF TakeDeadLetter
  <2>5. ASSUME NEW barred \in SUBSET External, Dispatch(barred) PROVE OneCallPerMinute'
    BY <2>5, DispatchKeepsGate
  <2>6. ASSUME NEW f \in flights, NEW c \in External, NEW ok \in BOOLEAN, Answer(f, c, ok)
        PROVE  OneCallPerMinute'
    BY <2>6, AnswerKeepsGate
  <2>7. ASSUME NEW k \in Keys, WindowEnds(k) PROVE OneCallPerMinute'
    <3>1. \A n \in Keys : CallsOut(n)' = CallsOut(n)
      BY <2>7 DEF WindowEnds, CallsOut
    <3>2. inFlight' = inFlight /\ \A n \in Keys : window'[n] => window[n]
      BY <2>7 DEF WindowEnds, TypeOK
    <3> QED BY <3>1, <3>2 DEF OneCallPerMinute
  <2>8. CASE \/ \E a \in Alerts : EnqueueSuppressed(a)
             \/ DropDeadLetter \/ Pop \/ (\E j \in retrying : Retry(j))
             \/ (\E k \in Keys : Release(k)) \/ UNCHANGED vars
    BY <2>1, <2>8 DEF EnqueueSuppressed, DropDeadLetter, Pop, Retry, Release, ReleaseNothing,
                      ReleaseHeld, vars, gates
  <2> QED BY <2>3, <2>4, <2>5, <2>6, <2>7, <2>8 DEF Next, Loop, Answers
<1> QED BY <1>1, <1>2, TypeCorrect, PTL DEF Spec

-----------------------------------------------------------------------------
(* Idempotency keys.                                                         *)

Waiting == Elements(pending) \cup Elements(current) \cup retrying

\* A key names one job: no two jobs that wait, are popped, are out at providers or
\* sit out a back-off share theirs.
OneHolder ==
    /\ \A i, j \in DOMAIN pending : pending[i].idem = pending[j].idem => i = j
    /\ \A i \in Elements(pending), j \in Elements(current) \cup retrying : i.idem # j.idem
    /\ \A i \in Elements(current), j \in retrying : i.idem # j.idem
    /\ \A i, j \in retrying : i.idem = j.idem => i = j
    /\ \A f, g \in flights : f.job.idem = g.job.idem => f = g
    /\ \A f \in flights, j \in Waiting : f.job.idem # j.idem

\* Summary calls are numbered, and the next number is not in use.
DigestsCounted == \A x \in queuedIdems \cup deliveredIdems : x.digest <= digests

QueueInv == OneHolder /\ DigestsCounted /\ QueuedIsLive

\* What a sequence holds when an element is added at the back or the front, or the
\* first is taken.
LEMMA ElementsAppend ==
    ASSUME NEW S, NEW s \in Seq(S), NEW e \in S
    PROVE  /\ Elements(Append(s, e)) = Elements(s) \cup {e}
           /\ Elements(<<e>> \o s) = Elements(s) \cup {e}
<1>1. /\ Append(s, e) \in Seq(S) /\ Len(Append(s, e)) = Len(s) + 1 /\ Append(s, e)[Len(s) + 1] = e
      /\ \A i \in 1..Len(s) : Append(s, e)[i] = s[i]
  BY AppendProperties
<1>2. /\ <<e>> \o s \in Seq(S) /\ Len(<<e>> \o s) = 1 + Len(s) /\ (<<e>> \o s)[1] = e
      /\ \A i \in 1..Len(s) : (<<e>> \o s)[i + 1] = s[i]
  <2>1. <<e>> \in Seq(S) /\ Len(<<e>>) = 1 /\ <<e>>[1] = e
    OBVIOUS
  <2> QED BY <2>1, ConcatProperties
<1>3. Len(s) \in Nat /\ DOMAIN s = 1..Len(s)
  OBVIOUS
<1>4. DOMAIN Append(s, e) = 1..(Len(s) + 1) /\ DOMAIN (<<e>> \o s) = 1..(Len(s) + 1)
  BY <1>1, <1>2, <1>3
<1>5. ASSUME NEW t, DOMAIN t = 1..(Len(s) + 1), t[Len(s) + 1] = e, \A i \in 1..Len(s) : t[i] = s[i]
      PROVE  Elements(t) = Elements(s) \cup {e}
  <2>1. \A i \in DOMAIN t : t[i] \in Elements(s) \cup {e}
    BY <1>3, <1>5 DEF Elements
  <2>2. \A x \in Elements(s) \cup {e} : \E i \in DOMAIN t : x = t[i]
    BY <1>3, <1>5 DEF Elements
  <2> QED BY <2>1, <2>2 DEF Elements
<1>6. ASSUME NEW t, DOMAIN t = 1..(Len(s) + 1), t[1] = e, \A i \in 1..Len(s) : t[i + 1] = s[i]
      PROVE  Elements(t) = Elements(s) \cup {e}
  <2>1. ASSUME NEW i \in DOMAIN t PROVE t[i] \in Elements(s) \cup {e}
    <3>1. i = 1 \/ (i - 1 \in 1..Len(s) /\ (i - 1) + 1 = i)
      BY <1>3, <1>6, <2>1
    <3>2. CASE i # 1
      <4>1. t[(i - 1) + 1] = s[i - 1]
        BY <1>6, <3>1, <3>2
      <4> QED BY <1>3, <3>1, <3>2, <4>1 DEF Elements
    <3> QED BY <1>6, <3>2
  <2>2. \A x \in Elements(s) \cup {e} : \E i \in DOMAIN t : x = t[i]
    <3>1. \A i \in 1..Len(s) : i + 1 \in DOMAIN t
      BY <1>3, <1>6
    <3> QED BY <1>3, <1>6, <3>1 DEF Elements
  <2> QED BY <2>1, <2>2 DEF Elements
<1> QED BY <1>1, <1>2, <1>4, <1>5, <1>6

LEMMA ElementsTail ==
    ASSUME NEW S, NEW s \in Seq(S), s # <<>>
    PROVE  /\ Elements(s) = Elements(Tail(s)) \cup {Head(s)}
           /\ Tail(s) \in Seq(S) /\ Head(s) \in S
<1>1. /\ Head(s) = s[1] /\ Head(s) \in S /\ Tail(s) \in Seq(S) /\ Len(Tail(s)) = Len(s) - 1
      /\ \A i \in 1..Len(Tail(s)) : Tail(s)[i] = s[i + 1]
  BY HeadTailProperties
<1>2. /\ Len(s) \in Nat /\ Len(s) # 0 /\ DOMAIN s = 1..Len(s)
      /\ DOMAIN Tail(s) = 1..(Len(s) - 1)
  BY <1>1, EmptySeq
<1>3. ASSUME NEW i \in DOMAIN s PROVE s[i] \in Elements(Tail(s)) \cup {Head(s)}
  <2>1. i = 1 \/ (i - 1 \in 1..(Len(s) - 1) /\ (i - 1) + 1 = i)
    BY <1>2
  <2>2. CASE i # 1
    <3>1. Tail(s)[i - 1] = s[(i - 1) + 1]
      BY <1>1, <1>2, <2>1, <2>2
    <3> QED BY <1>2, <2>1, <2>2, <3>1 DEF Elements
  <2> QED BY <1>1, <2>2
<1>4. \A x \in Elements(Tail(s)) \cup {Head(s)} : \E i \in DOMAIN s : x = s[i]
  <2>1. \A i \in DOMAIN Tail(s) : i + 1 \in DOMAIN s
    BY <1>2
  <2>2. 1 \in DOMAIN s
    BY <1>2
  <2> QED BY <1>1, <1>2, <2>1, <2>2 DEF Elements
<1>5. Elements(s) = Elements(Tail(s)) \cup {Head(s)}
  BY <1>3, <1>4 DEF Elements
<1> QED BY <1>1, <1>5

\* A sequence of at most one element.
LEMMA ElementsOne ==
    ASSUME NEW S, NEW s \in Seq(S), Len(s) <= 1
    PROVE  /\ s = <<>> => Elements(s) = {}
           /\ s # <<>> => Elements(s) = {s[1]} /\ s[1] \in S
           /\ \A e \in S : Elements(<<e>>) = {e}
<1>1. s # <<>> => Len(s) = 1
  <2>1. Len(s) \in Nat /\ (Len(s) = 0 => s = <<>>)
    BY EmptySeq
  <2>2. \A n \in Nat : n <= 1 /\ n # 0 => n = 1
    OBVIOUS
  <2> QED BY <2>1, <2>2, Zenon
<1>2. DOMAIN s = 1..Len(s)
  OBVIOUS
<1>3. \A e \in S : Elements(<<e>>) = {e}
  BY DEF Elements
<1> QED BY <1>1, <1>2, <1>3 DEF Elements

-----------------------------------------------------------------------------
(* How a step may change who holds a key.                                    *)

\* A job with a new key x joins the end of a queue whose keys are otherwise as before.
LEMMA JoinKeepsHolders ==
    ASSUME TypeOK, QueueInv, TypeOK', NEW x,
           Len(pending') = Len(pending) + 1, pending'[Len(pending) + 1].idem = x,
           \A i \in DOMAIN pending : pending'[i].idem = pending[i].idem,
           x \notin queuedIdems \cup deliveredIdems, queuedIdems' = queuedIdems \cup {x},
           x.digest <= digests', digests <= digests',
           UNCHANGED <<current, retrying, flights, deliveredIdems>>
    PROVE  QueueInv'
<1>1. /\ pending \in Seq(Job) /\ pending' \in Seq(Job) /\ Len(pending) \in Nat
      /\ DOMAIN pending = 1..Len(pending) /\ DOMAIN pending' = 1..(Len(pending) + 1)
  BY DEF TypeOK
<1>2. \A i \in DOMAIN pending' : i \in DOMAIN pending \/ i = Len(pending) + 1
  BY <1>1
<1>3. \A i \in DOMAIN pending : i \in DOMAIN pending'
  BY <1>1
<1>4. x \notin LiveIdems
  BY DEF QueueInv, QueuedIsLive
<1>5. \A i \in DOMAIN pending : pending[i].idem # x
  BY <1>4 DEF LiveIdems, Elements
<1>6. \A j \in Elements(pending)' : j.idem = x \/ \E i \in Elements(pending) : j.idem = i.idem
  BY <1>2 DEF Elements
<1>7. \A i \in Elements(pending) : \E j \in Elements(pending)' : j.idem = i.idem
  BY <1>3 DEF Elements
<1>8. \E j \in Elements(pending)' : j.idem = x
  BY <1>1 DEF Elements
<1>9. Elements(current)' = Elements(current)
  BY DEF Elements
<1>10. OneHolder'
  <2>1. \A j \in Elements(current) \cup retrying : j.idem # x
    BY <1>4 DEF LiveIdems
  <2>2. \A f \in flights : f.job.idem # x
    BY <1>4 DEF LiveIdems
  <2>3. \A i, j \in DOMAIN pending' : pending'[i].idem = pending'[j].idem => i = j
    BY <1>2, <1>5 DEF QueueInv, OneHolder
  <2>4. \A i \in Elements(pending)', j \in Elements(current) \cup retrying : i.idem # j.idem
    BY <1>6, <2>1 DEF QueueInv, OneHolder
  <2>5. \A f \in flights, j \in Elements(pending)' : f.job.idem # j.idem
    BY <1>6, <2>2 DEF QueueInv, OneHolder, Waiting
  <2> QED BY <1>9, <2>3, <2>4, <2>5 DEF QueueInv, OneHolder, Waiting
<1>11. LiveIdems' = LiveIdems \cup {x}
  BY <1>6, <1>7, <1>8, <1>9 DEF LiveIdems
<1>12. QueuedIsLive'
  BY <1>11 DEF QueueInv, QueuedIsLive
<1>13. DigestsCounted'
  <2>1. /\ digests \in Nat /\ digests' \in Nat
        /\ \A y \in queuedIdems \cup deliveredIdems : y.digest \in Nat
    BY DEF TypeOK, Idem
  <2>2. \A y \in queuedIdems' \cup deliveredIdems' : y = x \/ y \in queuedIdems \cup deliveredIdems
    OBVIOUS
  <2>3. \A y \in queuedIdems \cup deliveredIdems : y.digest <= digests'
    BY <2>1 DEF QueueInv, DigestsCounted
  <2> QED BY <2>2, <2>3 DEF DigestsCounted
<1> QED BY <1>10, <1>12, <1>13 DEF QueueInv

\* A job leaves the notification loop's hands for good, or for its back-off timer.
\* P, C and F are who waits in the queue, is popped and is out once j has left them.
LEMMA SettleKeepsHolders ==
    ASSUME TypeOK, QueueInv, NEW j \in Job, NEW retry, NEW call, NEW b, Settle(j, retry, call, b),
           pending' = pending, digests' = digests,
           j.idem \in queuedIdems,
           Elements(current)' \subseteq Elements(current), flights' \subseteq flights,
           \A i \in Elements(pending) \cup Elements(current)' \cup retrying : i.idem # j.idem,
           \A f \in flights' : f.job.idem # j.idem,
           \A i \in Elements(current) : i \in Elements(current)' \/ i.idem = j.idem,
           \A f \in flights : f \in flights' \/ f.job.idem = j.idem
    PROVE  QueueInv'
<1>1. Elements(pending)' = Elements(pending)
  BY DEF Elements
<1>2. NextTry(j, retry).idem = j.idem
  BY DEF NextTry, Job
<1>3. CASE retrying' = retrying \cup {NextTry(j, retry)} /\ UNCHANGED idems
  <2>1. LiveIdems' = LiveIdems
    <3>1. j.idem \in LiveIdems
      BY DEF QueueInv, QueuedIsLive
    <3>2. ASSUME NEW x \in LiveIdems PROVE x \in LiveIdems'
      BY <1>1, <1>2, <1>3 DEF LiveIdems
    <3>3. ASSUME NEW x \in LiveIdems' PROVE x \in LiveIdems
      BY <1>1, <1>2, <1>3, <3>1 DEF LiveIdems
    <3> QED BY <3>2, <3>3
  <2>2. OneHolder'
    BY <1>1, <1>2, <1>3 DEF QueueInv, OneHolder, Waiting
  <2> QED BY <1>3, <2>1, <2>2 DEF QueueInv, QueuedIsLive, DigestsCounted, idems
<1>4. CASE /\ retrying' = retrying /\ queuedIdems' = queuedIdems \ {j.idem}
           /\ deliveredIdems' \in {deliveredIdems, deliveredIdems \cup {j.idem}}
  <2>1. LiveIdems' = LiveIdems \ {j.idem}
    <3>1. ASSUME NEW x \in LiveIdems, x # j.idem PROVE x \in LiveIdems'
      BY <1>1, <1>4, <3>1 DEF LiveIdems
    <3>2. ASSUME NEW x \in LiveIdems' PROVE x \in LiveIdems \ {j.idem}
      BY <1>1, <1>4 DEF LiveIdems
    <3> QED BY <3>1, <3>2
  <2>2. OneHolder'
    BY <1>1, <1>4 DEF QueueInv, OneHolder, Waiting
  <2>3. DigestsCounted'
    BY <1>4 DEF QueueInv, DigestsCounted
  <2> QED BY <1>4, <2>1, <2>2, <2>3 DEF QueueInv, QueuedIsLive
<1> QED BY <1>3, <1>4 DEF Settle, Forget

\* What Accept does: nothing when the key was seen before; or a job with the alert's
\* own key joins the queue, with the call or, when that is held, merged or given up,
\* without it.
Joins(f, g) ==
    /\ Own(f.alert) \notin queuedIdems \cup deliveredIdems
    /\ queuedIdems' = queuedIdems \cup {Own(f.alert)}
    /\ Len(pending') = Len(pending) + 1
    /\ LET j == pending'[Len(pending) + 1]
       IN  j.idem = Own(f.alert) /\ j.fired = g /\ j.only = {}
    /\ \A i \in DOMAIN pending : /\ pending'[i].idem = pending[i].idem
                                 /\ pending'[i].fired = pending[i].fired
                                 /\ pending'[i].only = pending[i].only

LEMMA JoinsQueue ==
    ASSUME NEW s \in Seq(Job), s = pending \/ \E i, S : s = [pending EXCEPT ![i].merged = @ \cup S],
           NEW f \in Fired, NEW g \in Fired, TypeOK,
           Own(f.alert) \notin queuedIdems \cup deliveredIdems,
           queuedIdems' = queuedIdems \cup {Own(f.alert)},
           pending' = Append(s, [fired |-> g, idem |-> Own(f.alert), only |-> {},
                                 merged |-> {}, attempts |-> 0])
    PROVE  Joins(f, g)
<1> DEFINE new == [fired |-> g, idem |-> Own(f.alert), only |-> {}, merged |-> {}, attempts |-> 0]
<1>1. new.idem = Own(f.alert) /\ new.fired = g /\ new.only = {} /\ new \in Job
  BY DEF Job, Own, Idem, Fired
<1>2. pending' = Append(s, new)
  OBVIOUS
<1>3. /\ Len(s) = Len(pending)
      /\ \A i \in DOMAIN pending : /\ s[i].idem = pending[i].idem
                                   /\ s[i].fired = pending[i].fired
                                   /\ s[i].only = pending[i].only
  <2>1. CASE s = pending
    BY <2>1
  <2>2. ASSUME NEW n, NEW S, s = [pending EXCEPT ![n].merged = @ \cup S]
        PROVE  /\ Len(s) = Len(pending)
               /\ \A i \in DOMAIN pending : /\ s[i].idem = pending[i].idem
                                            /\ s[i].fired = pending[i].fired
                                            /\ s[i].only = pending[i].only
    <3>1. \A i \in DOMAIN pending : pending[i] \in Job
      BY DEF TypeOK
    <3>2. DOMAIN s = DOMAIN pending
      BY <2>2
    <3>3. Len(s) = Len(pending)
      BY <3>2 DEF TypeOK
    <3>4. \A i \in DOMAIN pending : s[i] = IF i = n THEN [pending[i] EXCEPT !.merged = @ \cup S] ELSE pending[i]
      BY <2>2
    <3>5. \A i \in DOMAIN pending : /\ [pending[i] EXCEPT !.merged = @ \cup S].idem = pending[i].idem
                                    /\ [pending[i] EXCEPT !.merged = @ \cup S].fired = pending[i].fired
                                    /\ [pending[i] EXCEPT !.merged = @ \cup S].only = pending[i].only
      BY <3>1 DEF Job
    <3> QED BY <3>3, <3>4, <3>5
  <2> QED BY <2>1, <2>2
<1> HIDE DEF new
<1>4. /\ Len(pending') = Len(s) + 1 /\ pending'[Len(s) + 1] = new
      /\ \A i \in 1..Len(s) : pending'[i] = s[i]
  BY <1>1, <1>2, AppendProperties
<1>5. DOMAIN pending = 1..Len(pending)
  BY DEF TypeOK
<1> QED BY <1>1, <1>3, <1>4, <1>5 DEF Joins

LEMMA AcceptJoins ==
    ASSUME TypeOK, NEW f \in Fired, Accept(f)
    PROVE  \/ UNCHANGED <<pending, queuedIdems, held>>
           \/ Joins(f, f) /\ UNCHANGED held
           \/ Joins(f, NoCall(f)) /\ UNCHANGED held
           \/ /\ Joins(f, NoCall(f)) /\ HasCall(f)
              /\ held' = [held EXCEPT ![Key(f)] = Append(@, f)]
<1> DEFINE more == IF f.event THEN {f.alert} ELSE {}
           grown == [pending EXCEPT ![Host(f)].merged = @ \cup more]
<1>1. f.alert \in Alerts /\ NoCall(f) \in Fired
  BY DEF Fired, NoCall
<1>2. pending \in Seq(Job) /\ grown \in Seq(Job)
  BY <1>1, MergeTyped DEF TypeOK
<1>3. ASSUME Own(f.alert) \notin queuedIdems \cup deliveredIdems, NEW g \in Fired,
             \/ Push(g) /\ g.alert = f.alert
             \/ /\ pending' = Append(grown, [fired |-> g, idem |-> Own(f.alert), only |-> {},
                                             merged |-> {}, attempts |-> 0])
                /\ queuedIdems' = queuedIdems \cup {Own(f.alert)}
      PROVE  Joins(f, g)
  <2>1. CASE Push(g) /\ g.alert = f.alert
    BY <1>2, <1>3, <2>1, JoinsQueue DEF Push
  <2>2. CASE /\ pending' = Append(grown, [fired |-> g, idem |-> Own(f.alert), only |-> {},
                                          merged |-> {}, attempts |-> 0])
             /\ queuedIdems' = queuedIdems \cup {Own(f.alert)}
    <3>1. \E i, S : grown = [pending EXCEPT ![i].merged = @ \cup S]
      OBVIOUS
    <3> HIDE DEF grown
    <3> QED BY <1>2, <1>3, <2>2, <3>1, JoinsQueue
  <2> QED BY <1>3, <2>1, <2>2
<1>4. NoCall(f).alert = f.alert
  BY DEF NoCall, Fired
<1> HIDE DEF grown, more
<1>5. CASE Own(f.alert) \in queuedIdems \cup deliveredIdems
  BY <1>5 DEF Accept, gates
<1>6. CASE Own(f.alert) \notin queuedIdems \cup deliveredIdems
  <2>1. \/ Push(f) /\ UNCHANGED held
        \/ /\ pending' = Append(grown, [fired |-> NoCall(f), idem |-> Own(f.alert), only |-> {},
                                        merged |-> {}, attempts |-> 0])
           /\ queuedIdems' = queuedIdems \cup {Own(f.alert)}
           /\ UNCHANGED held
        \/ Push(NoCall(f)) /\ UNCHANGED held
        \/ Push(NoCall(f)) /\ HasCall(f) /\ held' = [held EXCEPT ![Key(f)] = Append(@, f)]
    BY <1>6 DEF Accept, gates, Hold, grown, more
  <2> QED BY <1>1, <1>3, <1>4, <1>6, <2>1
<1> QED BY <1>5, <1>6

LEMMA AcceptKeepsHolders ==
    ASSUME TypeOK, QueueInv, TypeOK', NEW f \in Fired, Accept(f),
           UNCHANGED <<current, retrying, flights, deliveredIdems, digests>>
    PROVE  QueueInv'
<1>1. CASE UNCHANGED <<pending, queuedIdems>>
  BY <1>1 DEF QueueInv, OneHolder, DigestsCounted, QueuedIsLive, LiveIdems, Waiting, Elements
<1>2. ASSUME NEW g, Joins(f, g) PROVE QueueInv'
  <2>1. digests \in Nat /\ Own(f.alert).digest <= digests
    BY DEF Own, TypeOK
  <2>2. digests' = digests /\ digests <= digests
    BY <2>1
  <2> QED BY <1>2, <2>1, <2>2, JoinKeepsHolders DEF Joins
<1> QED BY <1>1, <1>2, AcceptJoins

\* A summary call gets a number of its own.
LEMMA ReleaseKeepsHolders ==
    ASSUME TypeOK, QueueInv, TypeOK', NEW k \in Keys, ReleaseHeld(k)
    PROVE  QueueInv'
<1> DEFINE idem == [alert |-> held[k][1].alert, digest |-> digests + 1]
           job == [fired |-> held[k][1], idem |-> idem, only |-> {"call"}, attempts |-> 0,
                   merged |-> {f.alert : f \in {g \in Elements(Tail(held[k])) : g.event}}]
<1>1. digests \in Nat /\ digests' = digests + 1 /\ idem.digest = digests + 1 /\ job.idem = idem
  BY DEF ReleaseHeld, TypeOK
<1>2. idem \notin queuedIdems \cup deliveredIdems
  <2>1. \A x \in queuedIdems \cup deliveredIdems : x.digest <= digests /\ x.digest \in Nat
    BY DEF QueueInv, DigestsCounted, TypeOK, Idem
  <2> QED BY <1>1, <2>1
<1>3. /\ queuedIdems' = queuedIdems \cup {idem} /\ pending' = Append(pending, job)
      /\ UNCHANGED <<current, retrying, flights, deliveredIdems>>
  BY DEF ReleaseHeld
<1> HIDE DEF idem, job
<1>4. pending \in Seq(Job) /\ pending' \in Seq(Job) /\ Len(pending) \in Nat
  BY DEF TypeOK
<1>5. /\ Len(pending') = Len(pending) + 1 /\ pending'[Len(pending) + 1] = job
      /\ \A i \in DOMAIN pending : pending'[i] = pending[i]
  BY <1>3, <1>4
<1>6. idem.digest <= digests' /\ digests <= digests'
  BY <1>1
<1> QED BY <1>1, <1>2, <1>3, <1>5, <1>6, JoinKeepsHolders

\* The loop takes the first job, or a timer puts one in front.
LEMMA PopKeepsHolders ==
    ASSUME TypeOK, QueueInv, TypeOK', Pop
    PROVE  QueueInv'
<1>1. /\ pending \in Seq(Job) /\ pending # <<>> /\ current = <<>>
      /\ pending' = Tail(pending) /\ current' = <<Head(pending)>>
      /\ UNCHANGED <<retrying, flights, queuedIdems, deliveredIdems, digests>>
  BY DEF Pop, TypeOK, idems
<1>2. /\ Elements(pending) = Elements(pending)' \cup {Head(pending)}
      /\ Head(pending) \in Job
  BY <1>1, ElementsTail
<1>3. Elements(current) = {} /\ Elements(current)' = {Head(pending)}
  BY <1>1, <1>2 DEF Elements
<1>4. /\ \A i, j \in DOMAIN pending' : pending'[i].idem = pending'[j].idem => i = j
      /\ \A i \in DOMAIN pending' : pending'[i].idem # Head(pending).idem
  <2>1. /\ Head(pending) = pending[1] /\ Len(pending) \in Nat
        /\ DOMAIN pending = 1..Len(pending) /\ DOMAIN pending' = 1..(Len(pending) - 1)
        /\ \A i \in DOMAIN pending' : pending'[i] = pending[i + 1]
    BY <1>1, HeadTailProperties
  <2>2. \A i \in DOMAIN pending' : i + 1 \in DOMAIN pending /\ i + 1 # 1 /\ 1 \in DOMAIN pending /\ i \in Nat
    BY <2>1
  <2>3. \A i, j \in Nat : i + 1 = j + 1 => i = j
    OBVIOUS
  <2>4. \A i, j \in DOMAIN pending : pending[i].idem = pending[j].idem => i = j
    BY DEF QueueInv, OneHolder
  <2>5. ASSUME NEW i \in DOMAIN pending', NEW j \in DOMAIN pending', pending'[i].idem = pending'[j].idem
        PROVE  i = j
    BY <2>1, <2>2, <2>3, <2>4, <2>5
  <2>6. ASSUME NEW i \in DOMAIN pending' PROVE pending'[i].idem # Head(pending).idem
    BY <2>1, <2>2, <2>4, <2>6
  <2> QED BY <2>5, <2>6
<1>5. \A i \in Elements(pending)' : i.idem # Head(pending).idem
  BY <1>4 DEF Elements
<1>6. OneHolder'
  BY <1>1, <1>2, <1>3, <1>4, <1>5 DEF QueueInv, OneHolder, Waiting
<1>7. LiveIdems' = LiveIdems
  BY <1>1, <1>2, <1>3 DEF LiveIdems
<1> QED BY <1>1, <1>6, <1>7 DEF QueueInv, QueuedIsLive, DigestsCounted

LEMMA RetryKeepsHolders ==
    ASSUME TypeOK, QueueInv, TypeOK', NEW j \in retrying, Retry(j)
    PROVE  QueueInv'
<1>1. /\ pending \in Seq(Job) /\ j \in Job
      /\ pending' = <<j>> \o pending /\ retrying' = retrying \ {j}
      /\ UNCHANGED <<current, flights, queuedIdems, deliveredIdems, digests>>
  BY DEF Retry, TypeOK, idems
<1>2. Elements(pending)' = Elements(pending) \cup {j}
  BY <1>1, ElementsAppend
<1>3. Elements(current)' = Elements(current)
  BY <1>1 DEF Elements
<1>4. \A i \in Elements(pending) : i.idem # j.idem
  BY DEF QueueInv, OneHolder
<1>5. \A i, n \in DOMAIN pending' : pending'[i].idem = pending'[n].idem => i = n
  <2>1. <<j>> \in Seq(Job) /\ Len(<<j>>) = 1 /\ <<j>>[1] = j
    BY <1>1
  <2>2. /\ Len(pending') = 1 + Len(pending) /\ Len(pending) \in Nat /\ pending' \in Seq(Job)
        /\ pending'[1] = j
        /\ \A i \in 1..Len(pending) : pending'[i + 1] = pending[i]
    BY <1>1, <2>1, ConcatProperties
  <2>3. DOMAIN pending' = 1..(Len(pending) + 1) /\ DOMAIN pending = 1..Len(pending)
    BY <1>1, <2>2
  <2>4. \A i \in DOMAIN pending' : i = 1 \/ (i - 1 \in DOMAIN pending /\ (i - 1) + 1 = i)
    BY <2>2, <2>3
  <2>5. \A i \in DOMAIN pending' : i # 1 => i - 1 \in DOMAIN pending /\ pending'[i] = pending[i - 1]
    BY <2>2, <2>3, <2>4
  <2>6. \A i \in DOMAIN pending' : i # 1 => pending'[i] \in Elements(pending)
    BY <2>5 DEF Elements
  <2>7. \A i \in DOMAIN pending' : i # 1 => pending'[i].idem # pending'[1].idem
    BY <1>4, <2>2, <2>6
  <2>8. \A i, n \in DOMAIN pending' : i - 1 = n - 1 => i = n
    BY <2>2, <2>3
  <2>9. \A i, n \in DOMAIN pending : pending[i].idem = pending[n].idem => i = n
    BY DEF QueueInv, OneHolder
  <2> SUFFICES ASSUME NEW i \in DOMAIN pending', NEW n \in DOMAIN pending',
                      pending'[i].idem = pending'[n].idem
               PROVE  i = n
    OBVIOUS
  <2>10. CASE i = 1 \/ n = 1
    BY <2>7, <2>10
  <2>11. CASE i # 1 /\ n # 1
    <3>1. i - 1 = n - 1
      BY <2>5, <2>9, <2>11
    <3> QED BY <2>8, <3>1
  <2> QED BY <2>10, <2>11
<1>6. OneHolder'
  <2>1. \A i \in retrying' : i.idem # j.idem
    BY <1>1 DEF QueueInv, OneHolder
  <2> QED BY <1>1, <1>2, <1>3, <1>5, <2>1 DEF QueueInv, OneHolder, Waiting
<1>7. LiveIdems' = LiveIdems
  BY <1>1, <1>2, <1>3 DEF LiveIdems
<1> QED BY <1>1, <1>6, <1>7 DEF QueueInv, QueuedIsLive, DigestsCounted

\* A job that is handed to the providers, or settled without one, keeps its key.
LEMMA DispatchKeepsHolders ==
    ASSUME TypeOK, QueueInv, NEW barred \in SUBSET External, Dispatch(barred)
    PROVE  QueueInv'
<1> DEFINE j == current[1]
<1>1. /\ current \in Seq(Job) /\ Len(current) <= 1 /\ current # <<>>
      /\ current' = <<>> /\ UNCHANGED <<pending, digests>>
  BY DEF Dispatch, TypeOK
<1>2. Elements(current) = {j} /\ j \in Job /\ Elements(current)' = {}
  <2>1. Elements(current)' = {}
    BY <1>1 DEF Elements
  <2> QED BY <1>1, <2>1, ElementsOne
<1>3. j.idem \in queuedIdems
  BY <1>2 DEF QueueInv, QueuedIsLive, LiveIdems
<1>4. /\ \A i \in Elements(pending) \cup retrying : i.idem # j.idem
      /\ \A f \in flights : f.job.idem # j.idem
  BY <1>2 DEF QueueInv, OneHolder, Waiting
<1>5. \/ \E call, b : Settle(j, {}, call, b) /\ UNCHANGED flights
      \/ /\ \E g : g.job = j /\ flights' = flights \cup {g}
         /\ UNCHANGED <<retrying, idems>>
  <2>1. ASSUME NEW left, NEW call, flights' = flights \cup {[job |-> j, left |-> left, retry |-> {}, call |-> call]}
        PROVE  \E g : g.job = j /\ flights' = flights \cup {g}
    <3> WITNESS [job |-> j, left |-> left, retry |-> {}, call |-> call]
    <3> QED BY <2>1
  <2> QED BY <2>1 DEF Dispatch
<1> HIDE DEF j
<1>6. ASSUME NEW call, NEW b, Settle(j, {}, call, b), UNCHANGED flights PROVE QueueInv'
  <2>1. \A f \in flights' : f.job.idem # j.idem
    BY <1>4, <1>6
  <2>2. \A i \in Elements(pending) \cup Elements(current)' \cup retrying : i.idem # j.idem
    BY <1>2, <1>4
  <2>3. \A i \in Elements(current) : i \in Elements(current)' \/ i.idem = j.idem
    BY <1>2
  <2> QED BY <1>1, <1>2, <1>3, <1>6, <2>1, <2>2, <2>3, SettleKeepsHolders
<1>7. ASSUME NEW g, g.job = j, flights' = flights \cup {g}, UNCHANGED <<retrying, idems>>
      PROVE  QueueInv'
  <2>1. Elements(pending)' = Elements(pending)
    BY <1>1 DEF Elements
  <2>2. OneHolder'
    BY <1>1, <1>2, <1>4, <1>7, <2>1 DEF QueueInv, OneHolder, Waiting
  <2>3. LiveIdems' = LiveIdems
    BY <1>2, <1>7, <2>1 DEF LiveIdems
  <2> QED BY <1>1, <1>7, <2>2, <2>3 DEF QueueInv, QueuedIsLive, DigestsCounted, idems
<1> QED BY <1>5, <1>6, <1>7

\* An answer leaves the job out, or settles it when it is the last.
LEMMA AnswerKeepsHolders ==
    ASSUME TypeOK, QueueInv, NEW f \in flights, NEW c \in External, NEW ok \in BOOLEAN,
           Answer(f, c, ok)
    PROVE  QueueInv'
<1> DEFINE j == f.job
<1>1. UNCHANGED <<pending, current, digests>> /\ f \in Flight /\ j \in Job
  BY DEF Answer, TypeOK, Flight
<1>2. Elements(pending)' = Elements(pending) /\ Elements(current)' = Elements(current)
  BY <1>1 DEF Elements
<1>3. j.idem \in queuedIdems
  BY DEF QueueInv, QueuedIsLive, LiveIdems
<1>4. /\ \A i \in Elements(pending) \cup Elements(current) \cup retrying : i.idem # j.idem
      /\ \A g \in flights : g # f => g.job.idem # j.idem
  BY DEF QueueInv, OneHolder, Waiting
<1>5. \/ \E retry, call, b : Settle(j, retry, call, b) /\ flights' = flights \ {f}
      \/ /\ \E g : g.job = j /\ flights' = (flights \ {f}) \cup {g}
         /\ UNCHANGED <<retrying, idems>>
  <2>1. ASSUME NEW left, NEW retry, NEW call,
               flights' = (flights \ {f}) \cup {[f EXCEPT !.left = left, !.retry = retry, !.call = call]}
        PROVE  \E g : g.job = j /\ flights' = (flights \ {f}) \cup {g}
    <3>1. [f EXCEPT !.left = left, !.retry = retry, !.call = call].job = j
      BY <1>1 DEF Flight
    <3> WITNESS [f EXCEPT !.left = left, !.retry = retry, !.call = call]
    <3> QED BY <2>1, <3>1
  <2> QED BY <2>1 DEF Answer
<1> HIDE DEF j
<1>6. ASSUME NEW retry, NEW call, NEW b, Settle(j, retry, call, b), flights' = flights \ {f}
      PROVE  QueueInv'
  <2>1. \A g \in flights' : g.job.idem # j.idem
    BY <1>4, <1>6
  <2>2. \A i \in Elements(pending) \cup Elements(current)' \cup retrying : i.idem # j.idem
    BY <1>2, <1>4
  <2>3. \A g \in flights : g \in flights' \/ g.job.idem = j.idem
    BY <1>6 DEF j
  <2> QED BY <1>1, <1>2, <1>3, <1>6, <2>1, <2>2, <2>3, SettleKeepsHolders
<1>7. ASSUME NEW g, g.job = j, flights' = (flights \ {f}) \cup {g}, UNCHANGED <<retrying, idems>>
      PROVE  QueueInv'
  <2>1. OneHolder'
    BY <1>1, <1>2, <1>4, <1>7 DEF QueueInv, OneHolder, Waiting
  <2>2. LiveIdems' = LiveIdems
    BY <1>2, <1>7 DEF LiveIdems, j
  <2> QED BY <1>1, <1>7, <2>1, <2>2 DEF QueueInv, QueuedIsLive, DigestsCounted, idems
<1> QED BY <1>5, <1>6, <1>7

LEMMA StepKeepsHolders == TypeOK /\ QueueInv /\ [Next]_vars /\ TypeOK' => QueueInv'
<1> SUFFICES ASSUME TypeOK, QueueInv, [Next]_vars, TypeOK' PROVE QueueInv'
  OBVIOUS
<1> USE QueueAssumption
<1>1. ASSUME UNCHANGED <<pending, current, retrying, flights, queuedIdems, deliveredIdems, digests>>
      PROVE  QueueInv'
  BY <1>1 DEF QueueInv, OneHolder, DigestsCounted, QueuedIsLive, LiveIdems, Waiting, Elements
<1>2. ASSUME NEW a \in Alerts, Enqueue(a) PROVE QueueInv'
  <2>1. [alert |-> a, chans |-> Wants[a], event |-> TRUE] \in Fired
    BY DEF Fired
  <2> QED BY <1>2, <2>1, AcceptKeepsHolders DEF Enqueue
<1>3. CASE TakeDeadLetter
  <2>1. Head(dlq) \in Fired
    BY <1>3 DEF TakeDeadLetter, TypeOK
  <2>2. [Head(dlq) EXCEPT !.event = FALSE] \in Fired
    BY <2>1 DEF Fired
  <2> QED BY <1>3, <2>2, AcceptKeepsHolders DEF TakeDeadLetter
<1>4. CASE Loop
  BY <1>4, PopKeepsHolders, DispatchKeepsHolders, RetryKeepsHolders DEF Loop
<1>5. CASE Answers
  BY <1>5, AnswerKeepsHolders DEF Answers
<1>6. ASSUME NEW k \in Keys, ReleaseHeld(k) PROVE QueueInv'
  BY <1>6, ReleaseKeepsHolders
<1>7. CASE \/ \E a \in Alerts : EnqueueSuppressed(a)
           \/ DropDeadLetter
           \/ \E k \in Keys : ReleaseNothing(k) \/ WindowEnds(k)
           \/ UNCHANGED vars
  BY <1>1, <1>7 DEF EnqueueSuppressed, DropDeadLetter, ReleaseNothing, WindowEnds, vars, idems
<1> QED BY <1>2, <1>3, <1>4, <1>5, <1>6, <1>7 DEF Next, Release

LEMMA QueueKept == Spec => []QueueInv
<1>1. Init => QueueInv
  <2> SUFFICES ASSUME Init PROVE QueueInv
    OBVIOUS
  <2>1. DOMAIN pending = {} /\ Elements(pending) = {} /\ Elements(current) = {}
    <3>1. DOMAIN <<>> = {}
      OBVIOUS
    <3>2. pending = <<>> /\ current = <<>>
      BY DEF Init
    <3> QED BY <3>1, <3>2 DEF Elements
  <2>2. flights = {} /\ retrying = {} /\ queuedIdems = {} /\ deliveredIdems = {}
    BY DEF Init
  <2> QED BY <2>1, <2>2 DEF QueueInv, OneHolder, DigestsCounted, QueuedIsLive, LiveIdems, Waiting
<1>2. TypeOK /\ QueueInv /\ [Next]_vars /\ TypeOK' => QueueInv'
  BY StepKeepsHolders
<1> QED BY <1>1, <1>2, TypeCorrect, PTL DEF Spec

\* Every key that is queued has exactly one job that works on it, and none has been
\* delivered: an alert is dropped as seen before only if it was delivered or will be
\* settled.  For every order of enqueue, answers, retries, summaries and dead letters.
THEOREM QueuedHasOneJob == Spec => [](QueuedIsLive /\ OneHolder)
<1>1. QueueInv => QueuedIsLive /\ OneHolder
  BY DEF QueueInv
<1> QED BY <1>1, QueueKept, PTL

-----------------------------------------------------------------------------
(* What is sent.                                                             *)

\* The keys of the jobs that may still send alert a over channel c.
Tries(a, c) ==
    {j.idem : j \in {i \in Waiting : i.fired.alert = a /\ c \in Channels(i)}}
    \cup {f.job.idem : f \in {g \in flights : g.job.fired.alert = a /\ c \in g.left \cup g.retry}}

\* Where alert a is held for the next minute's call.
HeldAt(a) == {i \in DOMAIN held[KeyOf[a]] : held[KeyOf[a]][i].alert = a}

\* An alert that has not gone out over c is in one place on its way there; one that
\* has gone out is in none.
OneTry(a, c) ==
    /\ \A x, y \in Tries(a, c) : x = y
    /\ Tries(a, c) # {} => sent[a][c] = 0
    /\ c = "call" => /\ \A i, j \in HeldAt(a) : i = j
                     /\ HeldAt(a) # {} => Tries(a, c) = {} /\ sent[a][c] = 0
    /\ a \in fresh => Tries(a, c) = {} /\ HeldAt(a) = {} /\ sent[a][c] = 0
    /\ sent[a][c] <= 1

HeldHere    == \A k \in Keys : \A i \in DOMAIN held[k] : Key(held[k][i]) = k
LeftOrRetry == \A f \in flights : f.left \cap f.retry = {}

SendInv == /\ HeldHere
           /\ LeftOrRetry
           /\ taken = 0 => \A a \in Alerts, c \in External : OneTry(a, c)

\* Fewer jobs and less that is held do no harm.
LEMMA FewerTries ==
    ASSUME NEW a \in Alerts, NEW c \in External, OneTry(a, c),
           Tries(a, c)' \subseteq Tries(a, c), HeldAt(a)' \subseteq HeldAt(a),
           fresh' \subseteq fresh, sent'[a][c] = sent[a][c]
    PROVE  OneTry(a, c)'
BY DEF OneTry

\* Sequences of held alerts keep their length and places unless one is added.
LEMMA HeldSame ==
    ASSUME UNCHANGED held
    PROVE  (\A a : HeldAt(a)' = HeldAt(a)) /\ (HeldHere => HeldHere')
BY DEF HeldAt, HeldHere

LEMMA HeldMore ==
    ASSUME TypeOK, NEW f \in Fired, held' = [held EXCEPT ![Key(f)] = Append(@, f)]
    PROVE  /\ HeldHere => HeldHere'
           /\ \A a \in Alerts : a # f.alert => HeldAt(a)' = HeldAt(a)
           /\ HeldAt(f.alert)' = HeldAt(f.alert) \cup {Len(held[Key(f)]) + 1}
<1> DEFINE k == Key(f)
           s == held[k]
<1>1. f.alert \in Alerts /\ k \in Keys /\ k = KeyOf[f.alert]
  BY QueueAssumption DEF Fired, Key
<1>2. s \in Seq(Fired) /\ held \in [Keys -> Seq(Fired)]
  BY <1>1 DEF TypeOK
<1>3. held'[k] = Append(s, f) /\ \A n \in Keys : n # k => held'[n] = held[n]
  BY <1>1, <1>2
<1> HIDE DEF k, s
<1>4. /\ Len(s) \in Nat /\ DOMAIN s = 1..Len(s) /\ DOMAIN Append(s, f) = 1..(Len(s) + 1)
      /\ Append(s, f)[Len(s) + 1] = f /\ \A i \in 1..Len(s) : Append(s, f)[i] = s[i]
  BY <1>2, AppendProperties
<1>5. /\ \A i \in DOMAIN Append(s, f) : i \in DOMAIN s \/ i = Len(s) + 1
      /\ \A i \in DOMAIN s : i \in DOMAIN Append(s, f) /\ i # Len(s) + 1
      /\ Len(s) + 1 \in DOMAIN Append(s, f)
  BY <1>4
<1>6. HeldHere => HeldHere'
  <2> SUFFICES ASSUME HeldHere, NEW n \in Keys, NEW i \in DOMAIN held'[n]
               PROVE  Key(held'[n][i]) = n
    BY DEF HeldHere, Key
  <2>1. CASE n = k
    BY <1>3, <1>4, <1>5, <2>1 DEF HeldHere, s, k
  <2>2. CASE n # k
    BY <1>3, <2>2 DEF HeldHere
  <2> QED BY <2>1, <2>2
<1>7. ASSUME NEW a \in Alerts, a # f.alert PROVE HeldAt(a)' = HeldAt(a)
  <2>1. KeyOf[a] \in Keys
    BY QueueAssumption
  <2>2. CASE KeyOf[a] = k
    BY <1>3, <1>4, <1>5, <1>7, <2>2 DEF HeldAt, s
  <2>3. CASE KeyOf[a] # k
    BY <1>3, <2>1, <2>3 DEF HeldAt
  <2> QED BY <2>2, <2>3
<1>8. HeldAt(f.alert)' = HeldAt(f.alert) \cup {Len(s) + 1}
  <2>1. HeldAt(f.alert) = {i \in DOMAIN s : s[i].alert = f.alert}
    BY <1>1 DEF HeldAt, s
  <2>2. HeldAt(f.alert)' = {i \in DOMAIN Append(s, f) : Append(s, f)[i].alert = f.alert}
    BY <1>1, <1>3 DEF HeldAt
  <2> QED BY <1>4, <1>5, <2>1, <2>2
<1> QED BY <1>6, <1>7, <1>8 DEF s, k

\* A job whose only channels are C joins the queue.
LEMMA JoinTries ==
    ASSUME TypeOK, TypeOK', UNCHANGED <<current, retrying, flights>>,
           Len(pending') = Len(pending) + 1,
           \A i \in DOMAIN pending : /\ pending'[i].idem = pending[i].idem
                                     /\ pending'[i].fired = pending[i].fired
                                     /\ pending'[i].only = pending[i].only
    PROVE  LET j == pending'[Len(pending) + 1]
           IN  \A a, c : Tries(a, c)' \subseteq
                   Tries(a, c) \cup (IF j.fired.alert = a /\ c \in Channels(j) THEN {j.idem} ELSE {})
<1> DEFINE j == pending'[Len(pending) + 1]
<1>1. /\ Len(pending) \in Nat /\ DOMAIN pending = 1..Len(pending)
      /\ DOMAIN pending' = 1..(Len(pending) + 1)
  BY DEF TypeOK
<1>2. \A i \in DOMAIN pending' : i \in DOMAIN pending \/ i = Len(pending) + 1
  BY <1>1
<1>3. \A i \in Elements(pending)' : i = j \/ \E n \in Elements(pending) :
                                                i.idem = n.idem /\ i.fired = n.fired /\ i.only = n.only
  BY <1>2 DEF Elements
<1>4. Elements(current)' = Elements(current)
  BY DEF Elements
<1> HIDE DEF j
<1> SUFFICES ASSUME NEW a, NEW c, NEW x \in Tries(a, c)'
             PROVE  x \in Tries(a, c) \/ (j.fired.alert = a /\ c \in Channels(j) /\ x = j.idem)
  BY DEF j
<1>5. CASE \E f \in flights : f.job.fired.alert = a /\ c \in f.left \cup f.retry /\ x = f.job.idem
  BY <1>5 DEF Tries
<1>6. ASSUME NEW i \in Waiting', i.fired.alert = a, c \in Channels(i), x = i.idem
      PROVE  x \in Tries(a, c) \/ (j.fired.alert = a /\ c \in Channels(j) /\ x = j.idem)
  <2>1. CASE i = j
    BY <1>6, <2>1
  <2>2. ASSUME NEW n \in Waiting, i.idem = n.idem, i.fired = n.fired, i.only = n.only
        PROVE  x \in Tries(a, c)
    BY <1>6, <2>2 DEF Tries, Channels
  <2> QED BY <1>3, <1>4, <1>6, <2>1, <2>2 DEF Waiting
<1> QED BY <1>5, <1>6 DEF Tries

\* What the queue takes in: at most the job of f, without the call if that is held.
LEMMA AcceptTries ==
    ASSUME TypeOK, TypeOK', NEW f \in Fired, Accept(f), UNCHANGED <<current, retrying, flights>>
    PROVE  /\ \A a \in Alerts, c \in External : a # f.alert => Tries(a, c)' \subseteq Tries(a, c)
           /\ \A c \in External : Tries(f.alert, c)' \subseteq Tries(f.alert, c) \cup {Own(f.alert)}
           /\ \/ UNCHANGED held
              \/ /\ held' = [held EXCEPT ![Key(f)] = Append(@, f)]
                 /\ Tries(f.alert, "call")' \subseteq Tries(f.alert, "call")
<1>1. CASE UNCHANGED <<pending, queuedIdems, held>>
  BY <1>1 DEF Tries, Waiting, Elements
<1>2. ASSUME NEW g, Joins(f, g), g.alert = f.alert
      PROVE  /\ \A a \in Alerts, c \in External : a # f.alert => Tries(a, c)' \subseteq Tries(a, c)
             /\ \A c \in External : Tries(f.alert, c)' \subseteq Tries(f.alert, c) \cup {Own(f.alert)}
             /\ "call" \notin g.chans => Tries(f.alert, "call")' \subseteq Tries(f.alert, "call")
  <2> DEFINE j == pending'[Len(pending) + 1]
  <2>1. j.idem = Own(f.alert) /\ j.fired = g /\ j.only = {}
    BY <1>2 DEF Joins
  <2>2. \A a, c : Tries(a, c)' \subseteq
           Tries(a, c) \cup (IF j.fired.alert = a /\ c \in Channels(j) THEN {j.idem} ELSE {})
    BY <1>2, JoinTries DEF Joins
  <2>3. Channels(j) = g.chans
    BY <2>1 DEF Channels
  <2> HIDE DEF j
  <2> QED BY <1>2, <2>1, <2>2, <2>3
<1>3. NoCall(f).alert = f.alert /\ "call" \notin NoCall(f).chans
  BY DEF NoCall, Fired
<1> QED BY <1>1, <1>2, <1>3, AcceptJoins

LEMMA EnqueueKeepsSent ==
    ASSUME TypeOK, TypeOK', SendInv, NEW a \in Alerts, Enqueue(a)
    PROVE  SendInv'
<1> DEFINE f == [alert |-> a, chans |-> Wants[a], event |-> TRUE]
<1>1. /\ f \in Fired /\ f.alert = a /\ Accept(f) /\ a \in fresh /\ fresh' = fresh \ {a}
      /\ UNCHANGED <<current, retrying, flights, sent, taken>>
  BY QueueAssumption DEF Enqueue, Fired
<1> HIDE DEF f
<1>2. /\ \A b \in Alerts, c \in External : b # a => Tries(b, c)' \subseteq Tries(b, c)
      /\ \A c \in External : Tries(a, c)' \subseteq Tries(a, c) \cup {Own(a)}
      /\ \/ UNCHANGED held
         \/ /\ held' = [held EXCEPT ![Key(f)] = Append(@, f)]
            /\ Tries(a, "call")' \subseteq Tries(a, "call")
  BY <1>1, AcceptTries
<1>3. HeldHere' /\ \A b \in Alerts : b # a => HeldAt(b)' = HeldAt(b)
  BY <1>1, <1>2, HeldSame, HeldMore DEF SendInv
<1>4. \/ HeldAt(a)' = HeldAt(a)
      \/ /\ HeldAt(a)' = HeldAt(a) \cup {Len(held[Key(f)]) + 1}
         /\ Tries(a, "call")' \subseteq Tries(a, "call")
  BY <1>1, <1>2, HeldSame, HeldMore
<1>5. ASSUME taken' = 0, NEW b \in Alerts, NEW c \in External PROVE OneTry(b, c)'
  <2>1. OneTry(b, c)
    BY <1>1, <1>5 DEF SendInv
  <2>2. CASE b # a
    BY <1>1, <1>2, <1>3, <2>1, <2>2, FewerTries
  <2>3. CASE b = a
    <3>1. Tries(a, c) = {} /\ HeldAt(a) = {} /\ sent[a][c] = 0
      BY <1>1, <2>1, <2>3 DEF OneTry
    <3>2. Tries(a, c)' \subseteq {Own(a)} /\ sent'[a][c] = 0 /\ a \notin fresh'
      BY <1>1, <1>2, <3>1
    <3>3. \A i, j \in HeldAt(a)' : i = j
      BY <1>4, <3>1
    <3>4. c = "call" /\ HeldAt(a)' # {} => Tries(a, c)' = {}
      BY <1>4, <3>1
    <3> QED BY <2>3, <3>2, <3>3, <3>4 DEF OneTry
  <2> QED BY <2>2, <2>3
<1> QED BY <1>1, <1>3, <1>5 DEF SendInv, LeftOrRetry

LEMMA TakeKeepsSent ==
    ASSUME TypeOK, TypeOK', SendInv, TakeDeadLetter
    PROVE  SendInv'
<1> DEFINE f == [Head(dlq) EXCEPT !.event = FALSE]
<1>1. Head(dlq) \in Fired
  BY DEF TakeDeadLetter, TypeOK
<1>2. /\ f \in Fired /\ Accept(f) /\ UNCHANGED <<current, retrying, flights>>
      /\ taken' # 0
  <2>1. f \in Fired
    BY <1>1 DEF Fired
  <2>2. taken \in Nat /\ taken' = taken + 1
    BY DEF TakeDeadLetter, TypeOK
  <2>3. taken' # 0
    BY <2>2
  <2> QED BY <2>1, <2>3 DEF TakeDeadLetter
<1> HIDE DEF f
<1>3. HeldHere'
  BY <1>2, AcceptTries, HeldSame, HeldMore DEF SendInv
<1> QED BY <1>2, <1>3 DEF SendInv, LeftOrRetry

\* Summary calls: the one who leads is no longer held and has a job of his own.
LEMMA ReleaseKeepsSent ==
    ASSUME TypeOK, TypeOK', SendInv, NEW k \in Keys, ReleaseHeld(k)
    PROVE  SendInv'
<1>0. held[k] \in Seq(Fired) /\ 1 \in DOMAIN held[k] /\ held[k][1].alert \in Alerts
  <2>1. held[k] \in Seq(Fired) /\ held[k] # <<>>
    BY DEF TypeOK, ReleaseHeld
  <2>2. Len(held[k]) \in Nat /\ Len(held[k]) # 0 /\ DOMAIN held[k] = 1..Len(held[k])
    BY <2>1, EmptySeq
  <2>3. 1 \in DOMAIN held[k]
    BY <2>2
  <2>4. held[k][1] \in Fired
    BY <2>1, <2>3
  <2> QED BY <2>1, <2>3, <2>4 DEF Fired
<1> PICK a \in Alerts : a = held[k][1].alert
  BY <1>0
<1> DEFINE idem == [alert |-> a, digest |-> digests + 1]
           job == [fired |-> held[k][1], idem |-> idem, only |-> {"call"}, attempts |-> 0,
                   merged |-> {f.alert : f \in {g \in Elements(Tail(held[k])) : g.event}}]
<1>1. /\ job.fired.alert = a /\ Channels(job) = {"call"} /\ job.idem = idem
  BY DEF Channels
<1>2. /\ pending' = Append(pending, job) /\ held' = [held EXCEPT ![k] = <<>>] /\ held[k] # <<>>
      /\ UNCHANGED <<current, retrying, flights, fresh, sent, taken>>
  BY DEF ReleaseHeld
<1>3. held[k] \in Seq(Fired) /\ 1 \in DOMAIN held[k] /\ held \in [Keys -> Seq(Fired)]
  BY <1>0 DEF TypeOK
<1>4. KeyOf[a] = k
  BY <1>3 DEF SendInv, HeldHere, Key
<1> HIDE DEF job, idem
<1>5. /\ Len(pending') = Len(pending) + 1 /\ pending'[Len(pending) + 1] = job
      /\ \A i \in DOMAIN pending : pending'[i] = pending[i]
  <2>1. pending \in Seq(Job) /\ pending' \in Seq(Job)
    BY DEF TypeOK
  <2> QED BY <1>2, <2>1
<1>6. /\ \A b \in Alerts, c \in External :
             ~(b = a /\ c = "call") => Tries(b, c)' \subseteq Tries(b, c)
      /\ Tries(a, "call")' \subseteq Tries(a, "call") \cup {idem}
  <2>1. \A b, c : Tries(b, c)' \subseteq
           Tries(b, c) \cup (IF job.fired.alert = b /\ c \in Channels(job) THEN {job.idem} ELSE {})
    BY <1>2, <1>5, JoinTries
  <2> QED BY <1>1, <2>1
<1>7. /\ held'[k] = <<>> /\ \A n \in Keys : n # k => held'[n] = held[n]
      /\ DOMAIN <<>> = {}
  BY <1>2, <1>3
<1>8. HeldHere'
  BY <1>7 DEF SendInv, HeldHere, Key
<1>9. \A b \in Alerts : HeldAt(b)' \subseteq HeldAt(b)
  BY <1>7, QueueAssumption DEF HeldAt
<1>10. HeldAt(a)' = {} /\ HeldAt(a) # {}
  <2>1. HeldAt(a) = {i \in DOMAIN held[k] : held[k][i].alert = a}
    BY <1>4 DEF HeldAt
  <2>2. HeldAt(a)' = {i \in DOMAIN held'[k] : held'[k][i].alert = a}
    BY <1>4 DEF HeldAt
  <2>3. DOMAIN held'[k] = {}
    BY <1>7
  <2> QED BY <1>3, <2>1, <2>2, <2>3
<1>11. ASSUME taken' = 0, NEW b \in Alerts, NEW c \in External PROVE OneTry(b, c)'
  <2>1. OneTry(b, c)
    BY <1>2, <1>11 DEF SendInv
  <2>2. CASE ~(b = a /\ c = "call")
    BY <1>2, <1>6, <1>9, <2>1, <2>2, FewerTries
  <2>3. CASE b = a /\ c = "call"
    <3>1. Tries(a, c) = {} /\ sent[a][c] = 0 /\ a \notin fresh
      BY <1>10, <2>1, <2>3 DEF OneTry
    <3>2. Tries(a, c)' \subseteq {idem}
      BY <1>6, <2>3, <3>1
    <3> QED BY <1>2, <1>10, <2>3, <3>1, <3>2 DEF OneTry
  <2> QED BY <2>2, <2>3
<1> QED BY <1>2, <1>8, <1>11 DEF SendInv, LeftOrRetry

LEMMA MoveKeepsSent ==
    ASSUME TypeOK, SendInv, Pop \/ \E j \in retrying : Retry(j)
    PROVE  SendInv'
<1>1. UNCHANGED <<held, fresh, flights, sent, taken>>
  BY DEF Pop, Retry, gates
<1>2. Waiting' \subseteq Waiting
  <2>1. CASE Pop
    <3>1. /\ pending \in Seq(Job) /\ pending # <<>>
          /\ pending' = Tail(pending) /\ current' = <<Head(pending)>> /\ retrying' = retrying
      BY <2>1 DEF Pop, TypeOK
    <3>2. /\ Elements(pending) = Elements(pending)' \cup {Head(pending)} /\ Head(pending) \in Job
      BY <3>1, ElementsTail
    <3>3. Elements(current)' = {Head(pending)}
      BY <3>1, <3>2 DEF Elements
    <3> QED BY <3>1, <3>2, <3>3 DEF Waiting
  <2>2. ASSUME NEW j \in retrying, Retry(j) PROVE Waiting' \subseteq Waiting
    <3>1. pending \in Seq(Job) /\ j \in Job /\ pending' = <<j>> \o pending
      BY <2>2 DEF Retry, TypeOK
    <3>2. Elements(pending)' = Elements(pending) \cup {j}
      BY <3>1, ElementsAppend
    <3>3. Elements(current)' = Elements(current) /\ retrying' = retrying \ {j}
      BY <2>2 DEF Retry, Elements
    <3> QED BY <3>2, <3>3 DEF Waiting
  <2> QED BY <2>1, <2>2
<1>3. \A a, c : Tries(a, c)' \subseteq Tries(a, c)
  BY <1>1, <1>2 DEF Tries
<1>4. \A a : HeldAt(a)' = HeldAt(a) /\ (HeldHere => HeldHere')
  BY <1>1, HeldSame
<1>5. ASSUME taken' = 0, NEW a \in Alerts, NEW c \in External PROVE OneTry(a, c)'
  <2>1. OneTry(a, c)
    BY <1>1, <1>5 DEF SendInv
  <2> QED BY <1>1, <1>3, <1>4, <2>1, FewerTries
<1> QED BY <1>1, <1>4, <1>5 DEF SendInv, LeftOrRetry

\* A settled job goes on only for the channels to retry, under its own key.
LEMMA SettleTries ==
    ASSUME NEW j \in Job, NEW retry, NEW call, NEW b, Settle(j, retry, call, b)
    PROVE  \A i \in retrying' : \/ i \in retrying
                                \/ /\ i.idem = j.idem /\ i.fired = j.fired
                                   /\ retry # {} /\ Channels(i) = retry
<1>1. /\ NextTry(j, retry).idem = j.idem /\ NextTry(j, retry).fired = j.fired
      /\ NextTry(j, retry).only = retry
  BY DEF NextTry, Job
<1>2. retry # {} => Channels(NextTry(j, retry)) = retry
  BY <1>1 DEF Channels
<1>3. \/ retrying' = retrying
      \/ retry # {} /\ retrying' = retrying \cup {NextTry(j, retry)}
  BY DEF Settle
<1> QED BY <1>1, <1>2, <1>3

\* The popped job: handed on under its key, without a call when that is held.
LEMMA DispatchKeepsSent ==
    ASSUME TypeOK, TypeOK', SendInv, QueueInv, NEW barred \in SUBSET External, Dispatch(barred)
    PROVE  SendInv'
<1>0. /\ current \in Seq(Job) /\ Len(current) <= 1 /\ current # <<>>
  BY DEF Dispatch, TypeOK
<1> PICK j \in Job : j = current[1]
  BY <1>0, ElementsOne
<1> DEFINE k     == Key(j.fired)
           tries == Channels(j) \ barred
           place == "call" \in tries /\ ~Blocked(k)
           hold  == "call" \in tries /\ Blocked(k) /\ Len(held[k]) < MaxHeld
           out   == IF place THEN tries ELSE tries \ {"call"}
<1>1. /\ Elements(current) = {j} /\ Elements(current)' = {}
      /\ UNCHANGED <<pending, fresh, sent, taken>>
  <2>1. current' = <<>> /\ UNCHANGED <<pending, fresh, sent, taken>>
    BY DEF Dispatch
  <2>2. Elements(current)' = {}
    BY <2>1 DEF Elements
  <2> QED BY <1>0, <2>1, <2>2, ElementsOne
<1>2. /\ j.fired \in Fired /\ j.fired.alert \in Alerts
      /\ out \subseteq Channels(j) /\ (hold => "call" \in Channels(j) /\ "call" \notin out)
  BY DEF Job, Fired
<1>3. IF hold THEN held' = [held EXCEPT ![k] = Append(@, j.fired)] ELSE UNCHANGED held
  <2>1. IF hold THEN Hold(j.fired, k) ELSE UNCHANGED <<held, scheduled>>
    BY DEF Dispatch
  <2> QED BY <2>1 DEF Hold
<1>4. \/ \E call, b : Settle(j, {}, call, b) /\ UNCHANGED flights
      \/ /\ \E g : g.job = j /\ g.left = out /\ g.retry = {} /\ flights' = flights \cup {g}
         /\ UNCHANGED retrying
  <2>1. ASSUME NEW left, NEW call, flights' = flights \cup {[job |-> j, left |-> left, retry |-> {}, call |-> call]}
        PROVE  \E g : g.job = j /\ g.left = left /\ g.retry = {} /\ flights' = flights \cup {g}
    <3> WITNESS [job |-> j, left |-> left, retry |-> {}, call |-> call]
    <3> QED BY <2>1
  <2> QED BY <2>1 DEF Dispatch
<1> HIDE DEF k, tries, place, hold, out
<1>5. retrying' \subseteq retrying
  BY <1>4, SettleTries
<1>6. \A g \in flights' : g \in flights \/ (g.job = j /\ g.left = out /\ g.retry = {})
  BY <1>4
<1>7. Elements(pending)' = Elements(pending)
  BY <1>1 DEF Elements
<1>8. /\ \A a \in Alerts, c \in External : Tries(a, c)' \subseteq Tries(a, c)
      /\ hold => j.idem \notin Tries(j.fired.alert, "call")'
  <2>1. Waiting' \subseteq Waiting /\ j \in Waiting
    BY <1>1, <1>5, <1>7 DEF Waiting
  <2>2. \A a \in Alerts, c \in External : Tries(a, c)' \subseteq Tries(a, c)
    BY <1>2, <1>6, <2>1 DEF Tries
  <2>3. /\ \A i \in Waiting' : i.idem # j.idem
        /\ \A f \in flights : f.job.idem # j.idem
    BY <1>1, <1>5, <1>7 DEF Waiting, QueueInv, OneHolder
  <2>4. ASSUME hold PROVE j.idem \notin Tries(j.fired.alert, "call")'
    BY <1>2, <1>6, <2>3, <2>4 DEF Tries
  <2> QED BY <2>2, <2>4
<1>9. /\ HeldHere'
      /\ \A a \in Alerts : a # j.fired.alert => HeldAt(a)' = HeldAt(a)
      /\ ~hold => HeldAt(j.fired.alert)' = HeldAt(j.fired.alert)
      /\ hold => HeldAt(j.fired.alert)' = HeldAt(j.fired.alert) \cup {Len(held[k]) + 1}
  BY <1>2, <1>3, HeldSame, HeldMore DEF SendInv, k
<1>10. LeftOrRetry'
  BY <1>6 DEF SendInv, LeftOrRetry
<1>11. ASSUME taken' = 0, NEW a \in Alerts, NEW c \in External PROVE OneTry(a, c)'
  <2>1. \A x \in External : OneTry(a, x)
    BY <1>1, <1>11 DEF SendInv
  <2>2. CASE ~(hold /\ a = j.fired.alert)
    <3>1. HeldAt(a)' \subseteq HeldAt(a)
      BY <1>9, <2>2
    <3> QED BY <1>1, <1>8, <2>1, <3>1, FewerTries
  <2>3. CASE hold /\ a = j.fired.alert
    <3>1. j.idem \in Tries(a, "call")
      BY <1>1, <1>2, <2>3 DEF Tries, Waiting
    <3>2. a \notin fresh
      BY <2>1, <3>1 DEF OneTry, External
    <3>3. CASE c = "call"
      <4>1. Tries(a, c)' = {} /\ HeldAt(a) = {} /\ sent[a][c] = 0
        BY <1>8, <2>1, <2>3, <3>1, <3>3 DEF OneTry
      <4>2. HeldAt(a)' = {Len(held[k]) + 1}
        BY <1>9, <2>3, <4>1
      <4> QED BY <1>1, <3>2, <4>1, <4>2 DEF OneTry
    <3>4. CASE c # "call"
      <4>1. Tries(a, c)' \subseteq Tries(a, c)
        BY <1>8
      <4> QED BY <1>1, <2>1, <3>2, <3>4, <4>1 DEF OneTry
    <3> QED BY <3>3, <3>4
  <2> QED BY <2>2, <2>3
<1> QED BY <1>9, <1>10, <1>11 DEF SendInv

\* A provider takes what it accepts off the job; what it refuses stays to be retried.
LEMMA AnswerKeepsSent ==
    ASSUME TypeOK, TypeOK', SendInv, QueueInv,
           NEW f \in flights, NEW c \in External, NEW ok \in BOOLEAN, Answer(f, c, ok)
    PROVE  SendInv'
<1> DEFINE j     == f.job
           a     == j.fired.alert
           retry == IF ok THEN f.retry ELSE f.retry \cup {c}
           goes  == IF ok THEN (f.left \cup f.retry) \ {c} ELSE f.left \cup f.retry
<1>1. /\ f \in Flight /\ j \in Job /\ c \in f.left /\ f.left \cap f.retry = {}
      /\ a \in Alerts
  BY DEF Answer, TypeOK, Flight, Job, Fired, SendInv, LeftOrRetry
<1>2. UNCHANGED <<pending, current, held, fresh, taken>>
  BY DEF Answer, CallDone, gates
<1>3. /\ Elements(pending)' = Elements(pending) /\ Elements(current)' = Elements(current)
  BY <1>2 DEF Elements
<1>4. retry \subseteq goes /\ (f.left \ {c}) \subseteq goes /\ (f.left \ {c}) \cap retry = {}
  BY <1>1
<1>5. \/ /\ \E call, b : Settle(j, retry, call, b)
         /\ flights' = flights \ {f}
      \/ /\ retrying' = retrying
         /\ \E g : /\ g.job = j /\ g.left = f.left \ {c} /\ g.retry = retry
                   /\ flights' = (flights \ {f}) \cup {g}
  <2>1. ASSUME NEW call,
               flights' = (flights \ {f}) \cup {[f EXCEPT !.left = @ \ {c}, !.retry = retry, !.call = call]}
        PROVE  \E g : /\ g.job = j /\ g.left = f.left \ {c} /\ g.retry = retry
                      /\ flights' = (flights \ {f}) \cup {g}
    <3> DEFINE g == [f EXCEPT !.left = @ \ {c}, !.retry = retry, !.call = call]
    <3>1. g.job = j /\ g.left = f.left \ {c} /\ g.retry = retry
      BY <1>1 DEF Flight
    <3> HIDE DEF g
    <3> QED BY <2>1, <3>1 DEF g
  <2> QED BY <2>1 DEF Answer
<1> HIDE DEF j, retry, goes
<1>6. \A i \in retrying' : i \in retrying \/ (i.idem = j.idem /\ i.fired = j.fired /\ Channels(i) \subseteq goes)
  BY <1>1, <1>4, <1>5, SettleTries
<1>7. \A g \in flights' : \/ g \in flights /\ g # f
                          \/ g.job = j /\ g.left \cup g.retry \subseteq goes /\ g.left \cap g.retry = {}
  BY <1>4, <1>5
<1>8. \A b \in Alerts, x \in External : Tries(b, x)' \subseteq Tries(b, x)
  <2>1. goes \subseteq f.left \cup f.retry
    BY DEF goes
  <2> SUFFICES ASSUME NEW b \in Alerts, NEW x \in External, NEW y \in Tries(b, x)'
               PROVE  y \in Tries(b, x)
    OBVIOUS
  <2>2. CASE b = j.fired.alert /\ x \in goes /\ y = j.idem
    BY <2>1, <2>2 DEF Tries, j
  <2>3. CASE \E i \in Waiting' : i.fired.alert = b /\ x \in Channels(i) /\ y = i.idem
    BY <1>3, <1>6, <2>2, <2>3 DEF Tries, Waiting
  <2>4. CASE \E g \in flights' : g.job.fired.alert = b /\ x \in g.left \cup g.retry /\ y = g.job.idem
    BY <1>7, <2>2, <2>4 DEF Tries
  <2> QED BY <2>3, <2>4 DEF Tries
<1>9. ok => j.idem \notin Tries(a, c)'
  <2> SUFFICES ASSUME ok, j.idem \in Tries(a, c)' PROVE FALSE
    OBVIOUS
  <2>1. c \notin goes
    BY DEF goes
  <2>2. /\ \A i \in Waiting : i.idem # j.idem
        /\ \A g \in flights : g # f => g.job.idem # j.idem
    BY DEF QueueInv, OneHolder, j
  <2>3. CASE \E i \in Waiting' : c \in Channels(i) /\ j.idem = i.idem
    BY <1>3, <1>6, <2>1, <2>2, <2>3 DEF Waiting
  <2>4. CASE \E g \in flights' : c \in g.left \cup g.retry /\ j.idem = g.job.idem
    BY <1>7, <2>1, <2>2, <2>4
  <2> QED BY <2>3, <2>4 DEF Tries
<1>10. sent' = IF ok THEN [sent EXCEPT ![a][c] = @ + 1] ELSE sent
  BY DEF Answer, j
<1>11. j.idem \in Tries(a, c)
  BY <1>1 DEF Tries, j
<1> HIDE DEF a
<1>12. \A b \in Alerts, x \in External :
          sent'[b][x] = IF ok /\ b = a /\ x = c THEN sent[b][x] + 1 ELSE sent[b][x]
  BY <1>1, <1>10 DEF TypeOK
<1>13. (\A b : HeldAt(b)' = HeldAt(b)) /\ (HeldHere => HeldHere')
  BY <1>2, HeldSame
<1>14. ASSUME taken' = 0, NEW b \in Alerts, NEW x \in External PROVE OneTry(b, x)'
  <2>1. OneTry(b, x)
    BY <1>2, <1>14 DEF SendInv
  <2>2. CASE ~(ok /\ b = a /\ x = c)
    BY <1>2, <1>8, <1>12, <1>13, <2>1, <2>2, FewerTries
  <2>3. CASE ok /\ b = a /\ x = c
    <3>1. Tries(b, x) = {j.idem} /\ sent[b][x] = 0 /\ b \notin fresh
      BY <1>11, <2>1, <2>3 DEF OneTry
    <3>2. Tries(b, x)' = {}
      BY <1>8, <1>9, <2>3, <3>1
    <3>3. sent'[b][x] = 1
      BY <1>12, <2>3, <3>1
    <3>4. x = "call" => HeldAt(b)' = {}
      BY <1>11, <1>13, <2>1, <2>3 DEF OneTry
    <3> QED BY <1>2, <3>1, <3>2, <3>3, <3>4 DEF OneTry
  <2> QED BY <2>2, <2>3
<1> QED BY <1>7, <1>13, <1>14 DEF SendInv, LeftOrRetry

LEMMA StepKeepsSent == TypeOK /\ SendInv /\ QueueInv /\ [Next]_vars /\ TypeOK' => SendInv'
<1> SUFFICES ASSUME TypeOK, SendInv, QueueInv, [Next]_vars, TypeOK' PROVE SendInv'
  OBVIOUS
<1>1. ASSUME UNCHANGED <<pending, current, retrying, flights, held, sent>>,
             fresh' \subseteq fresh, taken \in Nat, taken' \in {taken, taken + 1}
      PROVE  SendInv'
  <2>1. /\ \A a, c : Tries(a, c)' = Tries(a, c)
        /\ \A a : HeldAt(a)' = HeldAt(a)
        /\ HeldHere'
    BY <1>1, HeldSame DEF Tries, Waiting, Elements, SendInv
  <2>2. taken' = 0 => taken = 0
    BY <1>1
  <2>3. ASSUME taken' = 0, NEW a \in Alerts, NEW c \in External PROVE OneTry(a, c)'
    BY <1>1, <2>1, <2>2, <2>3, FewerTries DEF SendInv
  <2> QED BY <1>1, <2>1, <2>3 DEF SendInv, LeftOrRetry
<1>2. taken \in Nat
  BY DEF TypeOK
<1>3. CASE \E a \in Alerts : Enqueue(a)
  BY <1>3, EnqueueKeepsSent
<1>4. CASE TakeDeadLetter
  BY <1>4, TakeKeepsSent
<1>5. CASE Loop
  BY <1>5, MoveKeepsSent, DispatchKeepsSent DEF Loop
<1>6. CASE Answers
  BY <1>6, AnswerKeepsSent DEF Answers
<1>7. ASSUME NEW k \in Keys, ReleaseHeld(k) PROVE SendInv'
  BY <1>7, ReleaseKeepsSent
<1>8. CASE \/ \E a \in Alerts : EnqueueSuppressed(a)
           \/ DropDeadLetter
           \/ \E k \in Keys : ReleaseNothing(k) \/ WindowEnds(k)
           \/ UNCHANGED vars
  BY <1>1, <1>2, <1>8 DEF EnqueueSuppressed, DropDeadLetter, ReleaseNothing, WindowEnds, vars, gates
<1> QED BY <1>3, <1>4, <1>5, <1>6, <1>7, <1>8 DEF Next, Release

\* Until the dead-letter list is taken up again, no provider accepts the same alert on
\* the same channel twice: not through merges, held calls, summaries or retries, in
\* whatever order answers and timers come.
THEOREM SentAtMostOnce == Spec => [](taken = 0 => SentOnce)
<1>1. Init => SendInv
  <2> SUFFICES ASSUME Init PROVE SendInv
    OBVIOUS
  <2>1. /\ pending = <<>> /\ current = <<>> /\ flights = {} /\ retrying = {}
        /\ held = [k \in Keys |-> <<>>] /\ sent = [a \in Alerts |-> [c \in External |-> 0]]
    BY DEF Init
  <2>2. DOMAIN <<>> = {}
    OBVIOUS
  <2>3. \A a \in Alerts : HeldAt(a) = {}
    BY <2>1, <2>2, QueueAssumption DEF HeldAt
  <2>4. \A a, c : Tries(a, c) = {}
    BY <2>1, <2>2 DEF Tries, Waiting, Elements
  <2>5. \A a \in Alerts, c \in External : sent[a][c] = 0
    BY <2>1
  <2>6. \A a \in Alerts, c \in External : OneTry(a, c)
    BY <2>3, <2>4, <2>5 DEF OneTry
  <2> QED BY <2>1, <2>2, <2>6 DEF SendInv, HeldHere, LeftOrRetry
<1>2. TypeOK /\ SendInv /\ QueueInv /\ [Next]_vars /\ TypeOK' => SendInv'
  BY StepKeepsSent
<1>3. SendInv => (taken = 0 => SentOnce)
  BY DEF SendInv, OneTry, SentOnce
<1>4. Spec => []SendInv
  BY <1>1, <1>2, TypeCorrect, QueueKept, PTL DEF Spec
<1> QED BY <1>3, <1>4, PTL

=============================================================================
