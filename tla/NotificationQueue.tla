-------------------------- MODULE NotificationQueue --------------------------
(***************************************************************************)
(* NotificationQueue: delivery of fired alerts over sound, SMS and calls,  *)
(* with retries, a dead-letter list, and the call gate: one call per user  *)
(* and phone number a minute, later alerts ride on a pending call or are   *)
(* held for one summary call when the minute has ended.                    *)
(*                                                                         *)
(* enqueue runs on the persistence worker, pump, timers and dispatch on    *)
(* the notification loop, provider answers on HTTP client callbacks; all   *)
(* of them meet in mu_.  One action is one section under mu_ together with *)
(* the local work up to the next section.                                  *)
(*                                                                         *)
(* SMS stands for every external channel without a gate (SMS, e-mail).     *)
(* The Redis stream that mirrors jobs for another process is left out: in  *)
(* the process that wrote an entry, reading it back only notes its id.     *)
(***************************************************************************)
EXTENDS Naturals, Sequences, FiniteSets

CONSTANTS
    Alerts,       \* fired alerts; each has one idempotencyKey (id|triggeredAt|status)
    Keys,         \* call coalescing keys: user|phone
    KeyOf,        \* the key of each alert
    Wants,        \* the external channels each alert asks for
    MaxAttempts,  \* notificationMaxRetries
    MaxHeld,      \* kMaxHeldCalls
    MaxFail,      \* bound: refusals by a provider
    MaxDlq        \* bound: dead letters taken up again

External == {"sms", "call"}

ASSUME QueueAssumption ==
    /\ KeyOf \in [Alerts -> Keys]
    /\ Wants \in [Alerts -> SUBSET External]
    /\ MaxAttempts \in Nat \ {0} /\ MaxHeld \in Nat /\ MaxFail \in Nat /\ MaxDlq \in Nat

\* A TriggeredAlert: which alert, the external channels it still carries (sound is
\* always there), and whether it carries the id of its bell event.
Fired == [alert : Alerts, chans : SUBSET External, event : BOOLEAN]

\* Job.idem: the alert's own key, or the key of the n-th summary call it leads.
Idem == [alert : Alerts, digest : Nat]

Job == [fired    : Fired,
        idem     : Idem,
        only     : SUBSET External,         \* onlyChannels, {} when unset
        merged   : SUBSET Alerts,           \* bell events that share this call's result
        attempts : Nat]

\* What updateAlertEventDelivery writes for the call channel; "" when there was no call.
CallStatus == {"", "queued", "placed", "failed", "skipped"}

\* A dispatched job: channels whose answer is out, channels to retry, call status.
Flight == [job : Job, left : SUBSET External, retry : SUBSET External, call : CallStatus]

VARIABLES
    fresh,      \* alerts that have not reached enqueue yet
    pending,    \* pending_
    current,    \* the job pump has popped and not dispatched yet
    flights,    \* dispatched jobs with answers outstanding
    retrying,   \* jobs waiting for their backoff timer
    inFlight, window, held, scheduled,      \* callGates_, one function per field
    queuedIdems, deliveredIdems,
    dlq,        \* the dead-letter list in Redis
    bell,       \* call status the user sees for each alert's event
    sent,       \* history: what providers accepted, per alert and channel
    digests, fails, taken                   \* counters

gates == <<inFlight, window, held, scheduled>>
idems == <<queuedIdems, deliveredIdems>>
vars  == <<fresh, pending, current, flights, retrying, gates, idems, dlq, bell, sent,
           digests, fails, taken>>

-----------------------------------------------------------------------------
Key(f)        == KeyOf[f.alert]
Own(a)        == [alert |-> a, digest |-> 0]
HasCall(f)    == "call" \in f.chans
NoCall(f)     == [f EXCEPT !.chans = @ \ {"call"}]
Channels(j)   == IF j.only = {} THEN j.fired.chans ELSE j.only
Elements(s)   == {s[i] : i \in DOMAIN s}

\* shouldSkipCallLocked: a call is being placed, or one was accepted this minute.
BlockedLater(k) == window[k]                  \* mutant: ignores the call being placed
Blocked(k) == inFlight[k] \/ window[k]

\* updateAlertEventDelivery for the call channel; without an event id there is none.
Bell(f, status)   == IF f.event THEN [bell EXCEPT ![f.alert] = status] ELSE bell
BellAll(b, S, st) == [a \in Alerts |-> IF a \in S THEN st ELSE b[a]]

\* The pending job an incoming call is merged into: the first with the same key whose
\* alert carries the call channel.
Hosts(f) == {i \in DOMAIN pending : HasCall(pending[i].fired) /\ Key(pending[i].fired) = Key(f)}
Host(f)  == CHOOSE i \in Hosts(f) : \A j \in Hosts(f) : i <= j

\* gate.held.push_back, then a release timer unless a call is out (its completion
\* schedules the release).
HoldUntimed(f, k) == /\ held' = [held EXCEPT ![k] = Append(@, f)]   \* mutant: no timer
                     /\ UNCHANGED scheduled
Hold(f, k) == /\ held' = [held EXCEPT ![k] = Append(@, f)]
              /\ scheduled' = [scheduled EXCEPT ![k] = @ \/ ~inFlight[k]]

Init == /\ fresh = Alerts
        /\ pending = <<>> /\ current = <<>> /\ flights = {} /\ retrying = {}
        /\ inFlight = [k \in Keys |-> FALSE]
        /\ window = [k \in Keys |-> FALSE]
        /\ held = [k \in Keys |-> <<>>]
        /\ scheduled = [k \in Keys |-> FALSE]
        /\ queuedIdems = {} /\ deliveredIdems = {}
        /\ dlq = <<>>
        /\ bell = [a \in Alerts |-> ""]
        /\ sent = [a \in Alerts |-> [c \in External |-> 0]]
        /\ digests = 0 /\ fails = 0 /\ taken = 0

-----------------------------------------------------------------------------
(* enqueue *)

\* The job of fired alert f joins the queue.
Push(f) == /\ pending' = Append(pending, [fired |-> f, idem |-> Own(f.alert), only |-> {},
                                          merged |-> {}, attempts |-> 0])
           /\ queuedIdems' = queuedIdems \cup {Own(f.alert)}

\* tryMergeCallIntoPendingLocked, and the job queued behind it under the same lock.
Accept(f) ==
    LET k == Key(f)
        i == Host(f)
        merged == IF f.event THEN {f.alert} ELSE {}
    IN  \/ /\ Own(f.alert) \in queuedIdems \cup deliveredIdems       \* seen before
           /\ UNCHANGED <<pending, queuedIdems, gates, bell>>
        \/ /\ Own(f.alert) \notin queuedIdems \cup deliveredIdems
           /\ \/ /\ ~HasCall(f) \/ (Hosts(f) = {} /\ ~Blocked(k))
                 /\ Push(f)
                 /\ UNCHANGED <<gates, bell>>
              \/ /\ HasCall(f) /\ Hosts(f) # {}                       \* rides along
                 /\ pending' = Append([pending EXCEPT ![i].merged = @ \cup merged],
                                      [fired |-> NoCall(f), idem |-> Own(f.alert), only |-> {},
                                       merged |-> {}, attempts |-> 0])
                 /\ queuedIdems' = queuedIdems \cup {Own(f.alert)}
                 /\ UNCHANGED <<gates, bell>>
              \/ /\ HasCall(f) /\ Hosts(f) = {} /\ Blocked(k)         \* next minute's call
                 /\ Len(held[k]) < MaxHeld
                 /\ Hold(f, k)
                 /\ Push(NoCall(f))
                 /\ bell' = Bell(f, "queued")
                 /\ UNCHANGED <<inFlight, window>>
              \/ /\ HasCall(f) /\ Hosts(f) = {} /\ Blocked(k)
                 /\ Len(held[k]) >= MaxHeld
                 /\ Push(NoCall(f))
                 /\ bell' = Bell(f, "skipped")
                 /\ UNCHANGED gates

\* A trigger report of the persistence worker.
Enqueue(a) == /\ a \in fresh
              /\ fresh' = fresh \ {a}
              /\ Accept([alert |-> a, chans |-> Wants[a], event |-> TRUE])
              /\ UNCHANGED <<current, flights, retrying, deliveredIdems, dlq, sent,
                             digests, fails, taken>>

\* The user has paused alerts or is outside the delivery schedule.
EnqueueSuppressed(a) == /\ a \in fresh
                        /\ fresh' = fresh \ {a}
                        /\ UNCHANGED <<pending, current, flights, retrying, gates, idems, dlq, bell, sent,
                                       digests, fails, taken>>

\* startDlqRetryLoop, one entry: the alert comes back without its event id, its
\* channels and key as when it was given up.
TakeDeadLetter == /\ dlq # <<>> /\ taken < MaxDlq
                  /\ taken' = taken + 1
                  /\ dlq' = Tail(dlq)
                  /\ Accept([Head(dlq) EXCEPT !.event = FALSE])
                  /\ UNCHANGED <<fresh, current, flights, retrying, deliveredIdems, sent, digests, fails>>

\* The same, for a user who has paused alerts: the entry is gone from the list.
DropDeadLetter == /\ dlq # <<>> /\ taken < MaxDlq
                  /\ taken' = taken + 1
                  /\ dlq' = Tail(dlq)
                  /\ UNCHANGED <<fresh, pending, current, flights, retrying, gates, idems, bell, sent,
                                 digests, fails>>

-----------------------------------------------------------------------------
(* pump, processJob, dispatchAllChannels: the notification loop *)

Pop == /\ pending # <<>> /\ current = <<>>
       /\ current' = <<Head(pending)>>
       /\ pending' = Tail(pending)
       /\ UNCHANGED <<fresh, flights, retrying, gates, idems, dlq, bell, sent, digests, fails, taken>>

\* queuedIdems_.erase(idem)
ForgetNot(j) == queuedIdems' = queuedIdems    \* mutant: the key stays queued
Forget(j) == queuedIdems' = queuedIdems \ {j.idem}

\* The job of the next attempt, for the channels to retry.
NextTryDown(j, retry) == [j EXCEPT !.attempts = @ - 1, !.only = retry]  \* mutant: counts down
NextTryAll(j, retry) == [j EXCEPT !.attempts = @ + 1]                   \* mutant: every channel again
NextTry(j, retry) == [j EXCEPT !.attempts = @ + 1, !.only = retry]

\* The last channel of job j is done (onDone in processJob): b is the bell as that
\* channel left it, call the status of the job's call ("" when it made none).
Settle(j, retry, call, b) ==
    /\ bell' = IF call = "" THEN b ELSE BellAll(b, j.merged, call)
    /\ \/ /\ retry = {}
          /\ deliveredIdems' = deliveredIdems \cup {j.idem}
          /\ Forget(j)
          /\ UNCHANGED <<retrying, dlq>>
       \/ /\ retry # {} /\ j.attempts + 1 < MaxAttempts
          /\ retrying' = retrying \cup {NextTry(j, retry)}
          /\ UNCHANGED <<idems, dlq>>
       \/ /\ retry # {} /\ j.attempts + 1 >= MaxAttempts
          /\ Forget(j)
          /\ dlq' = Append(dlq, j.fired)
          /\ UNCHANGED <<retrying, deliveredIdems>>

\* Sound is sent at once.  The channels in barred are skipped for good: no address,
\* service not configured, or over the plan's daily limit.  A call that finds the
\* gate closed is held for the next minute, or skipped when too many are.
Dispatch(barred) ==
    LET j      == current[1]
        k      == Key(j.fired)
        tries  == Channels(j) \ barred
        calls  == "call" \in tries
        place  == calls /\ ~Blocked(k)
        hold   == calls /\ Blocked(k) /\ Len(held[k]) < MaxHeld
        call   == IF place \/ "call" \notin Channels(j) THEN ""
                  ELSE IF hold THEN "queued" ELSE "skipped"
        out    == IF place THEN tries ELSE tries \ {"call"}
        b      == IF call = "" THEN bell ELSE Bell(j.fired, call)
    IN  /\ current # <<>>
        /\ barred \subseteq Channels(j)
        /\ current' = <<>>
        /\ inFlight' = [inFlight EXCEPT ![k] = @ \/ place]
        /\ IF hold THEN Hold(j.fired, k) ELSE UNCHANGED <<held, scheduled>>
        /\ \/ /\ out = {}
              /\ Settle(j, {}, call, b)
              /\ UNCHANGED flights
           \/ /\ out # {}
              /\ flights' = flights \cup {[job |-> j, left |-> out, retry |-> {}, call |-> call]}
              /\ bell' = b
              /\ UNCHANGED <<retrying, idems, dlq>>
        /\ UNCHANGED <<fresh, pending, window, sent, digests, fails, taken>>

\* A call is answered: the gate opens for the next one, an accepted call starts a new
\* minute, and held alerts get their release timer.
CallDoneUntimed(k, ok) ==                     \* mutant: held alerts get no timer
    /\ inFlight' = [inFlight EXCEPT ![k] = FALSE]
    /\ window' = [window EXCEPT ![k] = @ \/ ok]
    /\ UNCHANGED <<held, scheduled>>
CallDone(k, ok) ==
    /\ inFlight' = [inFlight EXCEPT ![k] = FALSE]
    /\ window' = [window EXCEPT ![k] = @ \/ ok]
    /\ scheduled' = [scheduled EXCEPT ![k] = @ \/ held[k] # <<>>]
    /\ held' = held

\* The provider answers on one channel of flight f.
Answer(f, c, ok) ==
    LET j     == f.job
        retry == IF ok THEN f.retry ELSE f.retry \cup {c}
        call  == IF c # "call" THEN f.call ELSE IF ok THEN "placed" ELSE "failed"
        b     == IF c = "call" THEN Bell(j.fired, call) ELSE bell
    IN  /\ f \in flights /\ c \in f.left
        /\ ok \/ fails < MaxFail
        /\ fails' = IF ok THEN fails ELSE fails + 1
        /\ sent' = IF ok THEN [sent EXCEPT ![j.fired.alert][c] = @ + 1] ELSE sent
        /\ IF c = "call" THEN CallDone(Key(j.fired), ok) ELSE UNCHANGED gates
        /\ \/ /\ f.left = {c}
              /\ flights' = flights \ {f}
              /\ Settle(j, retry, call, b)
           \/ /\ f.left # {c}
              /\ flights' = (flights \ {f}) \cup
                            {[f EXCEPT !.left = @ \ {c}, !.retry = retry, !.call = call]}
              /\ bell' = b
              /\ UNCHANGED <<retrying, idems, dlq>>
        /\ UNCHANGED <<fresh, pending, current, digests, taken>>

\* The backoff timer of a job: it goes to the front.
Retry(j) == /\ j \in retrying /\ current = <<>>
            /\ retrying' = retrying \ {j}
            /\ pending' = <<j>> \o pending
            /\ UNCHANGED <<fresh, current, flights, gates, idems, dlq, bell, sent, digests, fails, taken>>

-----------------------------------------------------------------------------
(* releaseHeldCalls: the timer of a key, on the notification loop.  While the *)
(* minute has not ended it only sets itself again.                            *)

ReleaseNothing(k) ==
    /\ scheduled[k] /\ current = <<>>
    /\ held[k] = <<>> \/ inFlight[k]
    /\ scheduled' = [scheduled EXCEPT ![k] = FALSE]
    /\ UNCHANGED <<fresh, pending, current, flights, retrying, inFlight, window, held, idems, dlq, bell,
                   sent, digests, fails, taken>>

ReleaseHeld(k) ==
    LET idem == [alert |-> held[k][1].alert, digest |-> digests + 1]
    IN  /\ scheduled[k] /\ current = <<>>
        /\ held[k] # <<>> /\ ~inFlight[k] /\ ~window[k]
        /\ scheduled' = [scheduled EXCEPT ![k] = FALSE]
        /\ held' = [held EXCEPT ![k] = <<>>]
        /\ digests' = digests + 1
        /\ queuedIdems' = queuedIdems \cup {idem}
        /\ pending' = Append(pending,
              [fired |-> held[k][1], idem |-> idem, only |-> {"call"}, attempts |-> 0,
               merged |-> {f.alert : f \in {g \in Elements(Tail(held[k])) : g.event}}])
        /\ UNCHANGED <<fresh, current, flights, retrying, inFlight, window, deliveredIdems, dlq, bell,
                       sent, fails, taken>>

\* kCallWindowSeconds after the last accepted call.
WindowEnds(k) == /\ window[k]
                 /\ window' = [window EXCEPT ![k] = FALSE]
                 /\ UNCHANGED <<fresh, pending, current, flights, retrying, inFlight, held, scheduled,
                                idems, dlq, bell, sent, digests, fails, taken>>

-----------------------------------------------------------------------------
Loop == Pop \/ (\E barred \in SUBSET External : Dispatch(barred)) \/ (\E j \in retrying : Retry(j))

Release(k) == ReleaseNothing(k) \/ ReleaseHeld(k)

Answers == \E f \in flights, c \in External, ok \in BOOLEAN : Answer(f, c, ok)

Next == \/ \E a \in Alerts : Enqueue(a) \/ EnqueueSuppressed(a)
        \/ TakeDeadLetter \/ DropDeadLetter
        \/ Loop
        \/ Answers
        \/ \E k \in Keys : Release(k) \/ WindowEnds(k)

Spec == Init /\ [][Next]_vars

\* The loop runs its tasks and timers, and a minute ends.
LoopSpec == /\ Spec
            /\ WF_vars(Loop)
            /\ \A k \in Keys : WF_vars(Release(k)) /\ WF_vars(WindowEnds(k))

\* Besides, a provider answers every request.  Notifier sets no timeout, so this is
\* an assumption on the providers and not a promise of the code.
FairSpec == LoopSpec /\ WF_vars(Answers)

-----------------------------------------------------------------------------
(* Properties *)

\* Every variable has its type.
TypeOK == /\ fresh \subseteq Alerts
          /\ pending \in Seq(Job) /\ current \in Seq(Job) /\ Len(current) <= 1
          /\ flights \subseteq Flight /\ retrying \subseteq Job
          /\ inFlight \in [Keys -> BOOLEAN] /\ window \in [Keys -> BOOLEAN]
          /\ held \in [Keys -> Seq(Fired)] /\ scheduled \in [Keys -> BOOLEAN]
          /\ queuedIdems \subseteq Idem /\ deliveredIdems \subseteq Idem
          /\ dlq \in Seq(Fired)
          /\ bell \in [Alerts -> CallStatus]
          /\ sent \in [Alerts -> [External -> Nat]]
          /\ digests \in Nat /\ fails \in Nat /\ taken \in Nat

\* Held alerts are never forgotten: somebody is bound to release them, the call that
\* is out or a timer.
HeldIsReleased == \A k \in Keys : held[k] # <<>> => inFlight[k] \/ scheduled[k]

\* "One call per user and phone number inside this window": at most one call to a
\* number is out, the gate knows it, and none is placed while a minute runs.
CallsOut(k) == {f \in flights : "call" \in f.left /\ Key(f.job.fired) = k}

OneCallPerMinute ==
    \A k \in Keys : /\ inFlight[k] <=> CallsOut(k) # {}
                    /\ \A f, g \in CallsOut(k) : f = g
                    /\ inFlight[k] => ~window[k]

\* Every key in queuedIdems_ has a job somewhere and only keys not yet delivered are
\* queued: no alert is dropped as "seen before" while nobody works on it.
LiveIdems == {j.idem : j \in Elements(pending) \cup Elements(current) \cup retrying}
                \cup {f.job.idem : f \in flights}

QueuedIsLive == queuedIdems = LiveIdems /\ queuedIdems \cap deliveredIdems = {}

\* "Only a failed external channel is retried": no provider accepts the same alert on
\* the same channel twice.
SentOnce == \A a \in Alerts, c \in External : sent[a][c] <= 1

\* "Alerts whose call was merged into this job's call": a job that carries an alert
\* whose call has no outcome yet is going to place a call.
MergedIntoCall ==
    \A j \in Elements(pending) \cup Elements(current) :
        (\E a \in j.merged : bell[a] = "") => "call" \in Channels(j)

\* "Sends the held alerts as one summary call once the minute has ended."
HeldGoes == \A k \in Keys : held[k] # <<>> ~> held[k] = <<>>

\* Every job ends: delivered, or handed to the dead-letter list.
JobEnds == \A a \in Alerts : Own(a) \in queuedIdems ~> Own(a) \notin queuedIdems

==============================================================================
