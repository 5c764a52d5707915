---------------------------- MODULE DeliveryQuota ----------------------------
(***************************************************************************)
(* What a user's plan lets out: SubscriptionService asked for leave by     *)
(* NotificationQueue and by the routes that create and change alerts, for  *)
(* one user.                                                               *)
(*                                                                         *)
(* A notification reads the plan and the usage before it goes out, and is  *)
(* counted after the provider took it; alerts are checked against those    *)
(* the user has before they are made, and are made one after the other.    *)
(* Several of each are under way at once.  Statements fail: the usage is   *)
(* then taken for nothing used, and what is not counted is gone.  (A plan  *)
(* that cannot be read throws, and nothing is sent or created.)            *)
(*                                                                         *)
(* The plan is that of the module Account, here only "none", "trial" or    *)
(* "free".  Alerts are only counted, by their status, triggered, expired   *)
(* and deleted ones as "closed".  Limits are scaled down.                  *)
(***************************************************************************)
EXTENDS Naturals, FiniteSets

CONSTANTS
    Sends,          \* notifications that can be under way at once
    Channels,       \* those that are counted: "sms", "call"
    Limit,          \* kTrialSmsLimit, kTrialCallLimit
    Creates,        \* requests about alerts that can be under way at once
    MaxAlerts,      \* kFreeMaxAlerts
    MaxBatch,       \* kMaxBatchPairs
    \* bounds: of the days, the restarts, the alerts when one is asked for, the alerts that
    \* are closed, what fails unnoticed in a day, the alerts that come back
    LastDay, MaxRestarts, MaxOpen, MaxClosed, MaxLapses, MaxReturns

\* As many as there are, limits that let something out, bounds that are numbers.
ASSUME QuotaAssumption ==
    /\ IsFiniteSet(Sends) /\ IsFiniteSet(Creates) /\ Creates # {}
    /\ Limit \in Nat \ {0} /\ MaxAlerts \in Nat \ {0} /\ MaxBatch \in Nat \ {0}
    /\ LastDay \in Nat /\ MaxRestarts \in Nat /\ MaxOpen \in Nat /\ MaxClosed \in Nat
    /\ MaxLapses \in Nat /\ MaxReturns \in Nat
    /\ "none" \notin Channels

VARIABLES
    today,
    tier,           \* subscription_tier
    used,           \* user_daily_usage of today
    sent,           \* history: what the providers took today
    lapses,         \* history: what failed today with nobody noticing
    send,           \* the stage of each notification
    making,         \* the alerts each request was let through for and has yet to make
    reopens,        \* the requests among them that are a PUT
    alerts,         \* how many alerts the user has, by status
    before,         \* history: the fewest that were open since he was put on the free plan
    steps,          \* history: the most that waited at once since then
    returns,        \* history: alerts that were closed and came back
    restarts

outbound == <<today, used, sent, lapses, send>>
inbound == <<making, reopens, alerts, before, steps, returns>>
quota == <<outbound, inbound, tier, restarts>>

Idle == [at |-> "idle", channel |-> "none"]
Statuses == {"active", "waiting", "closed"}
Open == alerts["active"] + alerts["waiting"]

QuotaInit == /\ today = 0 /\ tier = "none"
             /\ used = [c \in Channels |-> 0] /\ sent = used /\ lapses = 0
             /\ send = [s \in Sends |-> Idle]
             /\ making = {} /\ reopens = {}
             /\ alerts = [x \in Statuses |-> 0]
             /\ before = 0 /\ steps = 0 /\ returns = 0 /\ restarts = 0

-----------------------------------------------------------------------------
(* Notifications *)

Moves(s, at) == send' = [send EXCEPT ![s].at = at]
Stops(s) == send' = [send EXCEPT ![s] = Idle]
Lapses == lapses < MaxLapses /\ lapses' = lapses + 1
AlertsUnchanged == UNCHANGED <<today, inbound, tier, restarts>>

\* canSendNotification reads the plan, whose trial nobody need have ended, and the usage,
ReadPlan(s, c) == /\ send[s].at = "idle" /\ tier = "trial"
                  /\ send' = [send EXCEPT ![s] = [at |-> "planned", channel |-> c]]
                  /\ UNCHANGED <<used, sent, lapses>> /\ AlertsUnchanged
ReadUsage(s) == /\ send[s].at = "planned"
                /\ IF used[send[s].channel] >= Limit THEN Stops(s) ELSE Moves(s, "out")
                /\ UNCHANGED <<used, sent, lapses>> /\ AlertsUnchanged
\* which is nothing if the statement fails: getDailyUsage.
MissUsage(s) == /\ send[s].at = "planned" /\ Moves(s, "out")
                /\ Lapses /\ UNCHANGED <<used, sent>> /\ AlertsUnchanged

\* The provider refuses it, or takes it,
Accepted(s) == sent' = [sent EXCEPT ![send[s].channel] = @ + 1]
ProviderRefuses(s) == /\ send[s].at = "out" /\ Stops(s)
                      /\ UNCHANGED <<used, sent, lapses>> /\ AlertsUnchanged
ProviderTakes(s) == /\ send[s].at = "out" /\ Moves(s, "taken") /\ Accepted(s)
                    /\ UNCHANGED <<used, lapses>> /\ AlertsUnchanged
\* or takes it and its answer is lost, which is taken for a refusal,
AnswerIsLost(s) == /\ send[s].at = "out" /\ Stops(s) /\ Accepted(s)
                   /\ Lapses /\ UNCHANGED used /\ AlertsUnchanged
\* and then it is counted, up to the limit: incrementDailySms, incrementDailyCall.  The
\* plan of a call is looked up again, and only that of a trial has the limit.
Count(s) == LET c == send[s].channel
            IN  /\ send[s].at = "taken" /\ Stops(s)
                /\ used' = IF used[c] < Limit \/ (c = "call" /\ tier # "trial")
                           THEN [used EXCEPT ![c] = @ + 1] ELSE used
                /\ UNCHANGED <<sent, lapses>> /\ AlertsUnchanged
\* A statement of theirs fails.
MissCount(s) == /\ send[s].at = "taken" /\ Stops(s)
                /\ Lapses /\ UNCHANGED <<used, sent>> /\ AlertsUnchanged

-----------------------------------------------------------------------------
(* Alerts: each request checks once, then makes what it was let through for *)

SendsUnchanged == UNCHANGED <<outbound, restarts>>

\* canCreateAlert.
AllowedOneMore(n) == tier = "free" => n <= MaxAlerts      \* mutant: off by one
Allowed(n) == tier = "free" => n < MaxAlerts
\* The alerts of a batch are checked one by one, against the number there was at first.
Pass(r, n, seen) == /\ \A p \in making : p[1] # r
                    /\ Allowed(seen + n - 1) /\ Open < MaxOpen
                    /\ making' = making \cup ({r} \X (1..n))
                    /\ UNCHANGED <<alerts, before, steps, returns, tier>> /\ SendsUnchanged
\* rejectIfSubscriptionBlocksCreate and the batches count what is active or waiting,
CheckCreate(r, n) == Pass(r, n, Open) /\ UNCHANGED reopens
\* a batch of prev_day_level alerts what is active,
CheckDraw(r, n) == Pass(r, n, alerts["active"]) /\ UNCHANGED reopens
\* a PUT what is active but for one, which it takes for the alert it is about.
CheckUpdate(r) == /\ Pass(r, 1, IF alerts["active"] > 0 THEN alerts["active"] - 1 ELSE 0)
                  /\ reopens' = reopens \cup {r}

\* The numbers as they change, and what is remembered of them.
Counted(now) == /\ alerts' = now
                /\ before' = IF before > Open' THEN Open' ELSE before
                /\ steps' = IF steps < now["waiting"] THEN now["waiting"] ELSE steps
Turned(from, to) == [alerts EXCEPT ![from] = @ - 1, ![to] = @ + 1]
MakesOne(r) == /\ \E p \in making : p[1] = r /\ making' = making \ {p}
               /\ UNCHANGED <<returns, tier>> /\ SendsUnchanged
\* A new alert waits if it is a step after another.
CommitCreate(r) == /\ r \notin reopens /\ MakesOne(r) /\ UNCHANGED reopens
                   /\ \E x \in {"active", "waiting"} :
                          /\ x = "waiting" => Open > 0
                          /\ Counted([alerts EXCEPT ![x] = @ + 1])
\* updateAlert takes over any status.
CommitUpdate(r) == /\ r \in reopens /\ MakesOne(r) /\ reopens' = reopens \ {r}
                   /\ \E from, to \in Statuses :
                          /\ alerts[from] > 0 /\ (to = "closed" => alerts["closed"] < MaxClosed)
                          /\ Counted(Turned(from, to))

RequestsUnchanged == UNCHANGED <<making, reopens, tier>> /\ SendsUnchanged
\* One fires, which arms steps that wait for it,
Fire(k) == /\ alerts["active"] > 0 /\ alerts["closed"] < MaxClosed
           /\ Counted([Turned("active", "closed") EXCEPT !["waiting"] = @ - k, !["active"] = @ + k])
           /\ UNCHANGED returns /\ RequestsUnchanged
\* or a step expires or is deleted; what is closed is deleted for good.
CloseStep == /\ alerts["waiting"] > 0 /\ alerts["closed"] < MaxClosed
             /\ Counted(Turned("waiting", "closed"))
             /\ UNCHANGED returns /\ RequestsUnchanged
Forget == /\ alerts["closed"] > 0 /\ Counted([alerts EXCEPT !["closed"] = @ - 1])
          /\ UNCHANGED returns /\ RequestsUnchanged
\* A refused write, or a restart before it, brings back what was closed, or makes a step wait
\* again that was armed.
PutBack == /\ alerts["closed"] > 0 /\ returns < MaxReturns /\ returns' = returns + 1
           /\ \E x \in {"active", "waiting"} : Counted(Turned("closed", x))
           /\ RequestsUnchanged
Disarm == /\ alerts["active"] > 0 /\ Counted(Turned("active", "waiting"))
          /\ UNCHANGED returns /\ RequestsUnchanged

-----------------------------------------------------------------------------
\* The plan changes under way.
StartTrial == /\ tier = "none" /\ tier' = "trial"
              /\ UNCHANGED inbound /\ SendsUnchanged
PutOnFree == /\ tier # "free" /\ tier' = "free"
             /\ before' = Open /\ steps' = alerts["waiting"] /\ returns' = 0
             /\ UNCHANGED <<making, reopens, alerts>> /\ SendsUnchanged

\* Midnight UTC.
NextDay == /\ today < LastDay /\ today' = today + 1
           /\ used' = [c \in Channels |-> 0] /\ sent' = used' /\ lapses' = 0
           /\ UNCHANGED <<tier, send, inbound, restarts>>

\* What is under way is lost, whether or not the provider took it.
StartOver == /\ restarts < MaxRestarts /\ restarts' = restarts + 1
             /\ send' = [s \in Sends |-> Idle]
             /\ making' = {} /\ reopens' = {}
             /\ UNCHANGED <<today, tier, used, sent, lapses, alerts, before, steps, returns>>

Notifications ==
    \E s \in Sends : \/ \E c \in Channels : ReadPlan(s, c)
                     \/ ReadUsage(s) \/ MissUsage(s) \/ Count(s) \/ MissCount(s)
                     \/ ProviderRefuses(s) \/ ProviderTakes(s) \/ AnswerIsLost(s)
AlertChanges ==
    \/ \E r \in Creates : \/ \E n \in 1..MaxBatch : CheckCreate(r, n) \/ CheckDraw(r, n)
                          \/ CheckUpdate(r) \/ CommitCreate(r) \/ CommitUpdate(r)
    \/ (\E k \in 0..alerts["waiting"] : Fire(k)) \/ CloseStep \/ Forget \/ PutBack \/ Disarm
PlanAndTime == StartTrial \/ PutOnFree \/ NextDay \/ StartOver

QuotaNext == Notifications \/ AlertChanges \/ PlanAndTime
QuotaSpec == QuotaInit /\ [][QuotaNext]_quota

-----------------------------------------------------------------------------
(* Properties *)

\* Every variable has its type.
QuotaTypeOK ==
    /\ today \in 0..LastDay /\ restarts \in 0..MaxRestarts
    /\ tier \in {"none", "trial", "free"}
    /\ used \in [Channels -> Nat] /\ sent \in [Channels -> Nat] /\ lapses \in Nat
    /\ send \in [Sends -> [at : {"idle", "planned", "out", "taken"}, channel : Channels \cup {"none"}]]
    /\ making \subseteq Creates \X (1..MaxBatch) /\ reopens \subseteq Creates
    /\ alerts \in [Statuses -> Nat] /\ before \in Nat /\ steps \in Nat /\ returns \in Nat

\* More messages than the day's limit go out, because they are counted after they were
\* sent, but only by those that were under way together, now or at a restart, and by one for
\* each statement or answer of the day that failed with nobody noticing.
QuotaSlips ==
    \A c \in Channels : sent[c] <= Limit + Cardinality(Sends) * (restarts + 1) - 1 + lapses

\* Nobody on the free plan has more alerts open than it allows and than he had before, but
\* for what is let through together, a request's batch each, for the steps that a batch of
\* prev_day_level alerts and a PUT do not count, for the one a PUT does not count, and for
\* those that were closed and came back.
FreeSlips ==
    LET had == before + MaxBatch
        allowed == MaxAlerts + 1 + steps
    IN  tier = "free" =>
            Open <= (IF had > allowed THEN had ELSE allowed)
                        + MaxBatch * (Cardinality(Creates) - 1) + returns

\* What the plan promises, and by how much the code may miss it.
PlanKept == QuotaTypeOK /\ QuotaSlips /\ FreeSlips
=============================================================================
