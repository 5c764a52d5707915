----------------------------- MODULE AlertStore -----------------------------
(***************************************************************************)
(* The alert cache of AlertManager and the rows it keeps in PostgreSQL.    *)
(*                                                                         *)
(* Four kinds of thread share the cache:                                   *)
(*   - the evaluator (main.cc "alert-eval") changes alerts under mu_,      *)
(*     unlocks, and only then hands one write per changed alert to the     *)
(*     database executor (persistAlertThen);                               *)
(*   - HTTP threads change an alert under mu_, unlock, hand over the write *)
(*     and block until it is done (persistAlertSync, persistDeleteSync),   *)
(*     then lock again to take the change back if the write failed;        *)
(*   - the worker (main.cc "alert-persist") runs those writes one by one   *)
(*     in the order they were handed over, with their continuations;       *)
(*   - the expiry timer runs on the worker too, between two tasks, and     *)
(*     writes inline, ahead of everything that waits in the executor.      *)
(*                                                                         *)
(* Prices, candles and delivery settings are abstracted to the set of      *)
(* alerts whose next evaluation changes something.  One-shot alerts are    *)
(* the price and live previous-day kinds; Repeating stands for the kinds   *)
(* that stay active when they fire (structure_session, sweep_confirm,      *)
(* hour_sweep_cisd, candle2_closure).                                      *)
(***************************************************************************)
EXTENDS Naturals, Sequences, FiniteSets

CONSTANTS
    Alerts,         \* alert ids the run may use
    NoAlert,        \* "depends on nothing"
    StartRows,      \* what the table may hold when the process first starts
    Repeating,      \* ids of the kinds that stay active when they fire
    Timed,          \* ids of the alerts that carry an expires_at
    Clients,        \* HTTP threads
    NoClient,       \* the evaluator, as the owner of a write
    HttpOps,        \* requests the clients may issue
    UpdateStatus,   \* values a PUT may write into "status"
    MaxOps,         \* bound: requests in one behaviour
    MaxFail,        \* bound: writes PostgreSQL refuses
    MaxCrash,       \* bound: restarts of the process
    MaxRepeat       \* bound: firings of repeating alerts

Status == {"none", "active", "waiting", "triggered", "expired"}

\* What alerts_ or the alerts table holds for one id; status "none" is no entry.
Row == [status  : Status,
        gate    : BOOLEAN,                  \* requireUnmetSinceArm
        dep     : Alerts \cup {NoAlert},    \* dependsOnAlertId
        chained : BOOLEAN]                  \* chainId is set

Absent == [status |-> "none", gate |-> FALSE, dep |-> NoAlert, chained |-> FALSE]

ASSUME StoreAssumption ==
    /\ IsFiniteSet(Alerts) /\ NoAlert \notin Alerts
    /\ StartRows \subseteq [Alerts -> Row]
    /\ NoClient \notin Clients
    /\ Repeating \subseteq Alerts /\ Timed \subseteq Alerts
    /\ HttpOps \subseteq {"create", "commit", "update", "delete"}
    /\ UpdateStatus \subseteq Status \ {"none"}
    /\ {MaxOps, MaxFail, MaxCrash, MaxRepeat} \subseteq Nat

\* One write, or one trigger report, on its way to the worker.
Task == [op   : {"upsert", "delete", "event"},
         id   : Alerts,
         undo : Row,                        \* the row before the change
         row  : Row,                        \* the row to write
         fire : BOOLEAN,                    \* onTriggered_ follows the write
         by   : Clients \cup {NoClient}]    \* who waits for the outcome

\* A request in progress: the writes it still has to make, one at a time.
HttpState == [op   : {"idle", "create", "commit", "undo", "update", "delete", "try", "arm"},
              at   : {"lock", "call", "wait", "ok", "fail"},
              todo : Seq(Task),
              made : Seq(Alerts)]           \* commitCreatedAlerts: persisted

Idle == [op |-> "idle", at |-> "lock", todo |-> <<>>, made |-> <<>>]

VARIABLES
    mem,          \* alerts_
    db,           \* the alerts table
    dbQueue,      \* tasks of the worker loop
    batch,        \* toPersist of the evaluator, after it has unlocked mu_
    expiring,     \* toPersist of expireTimedOutAlerts, on the worker
    http,         \* the request each client works on
    past,         \* alerts whose expires_at has gone by
    told,         \* history: trigger reports that reached the notification queue
    saved,        \* history: alerts with a trigger the database accepted
    edited,       \* history: alerts a PUT has touched
    used,         \* history: ids ever given to an alert
    ops, fails, crashes, repeats

store    == <<mem, db>>
history  == <<told, saved, edited, used>>
counters == <<ops, fails, crashes, repeats>>
vars == <<store, dbQueue, batch, expiring, http, past, history, counters>>

-----------------------------------------------------------------------------
(* Helpers *)

\* activePriceIndex_, activeCandleIndex_, activeDolIndex_: every section that changes
\* alerts_ under mu_ rebuilds them before it unlocks (rebuildIndexes).
ActiveIndexStale == {a \in Alerts : mem[a].status \in {"active", "triggered"}}  \* mutant: not rebuilt
ActiveIndex == {a \in Alerts : mem[a].status = "active"}

Upsert(a, old, new, fire, c) ==
    [op |-> "upsert", id |-> a, undo |-> old, row |-> new, fire |-> fire, by |-> c]

Erase(a, old, c) ==
    [op |-> "delete", id |-> a, undo |-> old, row |-> Absent, fire |-> FALSE, by |-> c]

Event(a) ==
    [op |-> "event", id |-> a, undo |-> Absent, row |-> Absent, fire |-> FALSE, by |-> NoClient]

\* What the continuation of persistAlertThen queues when the write succeeded: it
\* calls onTriggered_, whose handler (main.cc) goes to the back of the executor.
ReportsDropped(t) == <<>>                                \* mutant: the handler is not called
Reports(t) == IF t.fire /\ t.by = NoClient THEN <<Event(t.id)>> ELSE <<>>

ExpiredTypo(r) == [r EXCEPT !.status = "timed_out"]       \* mutant: a status nobody knows
Expired(r)   == [r EXCEPT !.status = "expired"]
Triggered(r) == [r EXCEPT !.status = "triggered"]
Ungated(r)   == [r EXCEPT !.gate = FALSE]
Armed(r)     == [r EXCEPT !.status = "active", !.gate = TRUE]

DependentsForgotten(p) == {}                             \* mutant: nothing is armed
\* The waiting steps behind p.
Dependents(p) == {c \in Alerts : mem[c].status = "waiting" /\ mem[c].dep = p}

\* The row of a new one-shot alert behind p (applyDependsOnLocked).
NewRowActive(p) ==                                       \* mutant: never queued as waiting
    [status |-> "active", gate |-> FALSE, dep |-> p, chained |-> TRUE]
NewRow(p) ==
    [status |-> IF p = NoAlert THEN "active" ELSE "waiting",
     gate |-> FALSE, dep |-> p, chained |-> TRUE]

\* The orders in which a loop over an unordered_map may visit S.
Orders(S) == {f \in [1..Cardinality(S) -> S] : \A i, j \in DOMAIN f : i # j => f[i] # f[j]}

-----------------------------------------------------------------------------
(* Start and restart: loadAlerts copies the table into the cache. *)

Init == /\ db \in StartRows
        /\ mem = db
        /\ dbQueue = <<>>
        /\ batch = {}
        /\ expiring = {}
        /\ http = [c \in Clients |-> Idle]
        /\ past = {}
        /\ told = [a \in Alerts |-> 0]
        /\ saved = {}
        /\ edited = {}
        /\ used = {a \in Alerts : db[a] # Absent \/ \E b \in Alerts : db[b].dep = a}
        /\ ops = 0 /\ fails = 0 /\ crashes = 0 /\ repeats = 0

\* The process dies: only the table and what was already told survive.
Crash == /\ crashes < MaxCrash
         /\ crashes' = crashes + 1
         /\ mem' = db
         /\ dbQueue' = <<>>
         /\ batch' = {}
         /\ expiring' = {}
         /\ http' = [c \in Clients |-> Idle]
         /\ UNCHANGED <<db, past, history, ops, fails, repeats>>

\* The clock passes expires_at of one alert.
PassTime(a) == /\ mem[a].status # "none"
               /\ a \notin past
               /\ past' = past \cup {a}
               /\ UNCHANGED <<store, dbQueue, batch, expiring, http, history, counters>>

-----------------------------------------------------------------------------
(* The evaluator: checkPriceAlerts, and checkCandleAlerts for Repeating. *)

\* One pass over a batch of quotes, under mu_.  S is the set of alerts the pass
\* has something to do for: past expiry; the condition unmet while the gate is
\* up; or met, with delivery allowed.  A one-shot alert that fires arms the
\* steps behind it in the same section, a repeating one stays active and arms
\* nothing.  The writes are handed over after the unlock (EnqueueWrite).
CheckAlerts(S) ==
    LET expire == S \cap past
        clear  == {a \in S \ past : mem[a].gate}
        fire   == S \ (past \cup clear)
        arm    == UNION {Dependents(p) : p \in fire \ Repeating}
        new(a) == CASE a \in expire           -> Expired(mem[a])
                    [] a \in clear            -> Ungated(mem[a])
                    [] a \in fire \ Repeating -> Triggered(mem[a])
                    [] a \in arm              -> Armed(mem[a])
                    [] OTHER                  -> mem[a]
    IN  /\ batch = {}
        /\ S # {} /\ S \subseteq ActiveIndex
        /\ repeats' = repeats + Cardinality(fire \cap Repeating)
        /\ repeats' <= MaxRepeat
        /\ mem' = [a \in Alerts |-> new(a)]
        /\ batch' = {Upsert(a, mem[a], new(a), a \in fire, NoClient) : a \in S \cup arm}
        /\ UNCHANGED <<db, dbQueue, expiring, http, past, history, ops, fails, crashes>>

\* persistAlertThen for one entry of toPersist; an armed step follows the alert
\* that armed it.
EnqueueWriteEager(t) ==                                  \* mutant: reported before it is saved
    /\ t \in batch
    /\ batch' = batch \ {t}
    /\ dbQueue' = Append(dbQueue, t) \o Reports(t)
    /\ UNCHANGED <<store, expiring, http, past, history, counters>>
EnqueueWriteFirst(t) ==                                  \* mutant: the newest write overtakes
    /\ t \in batch
    /\ batch' = batch \ {t}
    /\ dbQueue' = <<t>> \o dbQueue
    /\ UNCHANGED <<store, expiring, http, past, history, counters>>
EnqueueWrite(t) ==
    /\ t \in batch
    /\ t.undo.status = "waiting" => \A p \in batch : p.id # t.row.dep
    /\ batch' = batch \ {t}
    /\ dbQueue' = Append(dbQueue, t)
    /\ UNCHANGED <<store, expiring, http, past, history, counters>>

-----------------------------------------------------------------------------
(* The worker: one task at a time, with its continuation. *)

WorkerReady(op) == /\ expiring = {}
                   /\ dbQueue # <<>>
                   /\ Head(dbQueue).op = op

\* The promise of a blocked client is set; the evaluator waits for nothing.
ResolveForgotten(c, outcome) == http' = http             \* mutant: the promise is never set
Resolve(c, outcome) ==
    http' = IF c = NoClient THEN http ELSE [http EXCEPT ![c].at = outcome]

\* upsertAlert succeeds: INSERT ... ON CONFLICT DO UPDATE, whatever the row held.
RunUpsert ==
    LET t == Head(dbQueue)
    IN  /\ WorkerReady("upsert")
        /\ db' = [db EXCEPT ![t.id] = t.row]
        /\ saved' = IF t.fire THEN saved \cup {t.id} ELSE saved
        /\ dbQueue' = Tail(dbQueue) \o Reports(t)
        /\ Resolve(t.by, "ok")
        /\ UNCHANGED <<mem, batch, expiring, past, told, edited, used, counters>>

\* upsertAlert fails: the evaluator's continuation puts the old alert back; a
\* blocked client does so itself when it resumes.
FailUpsert ==
    LET t == Head(dbQueue)
    IN  /\ WorkerReady("upsert")
        /\ fails < MaxFail
        /\ fails' = fails + 1
        /\ mem' = IF t.by = NoClient THEN [mem EXCEPT ![t.id] = t.undo] ELSE mem
        /\ dbQueue' = Tail(dbQueue)
        /\ Resolve(t.by, "fail")
        /\ UNCHANGED <<db, batch, expiring, past, history, ops, crashes, repeats>>

\* PostgresService::deleteAlert reports success only when a row went away.
RunDelete ==
    LET t == Head(dbQueue)
    IN  /\ WorkerReady("delete")
        /\ db' = [db EXCEPT ![t.id] = Absent]
        /\ dbQueue' = Tail(dbQueue)
        /\ Resolve(t.by, IF db[t.id] = Absent THEN "fail" ELSE "ok")
        /\ UNCHANGED <<mem, batch, expiring, past, history, counters>>

FailDelete ==
    /\ WorkerReady("delete")
    /\ fails < MaxFail
    /\ fails' = fails + 1
    /\ dbQueue' = Tail(dbQueue)
    /\ Resolve(Head(dbQueue).by, "fail")
    /\ UNCHANGED <<store, batch, expiring, past, history, ops, crashes, repeats>>

\* insertAlertEvent (its result is ignored) and NotificationQueue::enqueue.
RunEvent ==
    /\ WorkerReady("event")
    /\ told' = [told EXCEPT ![Head(dbQueue).id] = @ + 1]
    /\ dbQueue' = Tail(dbQueue)
    /\ UNCHANGED <<store, batch, expiring, http, past, saved, edited, used, counters>>

-----------------------------------------------------------------------------
(* The expiry timer, on the worker: expireTimedOutAlerts. *)

ExpireTimedOut ==
    LET due == {a \in past : mem[a].status \in {"active", "waiting"}}
    IN  /\ expiring = {}
        /\ due # {}
        /\ mem' = [a \in Alerts |-> IF a \in due THEN Expired(mem[a]) ELSE mem[a]]
        /\ expiring' = {Upsert(a, mem[a], Expired(mem[a]), FALSE, NoClient) : a \in due}
        /\ UNCHANGED <<db, dbQueue, batch, http, past, history, counters>>

\* persistAlertSync called on the worker writes at once.
WriteExpired(t) ==
    /\ t \in expiring
    /\ expiring' = expiring \ {t}
    /\ db' = [db EXCEPT ![t.id] = t.row]
    /\ UNCHANGED <<mem, dbQueue, batch, http, past, history, counters>>

FailExpired(t) ==
    /\ t \in expiring
    /\ fails < MaxFail
    /\ fails' = fails + 1
    /\ expiring' = expiring \ {t}
    /\ mem' = [mem EXCEPT ![t.id] = t.undo]
    /\ UNCHANGED <<db, dbQueue, batch, http, past, history, ops, crashes, repeats>>

-----------------------------------------------------------------------------
(* HTTP threads: each request changes the cache under mu_, then persists. *)

\* Client c, idle until now, has made its change and owns the writes todo.
Begin(c, op, todo) ==
    /\ op \in HttpOps
    /\ http[c].op = "idle"
    /\ ops < MaxOps
    /\ ops' = ops + 1
    /\ http' = [http EXCEPT ![c] = [op |-> op, at |-> "call", todo |-> todo, made |-> <<>>]]
    /\ UNCHANGED <<db, dbQueue, batch, expiring, past, told, saved, fails, crashes, repeats>>

\* createPriceAlert with no predecessor, or behind p (applyDependsOnLocked):
\* a parent without a chain gets one, and its row is written first.
Create(c, a, p) ==
    LET parent  == [mem[p] EXCEPT !.chained = TRUE]
        row     == NewRow(p)
        patch   == p # NoAlert /\ ~mem[p].chained
        own     == Upsert(a, Absent, row, FALSE, c)
    IN  /\ a \notin used \cup Repeating
        /\ p # NoAlert => mem[p].status \in {"active", "waiting"}
        /\ mem' = IF patch THEN [mem EXCEPT ![a] = row, ![p] = parent]
                           ELSE [mem EXCEPT ![a] = row]
        /\ used' = used \cup {a}
        /\ edited' = edited
        /\ Begin(c, "create", IF patch THEN <<Upsert(p, mem[p], parent, FALSE, c), own>>
                                       ELSE <<own>>)

\* commitCreatedAlerts: several repeating alerts at once, in the order of built.
CommitCreated(c, S) ==
    LET row == [status |-> "active", gate |-> FALSE, dep |-> NoAlert, chained |-> FALSE]
    IN  /\ S # {} /\ S \subseteq Repeating \ used
        /\ mem' = [a \in Alerts |-> IF a \in S THEN row ELSE mem[a]]
        /\ used' = used \cup S
        /\ edited' = edited
        /\ \E built \in Orders(S) :
              Begin(c, "commit", [i \in 1..Len(built) |-> Upsert(built[i], Absent, row, FALSE, c)])

\* updateAlert: the fields it edits are not modelled, except that "status" takes
\* whatever the request says.
Update(c, a, s) ==
    LET row == [mem[a] EXCEPT !.status = s]
    IN  /\ mem[a].status # "none"
        /\ s \in UpdateStatus \cup {mem[a].status}
        /\ mem' = [mem EXCEPT ![a] = row]
        /\ edited' = edited \cup {a}
        /\ used' = used
        /\ Begin(c, "update", <<Upsert(a, mem[a], row, FALSE, c)>>)

Delete(c, a) ==
    /\ mem[a].status # "none"
    /\ mem' = [mem EXCEPT ![a] = Absent]
    /\ UNCHANGED <<edited, used>>
    /\ Begin(c, "delete", <<Erase(a, mem[a], c)>>)

\* persistAlertSync / persistDeleteSync: hand the next write over and block.
CallSync(c) ==
    /\ http[c].at = "call"
    /\ dbQueue' = Append(dbQueue, Head(http[c].todo))
    /\ http' = [http EXCEPT ![c].at = "wait"]
    /\ UNCHANGED <<store, batch, expiring, past, history, counters>>

\* Client c goes on: with the writes todo, or idle when there are none.
Continue(c, op, at, todo, made) ==
    http' = [http EXCEPT ![c] = IF todo = <<>> THEN Idle
                                ELSE [op |-> op, at |-> at, todo |-> todo, made |-> made]]

\* The write succeeded.  A created active alert may then be evaluated against the
\* price at hand; one that fired is reported, then its dependents are armed.
ResumeOk(c) ==
    LET r == http[c]
        t == Head(r.todo)
    IN  /\ r.at = "ok"
        /\ \/ /\ r.op \in {"create", "update", "delete", "arm", "undo"}
              /\ Continue(c, r.op, "call", Tail(r.todo), <<>>)
              /\ UNCHANGED dbQueue
           \/ /\ r.op = "create" /\ Len(r.todo) = 1 /\ t.row.status = "active"
              /\ Continue(c, "try", "lock", r.todo, <<>>)
              /\ UNCHANGED dbQueue
           \/ /\ r.op = "commit"
              /\ Continue(c, "commit", "call", Tail(r.todo), Append(r.made, t.id))
              /\ UNCHANGED dbQueue
           \/ /\ r.op = "try"
              /\ Continue(c, "arm", "lock", IF t.fire THEN r.todo ELSE <<>>, <<>>)
              /\ dbQueue' = IF t.fire THEN Append(dbQueue, Event(t.id)) ELSE dbQueue
        /\ UNCHANGED <<store, batch, expiring, past, history, counters>>

\* commitCreatedAlerts takes back what it had saved.
TakeBackNot(c, made) == <<>>                             \* mutant: saved rows stay
TakeBack(c, made) == [i \in 1..Len(made) |-> Erase(made[i], Absent, c)]

\* The write failed: the change is taken back under mu_.
ResumeFail(c) ==
    LET r == http[c]
        t == Head(r.todo)
        erased == IF r.op = "create" THEN {r.todo[Len(r.todo)].id}
                  ELSE {r.todo[i].id : i \in DOMAIN r.todo} \cup {r.made[i] : i \in DOMAIN r.made}
    IN  /\ r.at = "fail"
        /\ \/ /\ r.op \in {"create", "commit"}
              /\ mem' = [a \in Alerts |-> IF a \in erased THEN Absent ELSE mem[a]]
              /\ Continue(c, "undo", "call", TakeBack(c, r.made), <<>>)
           \/ /\ r.op \in {"update", "delete", "try"}
              /\ mem' = [mem EXCEPT ![t.id] = t.undo]
              /\ Continue(c, r.op, "call", <<>>, <<>>)
           \/ /\ r.op = "arm"
              /\ mem' = [mem EXCEPT ![t.id] = t.undo]
              /\ Continue(c, "arm", "call", Tail(r.todo), <<>>)
           \/ /\ r.op = "undo"                  \* the result is ignored
              /\ mem' = mem
              /\ Continue(c, "undo", "call", Tail(r.todo), <<>>)
        /\ UNCHANGED <<db, dbQueue, batch, expiring, past, history, counters>>

\* tryTriggerPriceAlert, under mu_: nothing to do, expired, gate cleared, or fired.
TryTrigger(c) ==
    LET a == Head(http[c].todo).id
        next == IF a \in past THEN Expired(mem[a])
                ELSE IF mem[a].gate THEN Ungated(mem[a]) ELSE Triggered(mem[a])
        fire == a \notin past /\ ~mem[a].gate
    IN  /\ http[c].op = "try" /\ http[c].at = "lock"
        /\ \/ /\ mem[a].status # "active" \/ a \notin past
              /\ mem' = mem
              /\ Continue(c, "try", "call", <<>>, <<>>)
           \/ /\ mem[a].status = "active"
              /\ mem' = [mem EXCEPT ![a] = next]
              /\ Continue(c, "try", "call", <<Upsert(a, mem[a], next, fire, c)>>, <<>>)
        /\ UNCHANGED <<db, dbQueue, batch, expiring, past, history, counters>>

\* armDependentAlerts, under mu_.
ArmDependents(c) ==
    LET arm == Dependents(Head(http[c].todo).id)
    IN  /\ http[c].op = "arm" /\ http[c].at = "lock"
        /\ mem' = [a \in Alerts |-> IF a \in arm THEN Armed(mem[a]) ELSE mem[a]]
        /\ \E order \in Orders(arm) :
              Continue(c, "arm", "call",
                       [i \in 1..Cardinality(arm) |->
                          Upsert(order[i], mem[order[i]], Armed(mem[order[i]]), FALSE, c)], <<>>)
        /\ UNCHANGED <<db, dbQueue, batch, expiring, past, history, counters>>

-----------------------------------------------------------------------------
Arrive(c) ==
    \/ \E a \in Alerts, p \in Alerts \cup {NoAlert} : Create(c, a, p)
    \/ \E S \in SUBSET Repeating : CommitCreated(c, S)
    \/ \E a \in Alerts, s \in Status : Update(c, a, s)
    \/ \E a \in Alerts : Delete(c, a)

Proceed(c) == CallSync(c) \/ ResumeOk(c) \/ ResumeFail(c) \/ TryTrigger(c) \/ ArmDependents(c)

Evaluator == \E t \in batch : EnqueueWrite(t)

Worker == RunUpsert \/ RunDelete \/ RunEvent \/ \E t \in expiring : WriteExpired(t)

Refuse == FailUpsert \/ FailDelete \/ \E t \in expiring : FailExpired(t)

Next == \/ \E S \in SUBSET Alerts : CheckAlerts(S)
        \/ Evaluator
        \/ Worker
        \/ Refuse
        \/ ExpireTimedOut
        \/ \E c \in Clients : Arrive(c) \/ Proceed(c)
        \/ \E a \in Timed : PassTime(a)
        \/ Crash

Spec == Init /\ [][Next]_vars

\* Threads that have work go on: the evaluator hands over what it changed, the
\* event loop runs its tasks, a request proceeds once its write is done.  Nothing
\* obliges quotes, requests, the clock or a failure to come.
FairSpec == /\ Spec
            /\ WF_vars(Evaluator)
            /\ WF_vars(Worker)
            /\ \A c \in Clients : WF_vars(Proceed(c))

-----------------------------------------------------------------------------
(* Properties *)

\* Every variable has its type.
TypeOK == /\ mem \in [Alerts -> Row]
          /\ db \in [Alerts -> Row]
          /\ dbQueue \in Seq(Task)
          /\ batch \subseteq Task
          /\ expiring \subseteq Task
          /\ http \in [Clients -> HttpState]
          /\ past \subseteq Alerts
          /\ told \in [Alerts -> Nat]
          /\ saved \subseteq Alerts
          /\ edited \subseteq Alerts
          /\ used \subseteq Alerts
          /\ ops \in Nat /\ fails \in Nat /\ crashes \in Nat /\ repeats \in Nat

\* No user is told of a trigger that the database had not accepted first: both
\* paths to onTriggered_ run only after a successful upsertAlert.
ToldWasSaved == \A a \in Alerts : told[a] > 0 => a \in saved

\* A thread blocked in persistAlertSync or persistDeleteSync has the write it
\* waits for in the worker's queue, and nobody's write is queued twice: it can
\* neither wait for ever nor be woken by the outcome of another write.
BlockedHasTask ==
    /\ \A c \in Clients : http[c].at = "wait" =>
          \E i \in DOMAIN dbQueue : dbQueue[i] = Head(http[c].todo)
    /\ \A i \in DOMAIN dbQueue : dbQueue[i].by # NoClient =>
          /\ http[dbQueue[i].by].at = "wait"
          /\ \A j \in DOMAIN dbQueue : dbQueue[j].by = dbQueue[i].by => i = j

\* A one-shot alert that no PUT has touched is reported at most once; as long as no
\* write was refused and the process was not restarted.
FiresOnce ==
    fails = 0 /\ crashes = 0 =>
        \A a \in Alerts \ (Repeating \cup edited) : told[a] <= 1

\* "Later steps wait until dependsOnAlertId triggers": a step that is active or
\* has fired, and was not put there by a PUT, stands behind an alert that has
\* fired, or that was deleted since.
StepsWait ==
    \A a \in Alerts \ edited :
        LET p == mem[a].dep
        IN  (p # NoAlert /\ mem[a].status \in {"active", "triggered"} /\ p \notin edited)
               => mem[p].status \in {"triggered", "none"}

\* Once a one-shot trigger was reported, its row says so and a restart does not load
\* it as active again; as long as no write was refused and no request raced with it.
ToldIsDurable ==
    fails = 0 /\ ops = 0 =>
        \A a \in Alerts \ Repeating : told[a] > 0 => db[a].status = "triggered"

\* "Saves all of them or none": when one commitCreatedAlerts is all that was ever
\* asked for and everything has come to rest, every row of it is there, or no row.
Quiet == dbQueue = <<>> /\ batch = {} /\ expiring = {} /\ \A c \in Clients : http[c] = Idle

AllOrNone == Quiet => {a \in used : db[a] # Absent} \in {{}, used}

\* A step waiting behind an alert that was reported does not wait for ever.
Stuck(a) == LET p == mem[a].dep
            IN  /\ mem[a].status = "waiting"
                /\ p # NoAlert
                /\ told[p] > 0 /\ p \notin edited

StepsMove == \A a \in Alerts : Stuck(a) ~> ~Stuck(a)

\* A trigger the database accepted is reported in the end.
SavedIsTold == \A a \in Alerts : (a \in saved) ~> (told[a] > 0)

=============================================================================
