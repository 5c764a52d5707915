-------------------------- MODULE AlertStoreProofs --------------------------
(***************************************************************************)
(* Theorems about AlertStore, for any finite set of alerts, any number of  *)
(* HTTP threads, and any number of requests, failures and restarts.        *)
(***************************************************************************)
EXTENDS AlertStore, FiniteSetTheorems, SequenceTheorems, TLAPS

-----------------------------------------------------------------------------
(* The inductive invariant.                                                 *)

\* A request owns the writes it has to make; a trigger it has seen saved is saved;
\* and while it is blocked its next write is in the queue.
Request(c) ==
    LET r == http[c]
    IN  /\ r.op = "idle" => r.at = "lock"
        /\ r.op # "idle" => r.todo # <<>>
        /\ \A i \in DOMAIN r.todo : /\ r.todo[i].by = c
                                    /\ r.todo[i].op \in {"upsert", "delete"}
                                    /\ r.todo[i].fire => r.todo[i].op = "upsert"
        /\ r.op = "try" /\ r.at = "ok" /\ r.todo[1].fire => r.todo[1].id \in saved
        /\ r.at = "wait" => \E i \in DOMAIN dbQueue : dbQueue[i] = r.todo[1]

\* A queued write of a client is the one that client waits for, and its only one; a
\* queued report belongs to a saved trigger.
Queued(i) ==
    LET t == dbQueue[i]
    IN  /\ t.fire => t.op = "upsert"
        /\ t.op = "event" => t.by = NoClient /\ t.id \in saved
        /\ t.by # NoClient => /\ http[t.by].at = "wait"
                              /\ http[t.by].todo[1] = t
                              /\ \A j \in DOMAIN dbQueue : dbQueue[j].by = t.by => i = j

IInv == /\ TypeOK
        /\ \A c \in Clients : Request(c)
        /\ \A i \in DOMAIN dbQueue : Queued(i)
        /\ \A t \in batch : t.by = NoClient /\ t.op = "upsert"
        /\ ToldWasSaved

-----------------------------------------------------------------------------
(* Types of what the actions are built from.                                *)

\* The evaluator is not a client.
LEMMA NoClientIsNoClient == \A c \in Clients : c # NoClient
BY StoreAssumption

\* Short lists of writes.
LEMMA ListTyped ==
    ASSUME NEW S, NEW d \in S, NEW e \in S
    PROVE  <<>> \in Seq(S) /\ <<e>> \in Seq(S) /\ <<d, e>> \in Seq(S)
OBVIOUS

\* Where the elements of a list are when the first is taken, or one more added.
LEMMA TailAt ==
    ASSUME NEW S, NEW s \in Seq(S), s # <<>>
    PROVE  /\ \A i \in DOMAIN s : i # 1 => i - 1 \in DOMAIN Tail(s) /\ Tail(s)[i - 1] = s[i]
           /\ \A i \in DOMAIN Tail(s) : i + 1 \in DOMAIN s /\ Tail(s)[i] = s[i + 1]
<1>1. /\ Tail(s) \in Seq(S) /\ Len(Tail(s)) = Len(s) - 1
      /\ \A i \in 1..Len(Tail(s)) : Tail(s)[i] = s[i + 1]
  BY HeadTailProperties
<1>2. /\ Len(s) \in Nat /\ DOMAIN s = 1..Len(s)
      /\ DOMAIN Tail(s) = 1..(Len(s) - 1)
  BY <1>1
<1>3. ASSUME NEW i \in DOMAIN s, i # 1
      PROVE  i - 1 \in DOMAIN Tail(s) /\ Tail(s)[i - 1] = s[i]
  <2>1. i - 1 \in 1..(Len(s) - 1) /\ (i - 1) + 1 = i
    BY <1>2, <1>3
  <2>2. Tail(s)[i - 1] = s[(i - 1) + 1]
    BY <1>1, <2>1
  <2> QED BY <1>2, <2>1, <2>2
<1>4. ASSUME NEW i \in DOMAIN Tail(s)
      PROVE  i + 1 \in DOMAIN s /\ Tail(s)[i] = s[i + 1]
  BY <1>1, <1>2
<1> QED BY <1>3, <1>4

\* What a sequence with one element more holds: what it held, and that element.
LEMMA AddedAt ==
    ASSUME NEW S, NEW s \in Seq(S), NEW e \in S
    PROVE  /\ \A i \in DOMAIN s : i \in DOMAIN (s \o <<e>>) /\ (s \o <<e>>)[i] = s[i]
           /\ \A i \in DOMAIN (s \o <<e>>) : \/ i \in DOMAIN s /\ (s \o <<e>>)[i] = s[i]
                                             \/ (s \o <<e>>)[i] = e
<1>1. <<e>> \in Seq(S) /\ Len(<<e>>) = 1 /\ <<e>>[1] = e
  OBVIOUS
<1>2. /\ s \o <<e>> \in Seq(S) /\ Len(s \o <<e>>) = Len(s) + 1 /\ Len(s) \in Nat
      /\ \A i \in 1..(Len(s) + 1) : (s \o <<e>>)[i] = IF i <= Len(s) THEN s[i] ELSE <<e>>[i - Len(s)]
  BY <1>1, ConcatProperties
<1>3. DOMAIN s = 1..Len(s) /\ DOMAIN (s \o <<e>>) = 1..(Len(s) + 1)
  BY <1>2
<1>4. \A i \in 1..(Len(s) + 1) : i > Len(s) => i - Len(s) = 1
  BY <1>2
<1> QED BY <1>1, <1>2, <1>3, <1>4

\* A list given by its elements.
LEMMA MapTyped ==
    ASSUME NEW S, NEW n \in Nat, NEW f \in [1..n -> S]
    PROVE  f \in Seq(S)
OBVIOUS

\* Writes made of rows are tasks.
LEMMA TaskTyped ==
    ASSUME NEW a \in Alerts, NEW c \in Clients \cup {NoClient}, NEW old \in Row
    PROVE  /\ \A new \in Row, fire \in BOOLEAN : Upsert(a, old, new, fire, c) \in Task
           /\ Erase(a, old, c) \in Task
           /\ Event(a) \in Task
<1>1. Absent \in Row
  BY DEF Absent, Row, Status
<1> QED BY <1>1 DEF Upsert, Erase, Event, Task

\* The rows the handlers compute are rows.
LEMMA RowTyped ==
    ASSUME NEW r \in Row
    PROVE  /\ Expired(r) \in Row /\ Triggered(r) \in Row /\ Ungated(r) \in Row /\ Armed(r) \in Row
           /\ [r EXCEPT !.chained = TRUE] \in Row
           /\ \A s \in Status : [r EXCEPT !.status = s] \in Row
           /\ Absent \in Row
           /\ \A p \in Alerts \cup {NoAlert} : NewRow(p) \in Row
BY DEF Expired, Triggered, Ungated, Armed, Absent, NewRow, Row, Status

\* What a finished write adds to the queue.
LEMMA ReportsTyped ==
    ASSUME NEW t \in Task
    PROVE  Reports(t) \in Seq(Task)
<1>1. t.id \in Alerts
  BY DEF Task
<1>2. Event(t.id) \in Task
  <2>1. Absent \in Row
    BY DEF Absent, Row, Status
  <2> QED BY <1>1, <2>1 DEF Event, Task
<1> QED BY <1>2 DEF Reports

\* A visiting order of a set of alerts is a sequence of alerts.
LEMMA OrdersTyped ==
    ASSUME NEW S \in SUBSET Alerts, NEW f \in Orders(S)
    PROVE  /\ Cardinality(S) \in Nat
           /\ f \in Seq(Alerts) /\ Len(f) = Cardinality(S)
           /\ \A i \in 1..Cardinality(S) : f[i] \in S
<1>1. IsFiniteSet(S)
  BY StoreAssumption, FS_Subset
<1>2. Cardinality(S) \in Nat
  BY <1>1, FS_CardinalityType
<1>3. f \in [1..Cardinality(S) -> S]
  BY DEF Orders
<1>4. f \in Seq(S) /\ Len(f) = Cardinality(S)
  BY <1>2, <1>3
<1>5. f \in Seq(Alerts)
  BY <1>4
<1> QED BY <1>2, <1>3, <1>4, <1>5

\* How a request goes on.
LEMMA ContinueTyped ==
    ASSUME http \in [Clients -> HttpState], NEW c \in Clients,
           NEW op \in {"idle", "create", "commit", "undo", "update", "delete", "try", "arm"},
           NEW at \in {"lock", "call", "wait", "ok", "fail"},
           NEW todo \in Seq(Task), NEW made \in Seq(Alerts),
           Continue(c, op, at, todo, made)
    PROVE  http' \in [Clients -> HttpState]
<1>1. Idle \in HttpState
  <2>1. <<>> \in Seq(Task) /\ <<>> \in Seq(Alerts)
    OBVIOUS
  <2> QED BY <2>1 DEF Idle, HttpState
<1>2. [op |-> op, at |-> at, todo |-> todo, made |-> made] \in HttpState
  BY DEF HttpState
<1> QED BY <1>1, <1>2 DEF Continue

\* How a request begins.
LEMMA BeginTyped ==
    ASSUME TypeOK, NEW c \in Clients, NEW op, NEW todo \in Seq(Task), Begin(c, op, todo)
    PROVE  http' \in [Clients -> HttpState] /\ ops' \in Nat
<1>1. op \in {"create", "commit", "update", "delete"}
  BY StoreAssumption DEF Begin
<1>2. [op |-> op, at |-> "call", todo |-> todo, made |-> <<>>] \in HttpState
  <2>1. <<>> \in Seq(Alerts)
    OBVIOUS
  <2> QED BY <1>1, <2>1 DEF HttpState
<1> QED BY <1>2 DEF Begin, TypeOK

\* The outcome of a write reaches the client that waits for it.
LEMMA ResolveTyped ==
    ASSUME http \in [Clients -> HttpState], NEW c \in Clients \cup {NoClient},
           NEW outcome \in {"ok", "fail"}, Resolve(c, outcome)
    PROVE  http' \in [Clients -> HttpState]
<1>1. \A h \in HttpState : [h EXCEPT !.at = outcome] \in HttpState
  BY DEF HttpState
<1> QED BY <1>1 DEF Resolve

-----------------------------------------------------------------------------
(* Each action keeps the types.                                             *)

\* A pass of the evaluator.
LEMMA CheckAlertsTyped ==
    ASSUME TypeOK, NEW S \in SUBSET Alerts, CheckAlerts(S)
    PROVE  TypeOK'
<1> DEFINE expire == S \cap past
           clear  == {a \in S \ past : mem[a].gate}
           fire   == S \ (past \cup clear)
           arm    == UNION {Dependents(p) : p \in fire \ Repeating}
           new(a) == CASE a \in expire           -> Expired(mem[a])
                       [] a \in clear            -> Ungated(mem[a])
                       [] a \in fire \ Repeating -> Triggered(mem[a])
                       [] a \in arm              -> Armed(mem[a])
                       [] OTHER                  -> mem[a]
<1>1. \A a \in Alerts : mem[a] \in Row
  BY DEF TypeOK
<1>2. \A a \in Alerts : new(a) \in Row
  <2> SUFFICES ASSUME NEW a \in Alerts PROVE new(a) \in Row
    OBVIOUS
  <2>1. /\ Expired(mem[a]) \in Row /\ Triggered(mem[a]) \in Row
        /\ Ungated(mem[a]) \in Row /\ Armed(mem[a]) \in Row
    BY <1>1, RowTyped
  <2> HIDE DEF expire, clear, fire, arm
  <2> QED BY <1>1, <2>1
<1>3. arm \subseteq Alerts
  BY DEF Dependents
<1>4. fire \subseteq Alerts
  OBVIOUS
<1>5. repeats' \in Nat
  <2>1. IsFiniteSet(fire \cap Repeating)
    BY <1>4, StoreAssumption, FS_Subset
  <2>2. Cardinality(fire \cap Repeating) \in Nat
    BY <2>1, FS_CardinalityType
  <2>3. repeats' = repeats + Cardinality(fire \cap Repeating)
    BY DEF CheckAlerts
  <2> QED BY <2>2, <2>3 DEF TypeOK
<1>6. /\ mem' = [a \in Alerts |-> new(a)]
      /\ batch' = {Upsert(a, mem[a], new(a), a \in fire, NoClient) : a \in S \cup arm}
      /\ UNCHANGED <<db, dbQueue, expiring, http, past, history, ops, fails, crashes>>
  BY DEF CheckAlerts
<1> HIDE DEF expire, clear, fire, arm, new
<1>7. mem' \in [Alerts -> Row]
  BY <1>2, <1>6
<1>8. batch' \subseteq Task
  <2>1. ASSUME NEW a \in Alerts PROVE Upsert(a, mem[a], new(a), a \in fire, NoClient) \in Task
    <3>1. mem[a] \in Row /\ new(a) \in Row /\ (a \in fire) \in BOOLEAN
      BY <1>1, <1>2
    <3> HIDE DEF TypeOK
    <3> QED BY <3>1, TaskTyped
  <2> QED BY <1>3, <1>6, <2>1
<1> QED BY <1>5, <1>6, <1>7, <1>8 DEF TypeOK, history

\* The evaluator hands a write over.
LEMMA EnqueueWriteTyped ==
    ASSUME TypeOK, NEW t \in batch, EnqueueWrite(t)
    PROVE  TypeOK'
<1>1. t \in Task /\ dbQueue \in Seq(Task)
  BY DEF TypeOK
<1>2. dbQueue' = Append(dbQueue, t)
  BY DEF EnqueueWrite
<1>3. dbQueue' \in Seq(Task) /\ batch' \subseteq Task
  BY <1>1, <1>2 DEF EnqueueWrite, TypeOK
<1>4. UNCHANGED <<mem, db, expiring, http, past, told, saved, edited, used, ops, fails, crashes, repeats>>
  BY DEF EnqueueWrite, store, history, counters
<1> QED BY <1>3, <1>4 DEF TypeOK

\* A task of the worker.
LEMMA WorkerTyped ==
    ASSUME TypeOK, RunUpsert \/ FailUpsert \/ RunDelete \/ FailDelete \/ RunEvent
    PROVE  TypeOK'
<1> DEFINE t == Head(dbQueue)
<1>1. t \in Task /\ Tail(dbQueue) \in Seq(Task)
  <2>1. dbQueue \in Seq(Task)
    BY DEF TypeOK
  <2>2. dbQueue # <<>>
    BY DEF RunUpsert, FailUpsert, RunDelete, FailDelete, RunEvent, WorkerReady
  <2> QED BY <2>1, <2>2
<1>2. t.id \in Alerts /\ t.row \in Row /\ t.undo \in Row /\ t.by \in Clients \cup {NoClient}
  BY <1>1 DEF Task
<1>3. Absent \in Row
  BY DEF Absent, Row, Status
<1>4. CASE RunUpsert
  <2>1. Tail(dbQueue) \o Reports(t) \in Seq(Task)
    BY <1>1, ReportsTyped
  <2>2. http' \in [Clients -> HttpState]
    <3>1. http \in [Clients -> HttpState] /\ Resolve(t.by, "ok")
      BY <1>4 DEF RunUpsert, TypeOK
    <3> QED BY <1>2, <3>1, ResolveTyped
  <2> QED BY <1>2, <1>4, <2>1, <2>2 DEF RunUpsert, TypeOK, counters
<1>5. CASE FailUpsert
  <2>1. http' \in [Clients -> HttpState]
    <3>1. http \in [Clients -> HttpState] /\ Resolve(t.by, "fail")
      BY <1>5 DEF FailUpsert, TypeOK
    <3> QED BY <1>2, <3>1, ResolveTyped
  <2> QED BY <1>1, <1>2, <1>5, <2>1 DEF FailUpsert, TypeOK, history
<1>6. CASE RunDelete
  <2>1. http' \in [Clients -> HttpState]
    <3>1. http \in [Clients -> HttpState]
          /\ Resolve(t.by, IF db[t.id] = Absent THEN "fail" ELSE "ok")
      BY <1>6 DEF RunDelete, TypeOK
    <3> QED BY <1>2, <3>1, ResolveTyped
  <2> QED BY <1>1, <1>2, <1>3, <1>6, <2>1 DEF RunDelete, TypeOK, history, counters
<1>7. CASE FailDelete
  <2>1. http' \in [Clients -> HttpState]
    <3>1. http \in [Clients -> HttpState] /\ Resolve(t.by, "fail")
      BY <1>7 DEF FailDelete, TypeOK
    <3> QED BY <1>2, <3>1, ResolveTyped
  <2> QED BY <1>1, <1>7, <2>1 DEF FailDelete, TypeOK, store, history
<1>8. CASE RunEvent
  <2>1. told' \in [Alerts -> Nat]
    BY <1>2, <1>8 DEF RunEvent, TypeOK
  <2> QED BY <1>1, <1>8, <2>1 DEF RunEvent, TypeOK, store, counters
<1> QED BY <1>4, <1>5, <1>6, <1>7, <1>8

\* The expiry timer.
LEMMA ExpiryTyped ==
    ASSUME TypeOK, \/ ExpireTimedOut
                   \/ \E t \in expiring : WriteExpired(t) \/ FailExpired(t)
    PROVE  TypeOK'
<1>1. CASE ExpireTimedOut
  <2>1. \A a \in Alerts : mem[a] \in Row /\ Expired(mem[a]) \in Row
    BY RowTyped DEF TypeOK
  <2>2. mem' \in [Alerts -> Row]
    BY <1>1, <2>1 DEF ExpireTimedOut
  <2>3. \A a \in Alerts : Upsert(a, mem[a], Expired(mem[a]), FALSE, NoClient) \in Task
    BY <2>1, TaskTyped
  <2>4. past \subseteq Alerts
    BY DEF TypeOK
  <2>5. expiring' \subseteq Task
    BY <1>1, <2>3, <2>4 DEF ExpireTimedOut
  <2> QED BY <1>1, <2>2, <2>5 DEF ExpireTimedOut, TypeOK, history, counters
<1>2. ASSUME NEW t \in expiring, WriteExpired(t) \/ FailExpired(t) PROVE TypeOK'
  <2>1. t \in Task
    BY DEF TypeOK
  <2>2. t.id \in Alerts /\ t.row \in Row /\ t.undo \in Row
    BY <2>1 DEF Task
  <2>3. CASE WriteExpired(t)
    BY <2>2, <2>3 DEF WriteExpired, TypeOK, history, counters
  <2>4. CASE FailExpired(t)
    BY <2>2, <2>4 DEF FailExpired, TypeOK, history
  <2> QED BY <1>2, <2>3, <2>4
<1> QED BY <1>1, <1>2

\* A new request.
LEMMA ArriveTyped ==
    ASSUME TypeOK, NEW c \in Clients, Arrive(c)
    PROVE  TypeOK'
<1>1. \A a \in Alerts : mem[a] \in Row
  BY DEF TypeOK
<1>2. Absent \in Row
  BY DEF Absent, Row, Status
<1>3. ASSUME NEW op, NEW todo \in Seq(Task), Begin(c, op, todo),
             mem' \in [Alerts -> Row], edited' \subseteq Alerts, used' \subseteq Alerts
      PROVE  TypeOK'
  <2>1. http' \in [Clients -> HttpState] /\ ops' \in Nat
    BY <1>3, BeginTyped
  <2>2. UNCHANGED <<db, dbQueue, batch, expiring, past, told, saved, fails, crashes, repeats>>
    BY <1>3 DEF Begin
  <2> QED BY <1>3, <2>1, <2>2 DEF TypeOK
<1>4. ASSUME NEW a \in Alerts, NEW p \in Alerts \cup {NoAlert}, Create(c, a, p) PROVE TypeOK'
  <2> DEFINE parent == [mem[p] EXCEPT !.chained = TRUE]
             row    == NewRow(p)
             patch  == p # NoAlert /\ ~mem[p].chained
             own    == Upsert(a, Absent, row, FALSE, c)
             first  == Upsert(p, mem[p], parent, FALSE, c)
             todo   == IF patch THEN <<first, own>> ELSE <<own>>
  <2>1. row \in Row
    BY RowTyped, <1>2
  <2>2. own \in Task
    BY <1>2, <2>1, TaskTyped
  <2>3. CASE patch
    <3>1. p \in Alerts
      BY <2>3
    <3>2. parent \in Row
      BY <1>1, <3>1, RowTyped
    <3>3. first \in Task
      BY <1>1, <3>1, <3>2, TaskTyped
    <3>4. mem' = [mem EXCEPT ![a] = row, ![p] = parent]
      BY <1>4, <2>3 DEF Create
    <3>5. mem' \in [Alerts -> Row]
      <4> HIDE DEF row, parent
      <4> QED BY <2>1, <3>2, <3>4 DEF TypeOK
    <3>6. todo \in Seq(Task)
      <4> HIDE DEF first, own
      <4> QED BY <2>2, <2>3, <3>3, ListTyped
    <3>7. Begin(c, "create", todo) /\ edited' \subseteq Alerts /\ used' \subseteq Alerts
      BY <1>4 DEF Create, TypeOK
    <3> QED BY <1>3, <3>5, <3>6, <3>7
  <2>4. CASE ~patch
    <3>4. mem' = [mem EXCEPT ![a] = row]
      BY <1>4, <2>4 DEF Create
    <3>5. mem' \in [Alerts -> Row]
      <4> HIDE DEF row
      <4> QED BY <2>1, <3>4 DEF TypeOK
    <3>6. todo \in Seq(Task)
      <4> HIDE DEF own
      <4> QED BY <2>2, <2>4, ListTyped
    <3>7. Begin(c, "create", todo) /\ edited' \subseteq Alerts /\ used' \subseteq Alerts
      BY <1>4 DEF Create, TypeOK
    <3> QED BY <1>3, <3>5, <3>6, <3>7
  <2> QED BY <2>3, <2>4
<1>5. ASSUME NEW S \in SUBSET Repeating, CommitCreated(c, S) PROVE TypeOK'
  <2> DEFINE row == [status |-> "active", gate |-> FALSE, dep |-> NoAlert, chained |-> FALSE]
  <2>1. S \subseteq Alerts /\ row \in Row
    BY StoreAssumption DEF Row, Status
  <2>2. /\ mem' = [a \in Alerts |-> IF a \in S THEN row ELSE mem[a]]
        /\ edited' = edited /\ used' = used \cup S
    BY <1>5 DEF CommitCreated
  <2>3. PICK built \in Orders(S) :
           Begin(c, "commit", [i \in 1..Len(built) |-> Upsert(built[i], Absent, row, FALSE, c)])
    BY <1>5 DEF CommitCreated
  <2> HIDE DEF row
  <2>4. built \in Seq(Alerts)
    BY <2>1, OrdersTyped
  <2>5. ASSUME NEW i \in 1..Len(built)
        PROVE  Upsert(built[i], Absent, row, FALSE, c) \in Task
    <3>1. built[i] \in Alerts
      BY <2>4
    <3> QED BY <1>2, <2>1, <3>1, TaskTyped
  <2>6. [i \in 1..Len(built) |-> Upsert(built[i], Absent, row, FALSE, c)] \in Seq(Task)
    <3>1. Len(built) \in Nat
      BY <2>4
    <3>2. [i \in 1..Len(built) |-> Upsert(built[i], Absent, row, FALSE, c)] \in [1..Len(built) -> Task]
      BY <2>5
    <3> QED BY <3>1, <3>2, MapTyped
  <2>7. mem' \in [Alerts -> Row]
    BY <1>1, <2>1, <2>2
  <2>8. edited' \subseteq Alerts /\ used' \subseteq Alerts
    BY <2>1, <2>2 DEF TypeOK
  <2> QED BY <1>3, <2>3, <2>6, <2>7, <2>8
<1>6. ASSUME NEW a \in Alerts, NEW s \in Status, Update(c, a, s) PROVE TypeOK'
  <2> DEFINE row == [mem[a] EXCEPT !.status = s]
  <2>1. row \in Row
    BY <1>1, RowTyped
  <2>2. /\ mem' = [mem EXCEPT ![a] = row] /\ edited' = edited \cup {a} /\ used' = used
        /\ Begin(c, "update", <<Upsert(a, mem[a], row, FALSE, c)>>)
    BY <1>6 DEF Update
  <2> HIDE DEF row
  <2>3. Upsert(a, mem[a], row, FALSE, c) \in Task
    BY <1>1, <2>1, TaskTyped
  <2>4. <<Upsert(a, mem[a], row, FALSE, c)>> \in Seq(Task)
    BY <2>3, ListTyped
  <2>5. mem' \in [Alerts -> Row] /\ edited' \subseteq Alerts /\ used' \subseteq Alerts
    BY <2>1, <2>2 DEF TypeOK
  <2> QED BY <1>3, <2>2, <2>4, <2>5
<1>7. ASSUME NEW a \in Alerts, Delete(c, a) PROVE TypeOK'
  <2>1. Erase(a, mem[a], c) \in Task
    BY <1>1, TaskTyped
  <2>2. <<Erase(a, mem[a], c)>> \in Seq(Task)
    BY <2>1, ListTyped
  <2>3. mem' \in [Alerts -> Row] /\ edited' \subseteq Alerts /\ used' \subseteq Alerts
    BY <1>2, <1>7 DEF Delete, TypeOK
  <2>4. Begin(c, "delete", <<Erase(a, mem[a], c)>>)
    BY <1>7 DEF Delete
  <2> QED BY <1>3, <2>2, <2>3, <2>4
<1> QED BY <1>4, <1>5, <1>6, <1>7 DEF Arrive

\* A request in progress takes its next step.
LEMMA ProceedTyped ==
    ASSUME TypeOK, NEW c \in Clients, Request(c), Proceed(c)
    PROVE  TypeOK'
<1> DEFINE r == http[c]
           t == Head(r.todo)
<1>1. r \in HttpState /\ http \in [Clients -> HttpState]
  BY DEF TypeOK
<1>2. r.op # "idle"
  BY DEF Proceed, CallSync, ResumeOk, ResumeFail, TryTrigger, ArmDependents, Request
<1>3. r.todo \in Seq(Task) /\ r.todo # <<>> /\ r.made \in Seq(Alerts)
  BY <1>1, <1>2 DEF Request, HttpState
<1>4. t \in Task /\ Tail(r.todo) \in Seq(Task)
  BY <1>3
<1>5. t.id \in Alerts /\ t.undo \in Row /\ t.row \in Row
  BY <1>4 DEF Task
<1>6. <<>> \in Seq(Task) /\ <<>> \in Seq(Alerts)
  OBVIOUS
<1>7. \A a \in Alerts : mem[a] \in Row
  BY DEF TypeOK
<1>8. Absent \in Row
  BY DEF Absent, Row, Status
<1>9. CASE CallSync(c)
  <2>1. dbQueue' = Append(dbQueue, t) /\ dbQueue \in Seq(Task)
    BY <1>9 DEF CallSync, TypeOK
  <2>2. dbQueue' \in Seq(Task)
    BY <1>4, <2>1
  <2>3. [r EXCEPT !.at = "wait"] \in HttpState
    BY <1>1 DEF HttpState
  <2>4. http' \in [Clients -> HttpState]
    BY <1>9, <1>1, <2>3 DEF CallSync
  <2> QED BY <1>9, <2>2, <2>4 DEF CallSync, TypeOK, store, history, counters
<1>10. CASE ResumeOk(c)
  <2>1. UNCHANGED <<store, batch, expiring, past, history, counters>>
    BY <1>10 DEF ResumeOk
  <2>2. CASE /\ r.op \in {"create", "update", "delete", "arm", "undo"}
             /\ Continue(c, r.op, "call", Tail(r.todo), <<>>)
             /\ UNCHANGED dbQueue
    <3>1. http' \in [Clients -> HttpState]
      BY <1>1, <1>4, <1>6, <2>2, ContinueTyped
    <3> QED BY <2>1, <2>2, <3>1 DEF TypeOK, store, history, counters
  <2>3. CASE Continue(c, "try", "lock", r.todo, <<>>) /\ UNCHANGED dbQueue
    <3>1. http' \in [Clients -> HttpState]
      BY <1>1, <1>3, <1>6, <2>3, ContinueTyped
    <3> QED BY <2>1, <2>3, <3>1 DEF TypeOK, store, history, counters
  <2>4. CASE Continue(c, "commit", "call", Tail(r.todo), Append(r.made, t.id)) /\ UNCHANGED dbQueue
    <3>1. Append(r.made, t.id) \in Seq(Alerts)
      BY <1>3, <1>5
    <3>2. http' \in [Clients -> HttpState]
      BY <1>1, <1>4, <2>4, <3>1, ContinueTyped
    <3> QED BY <2>1, <2>4, <3>2 DEF TypeOK, store, history, counters
  <2>5. CASE /\ Continue(c, "arm", "lock", IF t.fire THEN r.todo ELSE <<>>, <<>>)
             /\ dbQueue' = IF t.fire THEN Append(dbQueue, Event(t.id)) ELSE dbQueue
    <3>1. (IF t.fire THEN r.todo ELSE <<>>) \in Seq(Task)
      BY <1>3, <1>6
    <3>2. http' \in [Clients -> HttpState]
      BY <1>1, <1>6, <2>5, <3>1, ContinueTyped
    <3>3. Event(t.id) \in Task /\ dbQueue \in Seq(Task)
      BY <1>5, <1>8 DEF Event, Task, TypeOK
    <3>4. dbQueue' \in Seq(Task)
      BY <2>5, <3>3
    <3> QED BY <2>1, <3>2, <3>4 DEF TypeOK, store, history, counters
  <2> QED BY <1>10, <2>2, <2>3, <2>4, <2>5 DEF ResumeOk
<1>11. CASE ResumeFail(c)
  <2>1. UNCHANGED <<db, dbQueue, batch, expiring, past, history, counters>>
    BY <1>11 DEF ResumeFail
  <2>2. mem' \in [Alerts -> Row]
    <3>1. \A S : [a \in Alerts |-> IF a \in S THEN Absent ELSE mem[a]] \in [Alerts -> Row]
      BY <1>7, <1>8
    <3>2. [mem EXCEPT ![t.id] = t.undo] \in [Alerts -> Row] /\ mem \in [Alerts -> Row]
      BY <1>5 DEF TypeOK
    <3> QED BY <1>11, <3>1, <3>2 DEF ResumeFail
  <2>3. TakeBack(c, r.made) \in Seq(Task)
    <3>1. Len(r.made) \in Nat /\ \A i \in 1..Len(r.made) : r.made[i] \in Alerts
      BY <1>3
    <3>2. \A i \in 1..Len(r.made) : Erase(r.made[i], Absent, c) \in Task
      BY <1>8, <3>1, TaskTyped
    <3>3. TakeBack(c, r.made) \in [1..Len(r.made) -> Task]
      BY <3>2 DEF TakeBack
    <3> QED BY <3>1, <3>3, MapTyped
  <2>4. http' \in [Clients -> HttpState]
    <3>1. CASE Continue(c, "undo", "call", TakeBack(c, r.made), <<>>)
      BY <1>1, <1>6, <2>3, <3>1, ContinueTyped
    <3>2. CASE r.op \in {"update", "delete", "try"} /\ Continue(c, r.op, "call", <<>>, <<>>)
      BY <1>1, <1>6, <3>2, ContinueTyped
    <3>3. ASSUME NEW op \in {"arm", "undo"}, Continue(c, op, "call", Tail(r.todo), <<>>)
          PROVE  http' \in [Clients -> HttpState]
      BY <1>1, <1>4, <1>6, <3>3, ContinueTyped
    <3> QED BY <1>11, <3>1, <3>2, <3>3 DEF ResumeFail
  <2> QED BY <2>1, <2>2, <2>4 DEF TypeOK, history, counters
<1>12. CASE TryTrigger(c)
  <2> DEFINE a    == t.id
             next == IF a \in past THEN Expired(mem[a])
                     ELSE IF mem[a].gate THEN Ungated(mem[a]) ELSE Triggered(mem[a])
             fire == a \notin past /\ ~mem[a].gate
  <2>1. next \in Row
    BY <1>5, <1>7, RowTyped
  <2>2. UNCHANGED <<db, dbQueue, batch, expiring, past, history, counters>>
    BY <1>12 DEF TryTrigger
  <2>3. CASE mem' = mem /\ Continue(c, "try", "call", <<>>, <<>>)
    <3>1. http' \in [Clients -> HttpState]
      BY <1>1, <1>6, <2>3, ContinueTyped
    <3> QED BY <2>2, <2>3, <3>1 DEF TypeOK, history, counters
  <2>4. CASE /\ mem' = [mem EXCEPT ![a] = next]
             /\ Continue(c, "try", "call", <<Upsert(a, mem[a], next, fire, c)>>, <<>>)
    <3> HIDE DEF next
    <3>1. fire \in BOOLEAN /\ mem[a] \in Row
      BY <1>5, <1>7
    <3> HIDE DEF fire
    <3>2. Upsert(a, mem[a], next, fire, c) \in Task
      BY <1>5, <2>1, <3>1, TaskTyped
    <3>3. <<Upsert(a, mem[a], next, fire, c)>> \in Seq(Task)
      BY <3>2, ListTyped
    <3>4. http' \in [Clients -> HttpState]
      BY <1>1, <1>6, <2>4, <3>3, ContinueTyped
    <3>5. mem' \in [Alerts -> Row]
      BY <2>1, <2>4 DEF TypeOK
    <3> QED BY <2>2, <3>4, <3>5 DEF TypeOK, history, counters
  <2> QED BY <1>12, <2>3, <2>4 DEF TryTrigger
<1>13. CASE ArmDependents(c)
  <2> DEFINE arm == Dependents(t.id)
             todo(order) == [i \in 1..Cardinality(arm) |->
                               Upsert(order[i], mem[order[i]], Armed(mem[order[i]]), FALSE, c)]
  <2>1. UNCHANGED <<db, dbQueue, batch, expiring, past, history, counters>>
    BY <1>13 DEF ArmDependents
  <2>2. mem' \in [Alerts -> Row]
    <3>1. \A a \in Alerts : Armed(mem[a]) \in Row
      BY <1>7, RowTyped
    <3> QED BY <1>7, <1>13, <3>1 DEF ArmDependents
  <2>3. PICK order \in Orders(arm) : Continue(c, "arm", "call", todo(order), <<>>)
    BY <1>13 DEF ArmDependents
  <2>4. arm \in SUBSET Alerts
    BY DEF Dependents
  <2> HIDE DEF arm
  <2>5. Cardinality(arm) \in Nat /\ \A i \in 1..Cardinality(arm) : order[i] \in Alerts
    BY <2>4, OrdersTyped
  <2>6. ASSUME NEW i \in 1..Cardinality(arm)
        PROVE  Upsert(order[i], mem[order[i]], Armed(mem[order[i]]), FALSE, c) \in Task
    <3>1. order[i] \in Alerts /\ mem[order[i]] \in Row
      BY <1>7, <2>5
    <3>2. Armed(mem[order[i]]) \in Row
      BY <3>1, RowTyped
    <3> QED BY <3>1, <3>2, TaskTyped
  <2>7. todo(order) \in Seq(Task)
    <3>1. todo(order) \in [1..Cardinality(arm) -> Task]
      BY <2>6
    <3> HIDE DEF todo
    <3> QED BY <2>5, <3>1, MapTyped
  <2>8. http' \in [Clients -> HttpState]
    <3> HIDE DEF todo
    <3> QED BY <1>1, <1>6, <2>3, <2>7, ContinueTyped
  <2> QED BY <2>1, <2>2, <2>8 DEF TypeOK, history, counters
<1> QED BY <1>9, <1>10, <1>11, <1>12, <1>13 DEF Proceed

-----------------------------------------------------------------------------
(* Each action keeps requests and queue in step.                            *)

\* A request as its thread leaves it when it does not wait.
Own(c, h) == /\ h.at \in {"lock", "call"}
             /\ h.op = "idle" => h.at = "lock"
             /\ h.op # "idle" => h.todo # <<>>
             /\ \A i \in DOMAIN h.todo : /\ h.todo[i].by = c
                                         /\ h.todo[i].op \in {"upsert", "delete"}
                                         /\ h.todo[i].fire => h.todo[i].op = "upsert"

\* A task nobody waits for.
Free(e) == e.by = NoClient /\ (e.fire => e.op = "upsert") /\ (e.op = "event" => e.id \in saved)

\* Threads that do not wait move on, and a task nobody waits for may join the queue.
LEMMA MoveInStep ==
    ASSUME IInv, TypeOK', saved \subseteq saved',
           \A c \in Clients : http'[c] = http[c] \/ (http[c].at # "wait" /\ Own(c, http'[c])),
           dbQueue' = dbQueue \/ \E e \in Task : Free(e) /\ dbQueue' = Append(dbQueue, e)
    PROVE  (\A c \in Clients : Request(c)') /\ (\A i \in DOMAIN dbQueue' : Queued(i)')
<1>1. dbQueue \in Seq(Task)
  BY DEF IInv, TypeOK
<1>2. \A i \in DOMAIN dbQueue : i \in DOMAIN dbQueue' /\ dbQueue'[i] = dbQueue[i]
  BY <1>1
<1>3. \A i \in DOMAIN dbQueue' : \/ i \in DOMAIN dbQueue /\ dbQueue'[i] = dbQueue[i]
                                 \/ dbQueue'[i] \in Task /\ Free(dbQueue'[i])
  <2>1. CASE dbQueue' = dbQueue
    BY <2>1 DEF Free
  <2>2. ASSUME NEW e \in Task, Free(e), dbQueue' = Append(dbQueue, e)
        PROVE  \A i \in DOMAIN dbQueue' : \/ i \in DOMAIN dbQueue /\ dbQueue'[i] = dbQueue[i]
                                          \/ dbQueue'[i] = e
    BY <1>1, <2>2
  <2> QED BY <2>1, <2>2 DEF Free
<1>4. ASSUME NEW c \in Clients PROVE Request(c)'
  <2>1. CASE http'[c] = http[c]
    <3>1. Request(c)
      BY DEF IInv
    <3> QED BY <1>2, <2>1, <3>1 DEF Request
  <2>2. CASE Own(c, http'[c])
    BY <2>2 DEF Own, Request
  <2> QED BY <2>1, <2>2
<1>5. ASSUME NEW i \in DOMAIN dbQueue' PROVE Queued(i)'
  <2>1. CASE dbQueue'[i] \in Task /\ Free(dbQueue'[i])
    BY <2>1 DEF Free, Queued
  <2>2. CASE i \in DOMAIN dbQueue /\ dbQueue'[i] = dbQueue[i]
    <3>1. Queued(i)
      BY <2>2 DEF IInv
    <3> DEFINE c == dbQueue[i].by
    <3>2. c # NoClient => c \in Clients
      <4>1. dbQueue[i] \in Task
        BY <1>1, <2>2
      <4> QED BY <4>1 DEF Task
    <3>3. c # NoClient => http'[c] = http[c]
      BY <3>1, <3>2 DEF Queued
    <3>4. ASSUME c # NoClient, NEW j \in DOMAIN dbQueue', dbQueue'[j].by = c PROVE i = j
      <4>1. j \in DOMAIN dbQueue /\ dbQueue'[j] = dbQueue[j]
        BY <1>3, <3>4 DEF Free
      <4> QED BY <3>1, <3>4, <4>1 DEF Queued
    <3> QED BY <2>2, <3>1, <3>3, <3>4 DEF Queued
  <2> QED BY <1>3, <2>1, <2>2
<1> QED BY <1>4, <1>5

\* A client hands its next write over and waits for it.
LEMMA CallInStep ==
    ASSUME IInv, NEW c \in Clients, CallSync(c)
    PROVE  (\A n \in Clients : Request(n)') /\ (\A i \in DOMAIN dbQueue' : Queued(i)')
<1> DEFINE t == http[c].todo[1]
<1>1. dbQueue \in Seq(Task) /\ http \in [Clients -> HttpState] /\ http[c] \in HttpState
  BY DEF IInv, TypeOK
<1>2. Request(c) /\ http[c].at = "call"
  BY DEF IInv, CallSync
<1>3. http[c].todo \in Seq(Task) /\ http[c].todo # <<>> /\ http[c].op # "idle"
  BY <1>1, <1>2 DEF Request, HttpState
<1>4. 1 \in DOMAIN http[c].todo /\ t \in Task /\ t = Head(http[c].todo)
  BY <1>3
<1>5. t.by = c /\ t.op \in {"upsert", "delete"} /\ (t.fire => t.op = "upsert")
  BY <1>2, <1>4 DEF Request
<1>6. dbQueue' = Append(dbQueue, t) /\ http' = [http EXCEPT ![c].at = "wait"] /\ saved' = saved
  BY <1>4 DEF CallSync, history
<1>7. /\ \A n \in Clients \ {c} : http'[n] = http[n]
      /\ http'[c] = [http[c] EXCEPT !.at = "wait"]
  BY <1>1, <1>6
<1>8. /\ http'[c].at = "wait" /\ http'[c].todo = http[c].todo /\ http'[c].op = http[c].op
  BY <1>1, <1>7 DEF HttpState
<1> HIDE DEF t
<1>9. /\ \A i \in DOMAIN dbQueue : i \in DOMAIN dbQueue' /\ dbQueue'[i] = dbQueue[i]
      /\ Len(dbQueue) + 1 \in DOMAIN dbQueue' /\ dbQueue'[Len(dbQueue) + 1] = t
      /\ \A i \in DOMAIN dbQueue' : i \in DOMAIN dbQueue \/ i = Len(dbQueue) + 1
  BY <1>1, <1>4, <1>6, AppendProperties
<1>10. ASSUME NEW n \in Clients PROVE Request(n)'
  <2>1. CASE n = c
    <3>1. dbQueue'[Len(dbQueue) + 1] = http'[c].todo[1]
      BY <1>8, <1>9 DEF t
    <3> QED BY <1>2, <1>3, <1>8, <1>9, <2>1, <3>1 DEF Request
  <2>2. CASE n # c
    <3>1. Request(n) /\ http'[n] = http[n]
      BY <1>7, <2>2 DEF IInv
    <3>2. ASSUME http[n].at = "wait"
          PROVE  \E i \in DOMAIN dbQueue' : dbQueue'[i] = http[n].todo[1]
      <4>1. PICK i \in DOMAIN dbQueue : dbQueue[i] = http[n].todo[1]
        BY <3>1, <3>2 DEF Request
      <4>2. i \in DOMAIN dbQueue' /\ dbQueue'[i] = dbQueue[i]
        BY <1>9
      <4> QED BY <4>1, <4>2
    <3>3. saved' = saved
      BY <1>6
    <3> QED BY <3>1, <3>2, <3>3 DEF Request
  <2> QED BY <2>1, <2>2
<1>11. \A i \in DOMAIN dbQueue : dbQueue[i].by # c
  BY <1>2, NoClientIsNoClient DEF IInv, Queued
<1>12. ASSUME NEW i \in DOMAIN dbQueue' PROVE Queued(i)'
  <2>1. CASE i = Len(dbQueue) + 1
    <3>1. dbQueue'[i] = t
      BY <1>9, <2>1
    <3>2. \A j \in DOMAIN dbQueue' : dbQueue'[j].by = c => i = j
      BY <1>9, <1>11, <2>1
    <3>3. http'[c].at = "wait" /\ http'[c].todo[1] = t
      BY <1>8 DEF t
    <3> QED BY <1>5, <3>1, <3>2, <3>3 DEF Queued
  <2>2. CASE i \in DOMAIN dbQueue
    <3>1. Queued(i) /\ dbQueue'[i] = dbQueue[i] /\ dbQueue[i].by # c
      BY <1>9, <1>11, <2>2 DEF IInv
    <3>2. dbQueue[i].by # NoClient => dbQueue[i].by \in Clients
      <4>1. dbQueue[i] \in Task
        BY <1>1, <2>2
      <4> QED BY <4>1 DEF Task
    <3>3. dbQueue[i].by # NoClient => http'[dbQueue[i].by] = http[dbQueue[i].by]
      BY <1>7, <3>1, <3>2
    <3>4. \A j \in DOMAIN dbQueue' : dbQueue'[j].by = dbQueue[i].by =>
             j \in DOMAIN dbQueue /\ dbQueue'[j] = dbQueue[j]
      BY <1>5, <1>9, <3>1
    <3> QED BY <1>6, <3>1, <3>3, <3>4 DEF Queued
  <2> QED BY <1>9, <2>1, <2>2
<1> QED BY <1>10, <1>12

\* The worker takes the first task, may queue a report behind the others, and tells
\* the client that waits for the task how it went.
LEMMA WorkInStep ==
    ASSUME IInv, TypeOK', dbQueue # <<>>, saved \subseteq saved',
           NEW outcome \in {"ok", "fail"}, Resolve(dbQueue[1].by, outcome),
           outcome = "ok" /\ dbQueue[1].fire => dbQueue[1].id \in saved',
           \/ dbQueue' = Tail(dbQueue)
           \/ \E a \in saved' : dbQueue' = Tail(dbQueue) \o <<Event(a)>>
    PROVE  (\A c \in Clients : Request(c)') /\ (\A i \in DOMAIN dbQueue' : Queued(i)')
<1> DEFINE t == dbQueue[1]
<1>1. dbQueue \in Seq(Task) /\ http \in [Clients -> HttpState]
  BY DEF IInv, TypeOK
<1>2. 1 \in DOMAIN dbQueue /\ t \in Task /\ Queued(1)
  BY <1>1 DEF IInv
<1>3. t.by = NoClient \/ t.by \in Clients
  BY <1>2 DEF Task
<1>4. \A c \in Clients : \/ c # t.by /\ http'[c] = http[c]
                         \/ c = t.by /\ http[c].at = "wait" /\ http'[c] = [http[c] EXCEPT !.at = outcome]
  BY <1>1, <1>2, <1>3, NoClientIsNoClient DEF Resolve, Queued
<1>5. \A c \in Clients : http[c] \in HttpState
  BY <1>1
\* The tasks behind the first move up by one place.
<1>6. \A a \in saved' : Event(a) \in Task
  BY TaskTyped DEF TypeOK, Event, Task, Absent, Row, Status
<1>7. /\ \A i \in DOMAIN dbQueue : i # 1 => i - 1 \in DOMAIN dbQueue' /\ dbQueue'[i - 1] = dbQueue[i]
      /\ \A i \in DOMAIN dbQueue' :
            \/ i + 1 \in DOMAIN dbQueue /\ dbQueue'[i] = dbQueue[i + 1]
            \/ \E a \in saved' : dbQueue'[i] = Event(a)
  <2> DEFINE rest == Tail(dbQueue)
  <2>1. /\ \A i \in DOMAIN dbQueue : i # 1 => i - 1 \in DOMAIN rest /\ rest[i - 1] = dbQueue[i]
        /\ \A i \in DOMAIN rest : i + 1 \in DOMAIN dbQueue /\ rest[i] = dbQueue[i + 1]
    BY <1>1, TailAt
  <2>2. rest \in Seq(Task)
    BY <1>1
  <2> HIDE DEF rest
  <2>3. CASE dbQueue' = rest
    BY <2>1, <2>3
  <2>4. ASSUME NEW a \in saved', dbQueue' = rest \o <<Event(a)>>
        PROVE  /\ \A i \in DOMAIN rest : i \in DOMAIN dbQueue' /\ dbQueue'[i] = rest[i]
               /\ \A i \in DOMAIN dbQueue' : \/ i \in DOMAIN rest /\ dbQueue'[i] = rest[i]
                                             \/ dbQueue'[i] = Event(a)
    BY <1>6, <2>2, <2>4, AddedAt
  <2> QED BY <2>1, <2>3, <2>4 DEF rest
<1> HIDE DEF t
<1>8. ASSUME NEW c \in Clients PROVE Request(c)'
  <2>1. Request(c) /\ http[c] \in HttpState
    BY <1>5 DEF IInv
  <2>2. CASE c # t.by
    <3>1. http'[c] = http[c]
      BY <1>4, <2>2
    <3>2. ASSUME http[c].at = "wait"
          PROVE  \E i \in DOMAIN dbQueue' : dbQueue'[i] = http[c].todo[1]
      <4>1. PICK i \in DOMAIN dbQueue : dbQueue[i] = http[c].todo[1]
        BY <2>1, <3>2 DEF Request
      <4>2. dbQueue[i].by = c
        <5>1. http[c].op # "idle" /\ http[c].todo \in Seq(Task) /\ http[c].todo # <<>>
          BY <2>1, <3>2 DEF Request, HttpState
        <5>2. 1 \in DOMAIN http[c].todo
          BY <5>1
        <5> QED BY <2>1, <4>1, <5>2 DEF Request
      <4>3. i # 1
        BY <2>2, <4>2 DEF t
      <4>4. i - 1 \in DOMAIN dbQueue' /\ dbQueue'[i - 1] = dbQueue[i]
        BY <1>7, <4>3
      <4> QED BY <4>1, <4>4
    <3> QED BY <2>1, <3>1, <3>2 DEF Request
  <2>3. CASE c = t.by
    <3>1. http[c].at = "wait" /\ http'[c] = [http[c] EXCEPT !.at = outcome]
      BY <1>4, <2>3
    <3>2. /\ http'[c].at = outcome /\ http'[c].op = http[c].op
          /\ http'[c].todo = http[c].todo
      BY <2>1, <3>1 DEF HttpState
    <3>3. http[c].todo[1] = t
      BY <1>2, <2>3, NoClientIsNoClient DEF Queued, t
    <3>4. outcome = "ok" /\ t.fire => t.id \in saved'
      BY DEF t
    <3> QED BY <2>1, <3>1, <3>2, <3>3, <3>4 DEF Request
  <2> QED BY <2>2, <2>3
<1>9. ASSUME NEW i \in DOMAIN dbQueue' PROVE Queued(i)'
  <2>1. ASSUME NEW a \in saved', dbQueue'[i] = Event(a) PROVE Queued(i)'
    BY <2>1 DEF Event, Queued
  <2>2. CASE i + 1 \in DOMAIN dbQueue /\ dbQueue'[i] = dbQueue[i + 1]
    <3> DEFINE u == dbQueue[i + 1]
    <3>1. Queued(i + 1) /\ i \in Nat /\ i # 0
      BY <1>1, <2>2 DEF IInv, TypeOK
    <3>2. u \in Task
      BY <1>1, <2>2
    <3>3. ASSUME u.by # NoClient
          PROVE  /\ http'[u.by] = http[u.by]
                 /\ \A j \in DOMAIN dbQueue' : dbQueue'[j].by = u.by => i = j
      <4>1. u.by \in Clients
        BY <3>2, <3>3 DEF Task
      <4>2. u.by # t.by
        BY <1>2, <2>2, <3>1, <3>3 DEF Queued, t
      <4>3. http'[u.by] = http[u.by]
        BY <1>4, <4>1, <4>2
      <4>4. ASSUME NEW j \in DOMAIN dbQueue', dbQueue'[j].by = u.by PROVE i = j
        <5>1. j + 1 \in DOMAIN dbQueue /\ dbQueue'[j] = dbQueue[j + 1]
          BY <1>7, <3>3, <4>4 DEF Event
        <5>2. i + 1 = j + 1
          BY <2>2, <3>1, <3>3, <4>4, <5>1 DEF Queued
        <5>3. j \in Nat
          BY <4>4 DEF TypeOK
        <5> QED BY <3>1, <5>2, <5>3
      <4> QED BY <4>3, <4>4
    <3> QED BY <2>2, <3>1, <3>3 DEF Queued
  <2> QED BY <1>7, <2>1, <2>2
<1> QED BY <1>8, <1>9

\* A step of a request that does not wait.
LEMMA RequestInStep ==
    ASSUME IInv, TypeOK', NEW c \in Clients, Arrive(c) \/ Proceed(c)
    PROVE  (\A n \in Clients : Request(n)') /\ (\A i \in DOMAIN dbQueue' : Queued(i)')
<1> DEFINE r == http[c]
           t == Head(r.todo)
<1>1. /\ http \in [Clients -> HttpState] /\ r \in HttpState /\ dbQueue \in Seq(Task)
      /\ Request(c) /\ saved \subseteq Alerts
  BY DEF IInv, TypeOK
<1>2. r.todo \in Seq(Task) /\ r.made \in Seq(Alerts)
  BY <1>1 DEF HttpState
<1>3. r.op # "idle" => /\ r.todo # <<>> /\ t = r.todo[1] /\ 1 \in DOMAIN r.todo
                       /\ t \in Task
  BY <1>1, <1>2 DEF Request
\* The writes a step gives itself are its own.
<1>4. Own(c, Idle)
  BY DEF Own, Idle
<1>5. ASSUME NEW op, NEW at \in {"lock", "call"}, NEW todo, NEW made, op # "idle",
             \A i \in DOMAIN todo : /\ todo[i].by = c
                                    /\ todo[i].op \in {"upsert", "delete"}
                                    /\ todo[i].fire => todo[i].op = "upsert",
             Continue(c, op, at, todo, made)
      PROVE  Own(c, http'[c]) /\ \A n \in Clients \ {c} : http'[n] = http[n]
  <2>1. CASE todo = <<>>
    <3>1. http' = [http EXCEPT ![c] = Idle]
      BY <1>5, <2>1 DEF Continue
    <3> QED BY <1>1, <1>4, <3>1
  <2>2. CASE todo # <<>>
    <3>1. http' = [http EXCEPT ![c] = [op |-> op, at |-> at, todo |-> todo, made |-> made]]
      BY <1>5, <2>2 DEF Continue
    <3>2. http'[c] = [op |-> op, at |-> at, todo |-> todo, made |-> made]
      BY <1>1, <3>1
    <3>3. Own(c, http'[c])
      BY <1>5, <2>2, <3>2 DEF Own
    <3> QED BY <1>1, <3>1, <3>3
  <2> QED BY <2>1, <2>2
<1>6. \A i \in DOMAIN r.todo : /\ r.todo[i].by = c
                               /\ r.todo[i].op \in {"upsert", "delete"}
                               /\ r.todo[i].fire => r.todo[i].op = "upsert"
  BY <1>1 DEF Request
<1>7. ASSUME r.op # "idle"
      PROVE  \A i \in DOMAIN Tail(r.todo) : /\ Tail(r.todo)[i].by = c
                                            /\ Tail(r.todo)[i].op \in {"upsert", "delete"}
                                            /\ Tail(r.todo)[i].fire => Tail(r.todo)[i].op = "upsert"
  <2> SUFFICES ASSUME NEW i \in DOMAIN Tail(r.todo)
               PROVE  i + 1 \in DOMAIN r.todo /\ Tail(r.todo)[i] = r.todo[i + 1]
    BY <1>6
  <2> QED BY <1>2, <1>3, <1>7
<1>8. \A i \in DOMAIN <<>> : FALSE
  OBVIOUS
\* A step that moves only its own request.
<1>9. ASSUME r.at # "wait", saved' = saved, Own(c, http'[c]),
             \A n \in Clients \ {c} : http'[n] = http[n],
             dbQueue' = dbQueue \/ \E e \in Task : Free(e) /\ dbQueue' = Append(dbQueue, e)
      PROVE  (\A n \in Clients : Request(n)') /\ (\A i \in DOMAIN dbQueue' : Queued(i)')
  <2>1. \A n \in Clients : http'[n] = http[n] \/ (http[n].at # "wait" /\ Own(n, http'[n]))
    BY <1>9
  <2> QED BY <1>9, <2>1, MoveInStep
<1>10. CASE Arrive(c)
  <2>1. ASSUME NEW op, NEW todo, Begin(c, op, todo), todo # <<>>, saved' = saved,
               \A i \in DOMAIN todo : /\ todo[i].by = c
                                      /\ todo[i].op \in {"upsert", "delete"}
                                      /\ todo[i].fire => todo[i].op = "upsert"
        PROVE  (\A n \in Clients : Request(n)') /\ (\A i \in DOMAIN dbQueue' : Queued(i)')
    <3>1. /\ http' = [http EXCEPT ![c] = [op |-> op, at |-> "call", todo |-> todo, made |-> <<>>]]
          /\ r.op = "idle" /\ op # "idle" /\ dbQueue' = dbQueue
      BY <2>1, StoreAssumption DEF Begin
    <3>2. r.at # "wait"
      BY <1>1, <3>1 DEF Request
    <3>3. http'[c] = [op |-> op, at |-> "call", todo |-> todo, made |-> <<>>]
      BY <1>1, <3>1
    <3>4. Own(c, http'[c])
      BY <2>1, <3>1, <3>3 DEF Own
    <3>5. \A n \in Clients \ {c} : http'[n] = http[n]
      BY <1>1, <3>1
    <3> QED BY <1>9, <2>1, <3>1, <3>2, <3>4, <3>5
  <2>2. ASSUME NEW a \in Alerts, NEW p \in Alerts \cup {NoAlert}, Create(c, a, p)
        PROVE  (\A n \in Clients : Request(n)') /\ (\A i \in DOMAIN dbQueue' : Queued(i)')
    <3> DEFINE first == Upsert(p, mem[p], [mem[p] EXCEPT !.chained = TRUE], FALSE, c)
               own == Upsert(a, Absent, NewRow(p), FALSE, c)
    <3>1. saved' = saved /\ \E todo \in {<<first, own>>, <<own>>} : Begin(c, "create", todo)
      BY <2>2 DEF Create, Begin
    <3>2. \A e \in {first, own} : e.by = c /\ e.op = "upsert"
      BY DEF Upsert
    <3> HIDE DEF first, own
    <3> QED BY <2>1, <3>1, <3>2
  <2>3. ASSUME NEW S \in SUBSET Repeating, CommitCreated(c, S)
        PROVE  (\A n \in Clients : Request(n)') /\ (\A i \in DOMAIN dbQueue' : Queued(i)')
    <3> DEFINE row == [status |-> "active", gate |-> FALSE, dep |-> NoAlert, chained |-> FALSE]
               todo(built) == [i \in 1..Len(built) |-> Upsert(built[i], Absent, row, FALSE, c)]
    <3>1. PICK built \in Orders(S) : Begin(c, "commit", todo(built))
      BY <2>3 DEF CommitCreated
    <3>2. S \in SUBSET Alerts /\ S # {} /\ saved' = saved
      BY <2>3, StoreAssumption DEF CommitCreated, Begin
    <3>3. /\ Len(built) = Cardinality(S) /\ Len(built) \in Nat
      BY <3>2, OrdersTyped
    <3>4. Len(built) # 0
      <4>1. IsFiniteSet(S)
        BY <3>2, StoreAssumption, FS_Subset
      <4> QED BY <3>2, <3>3, <4>1, FS_EmptySet
    <3>5. \A i \in DOMAIN todo(built) : todo(built)[i].by = c /\ todo(built)[i].op = "upsert"
      BY DEF Upsert
    <3>6. todo(built) # <<>>
      <4>1. 1 \in DOMAIN todo(built)
        BY <3>3, <3>4
      <4> HIDE DEF todo
      <4> QED BY <4>1
    <3> HIDE DEF todo
    <3> QED BY <2>1, <3>1, <3>2, <3>5, <3>6
  <2>4. ASSUME NEW a \in Alerts, NEW s \in Status, Update(c, a, s)
        PROVE  (\A n \in Clients : Request(n)') /\ (\A i \in DOMAIN dbQueue' : Queued(i)')
    <3> DEFINE own == Upsert(a, mem[a], [mem[a] EXCEPT !.status = s], FALSE, c)
    <3>1. saved' = saved /\ Begin(c, "update", <<own>>)
      BY <2>4 DEF Update, Begin
    <3>2. own.by = c /\ own.op = "upsert"
      BY DEF Upsert
    <3> HIDE DEF own
    <3> QED BY <2>1, <3>1, <3>2
  <2>5. ASSUME NEW a \in Alerts, Delete(c, a)
        PROVE  (\A n \in Clients : Request(n)') /\ (\A i \in DOMAIN dbQueue' : Queued(i)')
    <3> DEFINE own == Erase(a, mem[a], c)
    <3>1. saved' = saved /\ Begin(c, "delete", <<own>>)
      BY <2>5 DEF Delete, Begin
    <3>2. own.by = c /\ own.op = "delete" /\ ~own.fire
      BY DEF Erase
    <3>3. \A i \in DOMAIN <<own>> : <<own>>[i] = own
      OBVIOUS
    <3>4. <<own>> # <<>>
      OBVIOUS
    <3> HIDE DEF own
    <3> QED BY <2>1, <3>1, <3>2, <3>3, <3>4
  <2> QED BY <1>10, <2>2, <2>3, <2>4, <2>5 DEF Arrive
<1>11. CASE CallSync(c)
  BY <1>11, CallInStep
<1>12. CASE ResumeOk(c)
  <2>1. r.at = "ok" /\ r.at # "wait" /\ r.op # "idle" /\ saved' = saved
    BY <1>1, <1>12 DEF ResumeOk, Request, history
  <2>2. CASE /\ r.op \in {"create", "update", "delete", "arm", "undo"}
             /\ Continue(c, r.op, "call", Tail(r.todo), <<>>)
             /\ UNCHANGED dbQueue
    BY <1>5, <1>7, <1>9, <2>1, <2>2
  <2>3. CASE Continue(c, "try", "lock", r.todo, <<>>) /\ UNCHANGED dbQueue
    BY <1>5, <1>6, <1>9, <2>1, <2>3
  <2>4. CASE Continue(c, "commit", "call", Tail(r.todo), Append(r.made, t.id)) /\ UNCHANGED dbQueue
    BY <1>5, <1>7, <1>9, <2>1, <2>4
  <2>5. CASE /\ r.op = "try"
             /\ Continue(c, "arm", "lock", IF t.fire THEN r.todo ELSE <<>>, <<>>)
             /\ dbQueue' = IF t.fire THEN Append(dbQueue, Event(t.id)) ELSE dbQueue
    <3> DEFINE todo == IF t.fire THEN r.todo ELSE <<>>
    <3>1. Own(c, http'[c]) /\ \A n \in Clients \ {c} : http'[n] = http[n]
      <4>1. \A i \in DOMAIN todo : /\ todo[i].by = c
                                   /\ todo[i].op \in {"upsert", "delete"}
                                   /\ todo[i].fire => todo[i].op = "upsert"
        BY <1>6, <1>8
      <4> HIDE DEF todo
      <4> QED BY <1>5, <2>5, <4>1 DEF todo
    <3>2. CASE t.fire
      <4>1. t.id \in saved /\ t.id \in Alerts
        BY <1>1, <1>3, <2>1, <2>5, <3>2 DEF Request
      <4>2. Event(t.id) \in Task /\ Free(Event(t.id))
        BY <4>1, TaskTyped DEF Event, Free, Task, Absent, Row, Status
      <4>3. \E e \in Task : Free(e) /\ dbQueue' = Append(dbQueue, e)
        BY <2>5, <3>2, <4>2
      <4> QED BY <1>9, <2>1, <3>1, <4>3
    <3>3. CASE ~t.fire
      BY <1>9, <2>1, <2>5, <3>1, <3>3
    <3> QED BY <3>2, <3>3
  <2> QED BY <1>12, <2>2, <2>3, <2>4, <2>5 DEF ResumeOk
<1>13. CASE ResumeFail(c)
  <2>1. r.at # "wait" /\ r.op # "idle" /\ saved' = saved /\ dbQueue' = dbQueue
    BY <1>1, <1>13 DEF ResumeFail, Request, history
  <2>2. \A i \in DOMAIN TakeBack(c, r.made) :
           LET e == TakeBack(c, r.made)[i]
           IN  e.by = c /\ e.op = "delete" /\ ~e.fire
    BY DEF TakeBack, Erase
  <2>3. Own(c, http'[c]) /\ \A n \in Clients \ {c} : http'[n] = http[n]
    <3>1. CASE Continue(c, "undo", "call", TakeBack(c, r.made), <<>>)
      BY <1>5, <2>2, <3>1
    <3>2. CASE r.op \in {"update", "delete", "try"} /\ Continue(c, r.op, "call", <<>>, <<>>)
      BY <1>5, <1>8, <3>2
    <3>3. ASSUME NEW op \in {"arm", "undo"}, Continue(c, op, "call", Tail(r.todo), <<>>)
          PROVE  Own(c, http'[c]) /\ \A n \in Clients \ {c} : http'[n] = http[n]
      BY <1>5, <1>7, <2>1, <3>3
    <3> QED BY <1>13, <3>1, <3>2, <3>3 DEF ResumeFail
  <2> QED BY <1>9, <2>1, <2>3
<1>14. CASE TryTrigger(c)
  <2>1. r.at # "wait" /\ saved' = saved /\ dbQueue' = dbQueue
    BY <1>14 DEF TryTrigger, history
  <2>2. Own(c, http'[c]) /\ \A n \in Clients \ {c} : http'[n] = http[n]
    <3>1. CASE Continue(c, "try", "call", <<>>, <<>>)
      BY <1>5, <1>8, <3>1
    <3>2. ASSUME NEW a, NEW old, NEW new, NEW fire,
                 Continue(c, "try", "call", <<Upsert(a, old, new, fire, c)>>, <<>>)
          PROVE  Own(c, http'[c]) /\ \A n \in Clients \ {c} : http'[n] = http[n]
      <4> DEFINE own == Upsert(a, old, new, fire, c)
      <4>1. own.by = c /\ own.op = "upsert"
        BY DEF Upsert
      <4>2. \A i \in DOMAIN <<own>> : <<own>>[i] = own
        OBVIOUS
      <4> HIDE DEF own
      <4> QED BY <1>5, <3>2, <4>1, <4>2 DEF own
    <3> QED BY <1>14, <3>1, <3>2 DEF TryTrigger
  <2> QED BY <1>9, <2>1, <2>2
<1>15. CASE ArmDependents(c)
  <2> DEFINE arm == Dependents(t.id)
             todo(order) == [i \in 1..Cardinality(arm) |->
                               Upsert(order[i], mem[order[i]], Armed(mem[order[i]]), FALSE, c)]
  <2>1. r.at # "wait" /\ saved' = saved /\ dbQueue' = dbQueue
    BY <1>15 DEF ArmDependents, history
  <2>2. PICK order \in Orders(arm) : Continue(c, "arm", "call", todo(order), <<>>)
    BY <1>15 DEF ArmDependents
  <2>3. \A i \in DOMAIN todo(order) : todo(order)[i].by = c /\ todo(order)[i].op = "upsert"
    BY DEF Upsert
  <2> HIDE DEF todo
  <2>4. Own(c, http'[c]) /\ \A n \in Clients \ {c} : http'[n] = http[n]
    BY <1>5, <2>2, <2>3
  <2> QED BY <1>9, <2>1, <2>4
<1> QED BY <1>10, <1>11, <1>12, <1>13, <1>14, <1>15 DEF Proceed

-----------------------------------------------------------------------------
(* The theorems.                                                            *)

\* A fresh start, with nobody waiting and nothing queued, satisfies the invariant.
LEMMA InitInv == Init => IInv
<1> SUFFICES ASSUME Init PROVE IInv
  OBVIOUS
<1>1. db \in [Alerts -> Row] /\ mem \in [Alerts -> Row]
  BY StoreAssumption DEF Init
<1>2. dbQueue \in Seq(Task) /\ Idle \in HttpState
  BY DEF Init, Idle, HttpState
<1>3. TypeOK
  <2>1. /\ http \in [Clients -> HttpState] /\ told \in [Alerts -> Nat]
    BY <1>2 DEF Init
  <2>2. /\ batch \subseteq Task /\ expiring \subseteq Task /\ past \subseteq Alerts
        /\ saved \subseteq Alerts /\ edited \subseteq Alerts /\ used \subseteq Alerts
        /\ ops \in Nat /\ fails \in Nat /\ crashes \in Nat /\ repeats \in Nat
    BY DEF Init
  <2> QED BY <1>1, <1>2, <2>1, <2>2 DEF TypeOK
<1>4. \A c \in Clients : Request(c)
  BY DEF Init, Idle, Request
<1>5. (\A i \in DOMAIN dbQueue : Queued(i)) /\ (\A t \in batch : t.by = NoClient /\ t.op = "upsert")
  BY DEF Init
<1>6. ToldWasSaved
  BY DEF Init, ToldWasSaved
<1> QED BY <1>3, <1>4, <1>5, <1>6 DEF IInv

\* Types are kept by every step from a state of the invariant.
LEMMA StepTyped ==
    ASSUME IInv, [Next]_vars
    PROVE  TypeOK'
<1>1. TypeOK /\ \A c \in Clients : Request(c)
  BY DEF IInv
<1>2. ASSUME NEW S \in SUBSET Alerts, CheckAlerts(S) PROVE TypeOK'
  BY <1>1, <1>2, CheckAlertsTyped
<1>3. CASE Evaluator
  BY <1>1, <1>3, EnqueueWriteTyped DEF Evaluator
<1>4. CASE RunUpsert \/ FailUpsert \/ RunDelete \/ FailDelete \/ RunEvent
  BY <1>1, <1>4, WorkerTyped
<1>5. CASE ExpireTimedOut \/ \E t \in expiring : WriteExpired(t) \/ FailExpired(t)
  BY <1>1, <1>5, ExpiryTyped
<1>6. ASSUME NEW c \in Clients, Arrive(c) PROVE TypeOK'
  BY <1>1, <1>6, ArriveTyped
<1>7. ASSUME NEW c \in Clients, Proceed(c) PROVE TypeOK'
  BY <1>1, <1>7, ProceedTyped
<1>8. ASSUME NEW a \in Timed, PassTime(a) PROVE TypeOK'
  BY <1>1, <1>8, StoreAssumption DEF PassTime, TypeOK, store, history, counters
<1>9. CASE Crash
  <2>1. Idle \in HttpState /\ dbQueue' \in Seq(Task)
    BY <1>9 DEF Crash, Idle, HttpState
  <2> QED BY <1>1, <1>9, <2>1 DEF Crash, TypeOK, history
<1>10. CASE UNCHANGED vars
  BY <1>1, <1>10 DEF vars, store, history, counters, TypeOK
<1> QED BY <1>2, <1>3, <1>4, <1>5, <1>6, <1>7, <1>8, <1>9, <1>10 DEF Next, Worker, Refuse

\* Requests and queue stay in step.
LEMMA StepInStep ==
    ASSUME IInv, [Next]_vars
    PROVE  (\A c \in Clients : Request(c)') /\ (\A i \in DOMAIN dbQueue' : Queued(i)')
<1>1. TypeOK'
  BY StepTyped
<1>2. ASSUME UNCHANGED <<http, dbQueue, saved>>
      PROVE  (\A c \in Clients : Request(c)') /\ (\A i \in DOMAIN dbQueue' : Queued(i)')
  BY <1>1, <1>2, MoveInStep
<1>3. ASSUME NEW t \in batch, EnqueueWrite(t)
      PROVE  (\A c \in Clients : Request(c)') /\ (\A i \in DOMAIN dbQueue' : Queued(i)')
  <2>1. t \in Task /\ Free(t)
    BY DEF IInv, TypeOK, Free
  <2>2. /\ dbQueue' = Append(dbQueue, t) /\ http' = http /\ saved' = saved
    BY <1>3 DEF EnqueueWrite, history
  <2> QED BY <1>1, <2>1, <2>2, MoveInStep
<1>4. CASE RunUpsert
  <2>1. /\ dbQueue # <<>> /\ Head(dbQueue) = dbQueue[1] /\ dbQueue \in Seq(Task)
        /\ dbQueue[1] \in Task
    BY <1>4 DEF RunUpsert, WorkerReady, IInv, TypeOK
  <2>2. saved \subseteq saved' /\ (dbQueue[1].fire => dbQueue[1].id \in saved')
    BY <1>4, <2>1 DEF RunUpsert
  <2>3. Resolve(dbQueue[1].by, "ok")
    BY <1>4, <2>1 DEF RunUpsert
  <2>4. \/ dbQueue' = Tail(dbQueue)
        \/ \E a \in saved' : dbQueue' = Tail(dbQueue) \o <<Event(a)>>
    <3>1. dbQueue' = Tail(dbQueue) \o Reports(dbQueue[1])
      BY <1>4, <2>1 DEF RunUpsert
    <3>2. Tail(dbQueue) \o <<>> = Tail(dbQueue)
      BY <2>1
    <3> QED BY <2>2, <3>1, <3>2 DEF Reports
  <2> QED BY <1>1, <2>1, <2>2, <2>3, <2>4, WorkInStep
<1>5. ASSUME NEW outcome \in {"ok", "fail"}, Resolve(dbQueue[1].by, outcome), dbQueue # <<>>,
             dbQueue' = Tail(dbQueue), saved' = saved,
             outcome = "ok" => ~dbQueue[1].fire
      PROVE  (\A c \in Clients : Request(c)') /\ (\A i \in DOMAIN dbQueue' : Queued(i)')
  BY <1>1, <1>5, WorkInStep
<1>6. CASE FailUpsert
  <2>1. /\ dbQueue # <<>> /\ dbQueue' = Tail(dbQueue) /\ Resolve(dbQueue[1].by, "fail") /\ saved' = saved
    BY <1>6 DEF FailUpsert, WorkerReady, history, IInv, TypeOK
  <2> QED BY <1>5, <2>1
<1>7. CASE RunDelete
  <2>1. /\ dbQueue # <<>> /\ dbQueue \in Seq(Task) /\ dbQueue' = Tail(dbQueue) /\ saved' = saved
        /\ dbQueue[1].op = "delete"
        /\ Resolve(dbQueue[1].by, IF db[dbQueue[1].id] = Absent THEN "fail" ELSE "ok")
    BY <1>7 DEF RunDelete, WorkerReady, history, IInv, TypeOK
  <2>2. ~dbQueue[1].fire
    <3>1. 1 \in DOMAIN dbQueue
      BY <2>1
    <3>2. Queued(1)
      BY <3>1 DEF IInv
    <3> QED BY <2>1, <3>2 DEF Queued
  <2> QED BY <1>5, <2>1, <2>2
<1>8. CASE FailDelete
  <2>1. /\ dbQueue # <<>> /\ dbQueue' = Tail(dbQueue) /\ Resolve(dbQueue[1].by, "fail") /\ saved' = saved
    BY <1>8 DEF FailDelete, WorkerReady, history, IInv, TypeOK
  <2> QED BY <1>5, <2>1
<1>9. CASE RunEvent
  <2>1. /\ dbQueue # <<>> /\ dbQueue \in Seq(Task) /\ dbQueue' = Tail(dbQueue) /\ saved' = saved
        /\ dbQueue[1].op = "event" /\ http' = http
    BY <1>9 DEF RunEvent, WorkerReady, IInv, TypeOK
  <2>2. dbQueue[1].by = NoClient /\ ~dbQueue[1].fire
    <3>1. 1 \in DOMAIN dbQueue
      BY <2>1
    <3>2. Queued(1)
      BY <3>1 DEF IInv
    <3> QED BY <2>1, <3>2 DEF Queued
  <2>3. Resolve(dbQueue[1].by, "ok")
    BY <2>1, <2>2 DEF Resolve
  <2> QED BY <1>5, <2>1, <2>2, <2>3
<1>10. ASSUME NEW c \in Clients, Arrive(c) \/ Proceed(c)
       PROVE  (\A n \in Clients : Request(n)') /\ (\A i \in DOMAIN dbQueue' : Queued(i)')
  BY <1>1, <1>10, RequestInStep
<1>11. CASE Crash
  <2>1. dbQueue' = <<>> /\ \A c \in Clients : http'[c] = Idle
    BY <1>11 DEF Crash
  <2> QED BY <2>1 DEF Idle, Request
<1>12. CASE \/ \E S \in SUBSET Alerts : CheckAlerts(S)
            \/ ExpireTimedOut
            \/ \E t \in expiring : WriteExpired(t) \/ FailExpired(t)
            \/ \E a \in Timed : PassTime(a)
            \/ UNCHANGED vars
  BY <1>2, <1>12 DEF CheckAlerts, ExpireTimedOut, WriteExpired, FailExpired, PassTime, vars,
                     store, history, counters
<1> QED BY <1>3, <1>4, <1>6, <1>7, <1>8, <1>9, <1>10, <1>11, <1>12
        DEF Next, Evaluator, Worker, Refuse

\* The evaluator's writes are nobody's request.
LEMMA StepBatch ==
    ASSUME IInv, [Next]_vars
    PROVE  \A t \in batch' : t.by = NoClient /\ t.op = "upsert"
<1>1. ASSUME batch' \subseteq batch PROVE \A t \in batch' : t.by = NoClient /\ t.op = "upsert"
  BY <1>1 DEF IInv
<1>2. ASSUME NEW S \in SUBSET Alerts, CheckAlerts(S)
      PROVE  \A t \in batch' : t.by = NoClient /\ t.op = "upsert"
  BY <1>2 DEF CheckAlerts, Upsert
<1>3. ASSUME NEW c \in Clients, Arrive(c) \/ Proceed(c) PROVE batch' \subseteq batch
  BY <1>3 DEF Arrive, Create, CommitCreated, Update, Delete, Begin, Proceed, CallSync, ResumeOk,
              ResumeFail, TryTrigger, ArmDependents
<1>4. CASE Evaluator \/ Worker \/ Refuse \/ ExpireTimedOut \/ (\E a \in Timed : PassTime(a)) \/ Crash
           \/ UNCHANGED vars
  BY <1>1, <1>4 DEF Evaluator, EnqueueWrite, Worker, RunUpsert, RunDelete, RunEvent, WriteExpired,
                    Refuse, FailUpsert, FailDelete, FailExpired, ExpireTimedOut, PassTime, Crash, vars
<1> QED BY <1>1, <1>2, <1>3, <1>4 DEF Next

\* A report that reaches the notification queue belongs to a saved trigger.
LEMMA StepTold ==
    ASSUME IInv, [Next]_vars
    PROVE  ToldWasSaved'
<1>1. ASSUME told' = told, saved \subseteq saved' PROVE ToldWasSaved'
  BY <1>1 DEF IInv, ToldWasSaved
<1>2. CASE RunEvent
  <2>1. /\ dbQueue # <<>> /\ dbQueue \in Seq(Task) /\ dbQueue[1].op = "event" /\ saved' = saved
        /\ told' = [told EXCEPT ![dbQueue[1].id] = @ + 1]
    <3>1. dbQueue \in Seq(Task) /\ dbQueue # <<>>
      BY <1>2 DEF RunEvent, WorkerReady, IInv, TypeOK
    <3>2. Head(dbQueue) = dbQueue[1]
      BY <3>1
    <3> QED BY <1>2, <3>1, <3>2 DEF RunEvent, WorkerReady
  <2>2. dbQueue[1].id \in saved
    <3>1. 1 \in DOMAIN dbQueue
      BY <2>1
    <3>2. Queued(1)
      BY <3>1 DEF IInv
    <3> QED BY <2>1, <3>2 DEF Queued
  <2>3. told \in [Alerts -> Nat] /\ \A a \in Alerts : told[a] > 0 => a \in saved
    BY DEF IInv, TypeOK, ToldWasSaved
  <2>4. \A a \in Alerts : a # dbQueue[1].id => told'[a] = told[a]
    BY <2>1, <2>3
  <2> QED BY <2>1, <2>2, <2>3, <2>4 DEF ToldWasSaved
<1>3. CASE RunUpsert
  BY <1>1, <1>3 DEF RunUpsert
<1>4. ASSUME NEW c \in Clients, Arrive(c) \/ Proceed(c) PROVE told' = told /\ saved' = saved
  BY <1>4 DEF Arrive, Create, CommitCreated, Update, Delete, Begin, Proceed, CallSync, ResumeOk,
              ResumeFail, TryTrigger, ArmDependents, history
<1>5. CASE \/ \E S \in SUBSET Alerts : CheckAlerts(S)
           \/ Evaluator \/ RunDelete \/ (\E t \in expiring : WriteExpired(t))
           \/ Refuse \/ ExpireTimedOut \/ (\E a \in Timed : PassTime(a)) \/ Crash
           \/ UNCHANGED vars
  BY <1>1, <1>5 DEF CheckAlerts, Evaluator, EnqueueWrite, RunDelete, WriteExpired, Refuse, FailUpsert,
                    FailDelete, FailExpired, ExpireTimedOut, PassTime, Crash, vars, history
<1> QED BY <1>1, <1>2, <1>3, <1>4, <1>5 DEF Next, Worker

\* The invariant holds in every state of every behaviour.
THEOREM Invariance == Spec => []IInv
<1>1. IInv /\ [Next]_vars => IInv'
  <2> SUFFICES ASSUME IInv, [Next]_vars PROVE IInv'
    OBVIOUS
  <2> QED BY StepTyped, StepInStep, StepBatch, StepTold DEF IInv
<1> QED BY InitInv, <1>1, PTL DEF Spec

\* Every variable keeps its type.
THEOREM TypeCorrect == Spec => []TypeOK
<1>1. IInv => TypeOK
  BY DEF IInv
<1> QED BY Invariance, <1>1, PTL

\* No user is told of a trigger the database has not accepted, whatever requests,
\* failed writes and restarts come in between.
THEOREM ToldOnlyIfSaved == Spec => []ToldWasSaved
<1>1. IInv => ToldWasSaved
  BY DEF IInv
<1> QED BY Invariance, <1>1, PTL

\* A thread blocked on a write has exactly that write in the worker's queue.
THEOREM BlockedIsServed == Spec => []BlockedHasTask
<1>1. IInv => BlockedHasTask
  <2> SUFFICES ASSUME IInv PROVE BlockedHasTask
    OBVIOUS
  <2>1. ASSUME NEW c \in Clients, http[c].at = "wait"
        PROVE  \E i \in DOMAIN dbQueue : dbQueue[i] = Head(http[c].todo)
    <3>1. Request(c) /\ http[c] \in HttpState
      BY DEF IInv, TypeOK
    <3>2. http[c].todo \in Seq(Task) /\ http[c].todo # <<>>
      BY <2>1, <3>1 DEF Request, HttpState
    <3>3. Head(http[c].todo) = http[c].todo[1]
      BY <3>2
    <3> QED BY <2>1, <3>1, <3>3 DEF Request
  <2>2. ASSUME NEW i \in DOMAIN dbQueue, dbQueue[i].by # NoClient
        PROVE  /\ http[dbQueue[i].by].at = "wait"
               /\ \A j \in DOMAIN dbQueue : dbQueue[j].by = dbQueue[i].by => i = j
    BY <2>2 DEF IInv, Queued
  <2> QED BY <2>1, <2>2 DEF BlockedHasTask
<1> QED BY Invariance, <1>1, PTL

-----------------------------------------------------------------------------
(* What holds as long as no write was refused and nothing was restarted.    *)

Clean == fails = 0 /\ crashes = 0

\* A request deletes or it writes, never both; nothing has to be taken back but a
\* delete that found no row; and only an evaluation at creation fires.
ReqKinds(c) ==
    LET r == http[c]
    IN  /\ r.op # "undo"
        /\ r.at = "fail" => r.op = "delete"
        /\ r.op = "delete" => Len(r.todo) = 1
        /\ \A i \in DOMAIN r.todo : /\ r.todo[i].op = "delete" <=> r.op = "delete"
                                    /\ r.todo[i].fire => r.op \in {"try", "arm"}

\* No refused write and no restart so far means none in this step.
LEMMA CleanStep ==
    ASSUME IInv, [Next]_vars, Clean'
    PROVE  /\ Clean
           /\ \/ \E S \in SUBSET Alerts : CheckAlerts(S)
              \/ Evaluator \/ Worker \/ ExpireTimedOut
              \/ \E c \in Clients : Arrive(c) \/ Proceed(c)
              \/ \E a \in Timed : PassTime(a)
              \/ UNCHANGED vars
<1>1. fails \in Nat /\ crashes \in Nat /\ fails' = 0 /\ crashes' = 0
  BY DEF IInv, TypeOK, Clean
<1>2. ~Refuse /\ ~Crash
  <2>1. fails + 1 # 0 /\ crashes + 1 # 0
    BY <1>1
  <2> QED BY <1>1, <2>1 DEF Refuse, FailUpsert, FailDelete, FailExpired, Crash
<1>3. fails' = fails /\ crashes' = crashes
  <2>1. ASSUME NEW S \in SUBSET Alerts, CheckAlerts(S) PROVE fails' = fails /\ crashes' = crashes
    BY <2>1 DEF CheckAlerts
  <2>2. CASE Evaluator
    BY <2>2 DEF Evaluator, EnqueueWrite, counters
  <2>3. CASE Worker
    BY <2>3 DEF Worker, RunUpsert, RunDelete, RunEvent, WriteExpired, counters
  <2>4. CASE ExpireTimedOut \/ UNCHANGED vars \/ \E a \in Timed : PassTime(a)
    BY <2>4 DEF ExpireTimedOut, PassTime, vars, counters
  <2>5. ASSUME NEW c \in Clients, Arrive(c) PROVE fails' = fails /\ crashes' = crashes
    BY <2>5 DEF Arrive, Create, CommitCreated, Update, Delete, Begin
  <2>6. ASSUME NEW c \in Clients, Proceed(c) PROVE fails' = fails /\ crashes' = crashes
    BY <2>6 DEF Proceed, CallSync, ResumeOk, ResumeFail, TryTrigger, ArmDependents, counters
  <2> QED BY <1>2, <2>1, <2>2, <2>3, <2>4, <2>5, <2>6 DEF Next
<1> QED BY <1>1, <1>2, <1>3 DEF Next, Clean

\* Everything but the request c works on.
Others(c) == \A n \in Clients \ {c} : http'[n] = http[n]

\* The request c goes on as op, at, with the writes todo; or it is over.
Goes(c, op, at, todo) ==
    \/ http'[c] = Idle
    \/ http'[c].op = op /\ http'[c].at = at /\ http'[c].todo = todo

\* The next step of a request when nothing was refused.
Moves(c) ==
    LET r == http[c]
        t == r.todo[1]
        a == t.id
        arm == Dependents(a)
        next == IF a \in past THEN Expired(mem[a])
                ELSE IF mem[a].gate THEN Ungated(mem[a]) ELSE Triggered(mem[a])
        fire == a \notin past /\ ~mem[a].gate
    IN  \/ /\ r.at = "call" /\ mem' = mem /\ dbQueue' = Append(dbQueue, t)
           /\ http'[c].op = r.op /\ http'[c].at = "wait" /\ http'[c].todo = r.todo
        \/ /\ r.at = "ok" /\ mem' = mem /\ dbQueue' = dbQueue
           /\ Goes(c, r.op, "call", Tail(r.todo)) /\ (r.op \in {"try", "delete"} => http'[c] = Idle)
        \/ /\ r.at = "ok" /\ mem' = mem /\ dbQueue' = dbQueue
           /\ r.op = "create" /\ Goes(c, "try", "lock", r.todo)
        \/ /\ r.at = "ok" /\ mem' = mem /\ dbQueue' = Append(dbQueue, Event(a))
           /\ r.op = "try" /\ t.fire /\ Goes(c, "arm", "lock", r.todo)
        \/ /\ mem' = [mem EXCEPT ![a] = t.undo] /\ dbQueue' = dbQueue
           /\ r.op = "delete" /\ http'[c] = Idle
        \/ /\ mem' = mem /\ dbQueue' = dbQueue /\ r.op = "try" /\ http'[c] = Idle
        \/ /\ mem[a].status = "active"
           /\ mem' = [mem EXCEPT ![a] = next] /\ dbQueue' = dbQueue
           /\ r.op = "try" /\ Goes(c, "try", "call", <<Upsert(a, mem[a], next, fire, c)>>)
        \/ /\ mem' = [b \in Alerts |-> IF b \in arm THEN Armed(mem[b]) ELSE mem[b]]
           /\ dbQueue' = dbQueue /\ r.op = "arm" /\ r.at = "lock"
           /\ \/ http'[c] = Idle
              \/ /\ http'[c].op = "arm" /\ http'[c].at = "call"
                 /\ \A i \in DOMAIN http'[c].todo : LET u == http'[c].todo[i]
                                                    IN  u.op = "upsert" /\ ~u.fire

\* How Continue leaves the requests.
LEMMA GoesOn ==
    ASSUME IInv, NEW c \in Clients, NEW op, NEW at, NEW todo, NEW made, Continue(c, op, at, todo, made)
    PROVE  /\ Others(c) /\ Goes(c, op, at, todo)
           /\ todo = <<>> => http'[c] = Idle
<1>1. http \in [Clients -> HttpState]
  BY DEF IInv, TypeOK
<1>2. CASE todo = <<>>
  BY <1>1, <1>2 DEF Continue, Others, Goes
<1>3. CASE todo # <<>>
  <2>1. http' = [http EXCEPT ![c] = [op |-> op, at |-> at, todo |-> todo, made |-> made]]
    BY <1>3 DEF Continue
  <2>2. http'[c] = [op |-> op, at |-> at, todo |-> todo, made |-> made]
    BY <1>1, <2>1
  <2> QED BY <1>1, <1>3, <2>1, <2>2 DEF Others, Goes
<1> QED BY <1>2, <1>3

\* A request in progress makes one of these moves, and only itself and the cache move.
LEMMA MovesOn ==
    ASSUME IInv, NEW c \in Clients, ReqKinds(c), Proceed(c)
    PROVE  /\ Moves(c) /\ Others(c)
           /\ http[c].op # "idle" /\ http[c].todo # <<>>
           /\ http[c].todo[1] \in Task
           /\ UNCHANGED <<db, batch, expiring, past, told, edited, used>>
<1> DEFINE r == http[c]
           t == Head(r.todo)
<1>1. /\ http \in [Clients -> HttpState] /\ r \in HttpState /\ Request(c)

  BY DEF IInv, TypeOK
<1>2. r.op # "idle" /\ UNCHANGED <<db, batch, expiring, past, told, edited, used>>
  BY <1>1 DEF Proceed, CallSync, ResumeOk, ResumeFail, TryTrigger, ArmDependents, Request, history, store
<1>3. r.todo \in Seq(Task) /\ r.todo # <<>>
  BY <1>1, <1>2 DEF Request, HttpState
<1>4. t = r.todo[1] /\ r.todo[1] \in Task /\ Len(r.todo) \in Nat
  BY <1>3
<1>5. Moves(c) /\ Others(c)
  <2>1. CASE CallSync(c)
    <3>1. /\ http' = [http EXCEPT ![c].at = "wait"] /\ mem' = mem /\ r.at = "call"
          /\ dbQueue' = Append(dbQueue, r.todo[1])
      BY <1>4, <2>1 DEF CallSync, store
    <3>2. Others(c) /\ http'[c] = [r EXCEPT !.at = "wait"]
      BY <1>1, <3>1 DEF Others
    <3>3. http'[c].op = r.op /\ http'[c].at = "wait" /\ http'[c].todo = r.todo
      BY <1>1, <3>2 DEF HttpState
    <3> QED BY <3>1, <3>2, <3>3 DEF Moves
  <2>2. CASE ResumeOk(c)
    <3>1. r.at = "ok" /\ mem' = mem
      BY <2>2 DEF ResumeOk, store
    <3>2. CASE /\ r.op \in {"create", "update", "delete", "arm", "undo"}
               /\ Continue(c, r.op, "call", Tail(r.todo), <<>>)
               /\ UNCHANGED dbQueue
      <4>1. r.op = "delete" => Tail(r.todo) = <<>>
        BY <1>3 DEF ReqKinds
      <4>2. Others(c) /\ Goes(c, r.op, "call", Tail(r.todo)) /\ (r.op = "delete" => http'[c] = Idle)
        BY <3>2, <4>1, GoesOn
      <4> QED BY <3>1, <3>2, <4>2 DEF Moves
    <3>3. CASE r.op = "create" /\ Continue(c, "try", "lock", r.todo, <<>>) /\ UNCHANGED dbQueue
      <4>1. Others(c) /\ Goes(c, "try", "lock", r.todo)
        BY <3>3, GoesOn
      <4> QED BY <3>1, <3>3, <4>1 DEF Moves
    <3>4. CASE /\ r.op = "commit"
               /\ Continue(c, "commit", "call", Tail(r.todo), Append(r.made, t.id))
               /\ UNCHANGED dbQueue
      <4>1. Others(c) /\ Goes(c, r.op, "call", Tail(r.todo))
        BY <3>4, GoesOn
      <4> QED BY <3>1, <3>4, <4>1 DEF Moves
    <3>5. CASE /\ r.op = "try"
               /\ Continue(c, "arm", "lock", IF t.fire THEN r.todo ELSE <<>>, <<>>)
               /\ dbQueue' = IF t.fire THEN Append(dbQueue, Event(t.id)) ELSE dbQueue
      <4>1. CASE t.fire
        <5>1. Others(c) /\ Goes(c, "arm", "lock", r.todo)
          BY <3>5, <4>1, GoesOn
        <5> QED BY <1>4, <3>1, <3>5, <4>1, <5>1 DEF Moves
      <4>2. CASE ~t.fire
        <5>1. Others(c) /\ http'[c] = Idle
          BY <3>5, <4>2, GoesOn
        <5> QED BY <3>1, <3>5, <4>2, <5>1 DEF Moves, Goes
      <4> QED BY <4>1, <4>2
    <3> QED BY <2>2, <3>2, <3>3, <3>4, <3>5 DEF ResumeOk
  <2>3. CASE ResumeFail(c)
    <3>1. r.op = "delete" /\ dbQueue' = dbQueue
      BY <2>3 DEF ResumeFail, ReqKinds
    <3>2. mem' = [mem EXCEPT ![t.id] = t.undo] /\ Continue(c, r.op, "call", <<>>, <<>>)
      BY <2>3, <3>1 DEF ResumeFail
    <3>3. Others(c) /\ http'[c] = Idle
      BY <3>2, GoesOn
    <3> QED BY <1>4, <3>1, <3>2, <3>3 DEF Moves
  <2>4. CASE TryTrigger(c)
    <3> DEFINE a == t.id
               next == IF a \in past THEN Expired(mem[a])
                       ELSE IF mem[a].gate THEN Ungated(mem[a]) ELSE Triggered(mem[a])
               fire == a \notin past /\ ~mem[a].gate
    <3>1. r.op = "try" /\ dbQueue' = dbQueue
      BY <2>4 DEF TryTrigger
    <3>2. CASE mem' = mem /\ Continue(c, "try", "call", <<>>, <<>>)
      <4>1. Others(c) /\ http'[c] = Idle
        BY <3>2, GoesOn
      <4> QED BY <3>1, <3>2, <4>1 DEF Moves
    <3>3. CASE /\ mem[a].status = "active"
               /\ mem' = [mem EXCEPT ![a] = next]
               /\ Continue(c, "try", "call", <<Upsert(a, mem[a], next, fire, c)>>, <<>>)
      <4>1. Others(c) /\ Goes(c, "try", "call", <<Upsert(a, mem[a], next, fire, c)>>)
        <5> HIDE DEF next, fire, a
        <5> QED BY <3>3, GoesOn
      <4> QED BY <1>4, <3>1, <3>3, <4>1 DEF Moves
    <3> QED BY <2>4, <3>2, <3>3 DEF TryTrigger
  <2>5. CASE ArmDependents(c)
    <3> DEFINE arm == Dependents(t.id)
               todo(order) == [i \in 1..Cardinality(arm) |->
                                 Upsert(order[i], mem[order[i]], Armed(mem[order[i]]), FALSE, c)]
    <3>1. /\ r.op = "arm" /\ r.at = "lock" /\ dbQueue' = dbQueue
          /\ mem' = [b \in Alerts |-> IF b \in arm THEN Armed(mem[b]) ELSE mem[b]]
      BY <2>5 DEF ArmDependents
    <3>2. PICK order \in Orders(arm) : Continue(c, "arm", "call", todo(order), <<>>)
      BY <2>5 DEF ArmDependents
    <3>3. \A i \in DOMAIN todo(order) : todo(order)[i].op = "upsert" /\ ~todo(order)[i].fire
      BY DEF Upsert
    <3> HIDE DEF todo
    <3>4. Others(c) /\ Goes(c, "arm", "call", todo(order))
      BY <3>2, GoesOn
    <3> QED BY <1>4, <3>1, <3>3, <3>4 DEF Moves, Goes
  <2> QED BY <2>1, <2>2, <2>3, <2>4, <2>5 DEF Proceed
<1> QED BY <1>2, <1>3, <1>4, <1>5

\* A request that comes in: nothing of it fires, and a delete is one write.
LEMMA ArrivesOn ==
    ASSUME IInv, NEW c \in Clients, Arrive(c)
    PROVE  /\ Others(c) /\ http[c].op = "idle"
           /\ http'[c].op \in {"create", "commit", "update", "delete"} /\ http'[c].at = "call"
           /\ UNCHANGED <<db, dbQueue, batch, expiring, past, told>>
           /\ \/ \E a \in Alerts : Delete(c, a) /\ http'[c].op = "delete" /\ http'[c].todo = <<Erase(a, mem[a], c)>>
              \/ /\ http'[c].op # "delete"
                 /\ \A i \in DOMAIN http'[c].todo : LET u == http'[c].todo[i]
                                                    IN  u.op = "upsert" /\ ~u.fire
<1>1. http \in [Clients -> HttpState]
  BY DEF IInv, TypeOK
<1>2. ASSUME NEW op, NEW todo, Begin(c, op, todo)
      PROVE  /\ Others(c) /\ http[c].op = "idle"
             /\ http'[c].op = op /\ op \in {"create", "commit", "update", "delete"}
             /\ http'[c].at = "call" /\ http'[c].todo = todo
             /\ UNCHANGED <<db, dbQueue, batch, expiring, past, told>>
  <2>1. http' = [http EXCEPT ![c] = [op |-> op, at |-> "call", todo |-> todo, made |-> <<>>]]
    BY <1>2 DEF Begin
  <2>2. http'[c] = [op |-> op, at |-> "call", todo |-> todo, made |-> <<>>]
    BY <1>1, <2>1
  <2> QED BY <1>1, <1>2, <2>1, <2>2, StoreAssumption DEF Begin, Others
<1>3. ASSUME NEW a \in Alerts, NEW p \in Alerts \cup {NoAlert}, Create(c, a, p)
      PROVE  \E todo : /\ Begin(c, "create", todo)
                       /\ \A i \in DOMAIN todo : todo[i].op = "upsert" /\ ~todo[i].fire
  <2> DEFINE first == Upsert(p, mem[p], [mem[p] EXCEPT !.chained = TRUE], FALSE, c)
             own == Upsert(a, Absent, NewRow(p), FALSE, c)
  <2>1. \E todo \in {<<first, own>>, <<own>>} : Begin(c, "create", todo)
    BY <1>3 DEF Create
  <2>2. \A e \in {first, own} : e.op = "upsert" /\ ~e.fire
    BY DEF Upsert
  <2> HIDE DEF first, own
  <2> QED BY <2>1, <2>2
<1>4. ASSUME NEW S \in SUBSET Repeating, CommitCreated(c, S)
      PROVE  \E todo : /\ Begin(c, "commit", todo)
                       /\ \A i \in DOMAIN todo : todo[i].op = "upsert" /\ ~todo[i].fire
  <2> DEFINE row == [status |-> "active", gate |-> FALSE, dep |-> NoAlert, chained |-> FALSE]
             todo(built) == [i \in 1..Len(built) |-> Upsert(built[i], Absent, row, FALSE, c)]
  <2>1. PICK built \in Orders(S) : Begin(c, "commit", todo(built))
    BY <1>4 DEF CommitCreated
  <2>2. \A i \in DOMAIN todo(built) : todo(built)[i].op = "upsert" /\ ~todo(built)[i].fire
    BY DEF Upsert
  <2> HIDE DEF todo
  <2> QED BY <2>1, <2>2
<1>5. ASSUME NEW a \in Alerts, NEW s \in Status, Update(c, a, s)
      PROVE  \E todo : /\ Begin(c, "update", todo)
                       /\ \A i \in DOMAIN todo : todo[i].op = "upsert" /\ ~todo[i].fire
  <2> DEFINE own == Upsert(a, mem[a], [mem[a] EXCEPT !.status = s], FALSE, c)
  <2>1. Begin(c, "update", <<own>>)
    BY <1>5 DEF Update
  <2>2. own.op = "upsert" /\ ~own.fire
    BY DEF Upsert
  <2> HIDE DEF own
  <2>3. \A i \in DOMAIN <<own>> : <<own>>[i] = own
    OBVIOUS
  <2> QED BY <2>1, <2>2, <2>3
<1>6. ASSUME NEW a \in Alerts, Delete(c, a)
      PROVE  Begin(c, "delete", <<Erase(a, mem[a], c)>>)
  BY <1>6 DEF Delete
<1>7. ASSUME NEW op \in {"create", "commit", "update"}, NEW todo, Begin(c, op, todo),
             \A i \in DOMAIN todo : todo[i].op = "upsert" /\ ~todo[i].fire
      PROVE  /\ Others(c) /\ http[c].op = "idle"
             /\ http'[c].op \in {"create", "commit", "update", "delete"} /\ http'[c].at = "call"
             /\ UNCHANGED <<db, dbQueue, batch, expiring, past, told>>
             /\ http'[c].op # "delete"
             /\ \A i \in DOMAIN http'[c].todo : LET u == http'[c].todo[i]
                                                IN  u.op = "upsert" /\ ~u.fire
  <2>1. /\ Others(c) /\ http[c].op = "idle"
        /\ http'[c].op = op /\ http'[c].at = "call" /\ http'[c].todo = todo
        /\ UNCHANGED <<db, dbQueue, batch, expiring, past, told>>
    BY <1>2, <1>7
  <2> QED BY <1>7, <2>1
<1>8. CASE \/ \E a \in Alerts, p \in Alerts \cup {NoAlert} : Create(c, a, p)
           \/ \E S \in SUBSET Repeating : CommitCreated(c, S)
           \/ \E a \in Alerts, s \in Status : Update(c, a, s)
  <2>1. \E op \in {"create", "commit", "update"} : \E todo :
           Begin(c, op, todo) /\ \A i \in DOMAIN todo : todo[i].op = "upsert" /\ ~todo[i].fire
    BY <1>3, <1>4, <1>5, <1>8
  <2> QED BY <1>7, <2>1
<1>9. ASSUME NEW a \in Alerts, Delete(c, a)
      PROVE  /\ Others(c) /\ http[c].op = "idle"
             /\ http'[c].op = "delete" /\ http'[c].at = "call"
             /\ UNCHANGED <<db, dbQueue, batch, expiring, past, told>>
             /\ http'[c].todo = <<Erase(a, mem[a], c)>>
  BY <1>2, <1>6, <1>9
<1> QED BY <1>8, <1>9 DEF Arrive

\* The requests go on with what they were doing: all but where they stand.
SameWork == \A c \in Clients : http'[c].op = http[c].op /\ http'[c].todo = http[c].todo

\* A step of the evaluator, of the worker or of time leaves the requests their work.
LEMMA WorkStays ==
    ASSUME IInv, \A c \in Clients : ReqKinds(c),
           \/ \E S \in SUBSET Alerts : CheckAlerts(S)
           \/ Evaluator \/ Worker \/ ExpireTimedOut
           \/ \E a \in Timed : PassTime(a)
           \/ UNCHANGED vars
    PROVE  /\ SameWork
           /\ \A c \in Clients : /\ http'[c].at = "fail" => http'[c].op = "delete"
                                 /\ http'[c].at = "lock" => http[c].at = "lock"
<1>1. http \in [Clients -> HttpState] /\ \A c \in Clients : http[c].at = "fail" => http[c].op = "delete"
  BY DEF IInv, TypeOK, ReqKinds
<1>2. CASE http' = http
  BY <1>1, <1>2 DEF SameWork
<1>3. ASSUME RunUpsert \/ RunDelete, NEW outcome \in {"ok", "fail"}, Resolve(Head(dbQueue).by, outcome),
             outcome = "fail" => Head(dbQueue).op = "delete"
      PROVE  /\ SameWork
             /\ \A c \in Clients : /\ http'[c].at = "fail" => http'[c].op = "delete"
                                   /\ http'[c].at = "lock" => http[c].at = "lock"
  <2>1. dbQueue # <<>> /\ dbQueue \in Seq(Task)
    BY <1>3 DEF RunUpsert, RunDelete, WorkerReady, IInv, TypeOK
  <2>2. 1 \in DOMAIN dbQueue /\ Head(dbQueue) = dbQueue[1] /\ dbQueue[1] \in Task
    BY <2>1
  <2>3. dbQueue[1].by = NoClient \/ (dbQueue[1].by \in Clients /\ http[dbQueue[1].by].todo[1] = dbQueue[1]
                                        /\ http[dbQueue[1].by].at = "wait")
    BY <2>2 DEF IInv, Queued, Task
  <2>4. CASE dbQueue[1].by = NoClient
    BY <1>2, <1>3, <2>2, <2>4 DEF Resolve
  <2>5. CASE dbQueue[1].by # NoClient
    <3> DEFINE c == dbQueue[1].by
    <3>1. c \in Clients /\ http[c].todo[1] = dbQueue[1] /\ http[c].at = "wait"
      BY <2>3, <2>5
    <3>2. http' = [http EXCEPT ![c].at = outcome]
      BY <1>3, <2>2, <2>5 DEF Resolve
    <3>3. /\ \A n \in Clients \ {c} : http'[n] = http[n]
          /\ http'[c] = [http[c] EXCEPT !.at = outcome]
      BY <1>1, <3>1, <3>2
    <3>4. http'[c].op = http[c].op /\ http'[c].todo = http[c].todo /\ http'[c].at = outcome
      <4>1. http[c] \in HttpState
        BY <1>1, <3>1
      <4> QED BY <3>3, <4>1 DEF HttpState
    <3>5. outcome = "fail" => http[c].op = "delete"
      <4>1. Request(c) /\ ReqKinds(c) /\ http[c] \in HttpState
        BY <1>1, <3>1 DEF IInv
      <4>2. 1 \in DOMAIN http[c].todo
        BY <3>1, <4>1 DEF Request, HttpState
      <4> QED BY <1>3, <2>2, <3>1, <4>1, <4>2 DEF ReqKinds
    <3> HIDE DEF c
    <3> QED BY <1>1, <3>1, <3>3, <3>4, <3>5 DEF SameWork
  <2> QED BY <2>4, <2>5
<1>4. CASE RunUpsert
  <2>1. Resolve(Head(dbQueue).by, "ok")
    BY <1>4 DEF RunUpsert
  <2> QED BY <1>3, <1>4, <2>1
<1>5. CASE RunDelete
  <2>1. \E outcome \in {"ok", "fail"} : Resolve(Head(dbQueue).by, outcome)
    BY <1>5 DEF RunDelete
  <2>2. Head(dbQueue).op = "delete"
    BY <1>5 DEF RunDelete, WorkerReady
  <2> QED BY <1>3, <1>5, <2>1, <2>2
<1>6. CASE \/ \E S \in SUBSET Alerts : CheckAlerts(S)
           \/ Evaluator \/ RunEvent \/ (\E t \in expiring : WriteExpired(t)) \/ ExpireTimedOut
           \/ \E a \in Timed : PassTime(a)
           \/ UNCHANGED vars
  BY <1>2, <1>6 DEF CheckAlerts, Evaluator, EnqueueWrite, RunEvent, WriteExpired, ExpireTimedOut, PassTime, vars
<1> QED BY <1>4, <1>5, <1>6 DEF Worker

\* Each request keeps to its kind.
LEMMA ReqKept ==
    ASSUME IInv, [Next]_vars, Clean', \A c \in Clients : ReqKinds(c)
    PROVE  \A c \in Clients : ReqKinds(c)'
<1>1. http \in [Clients -> HttpState]
  BY DEF IInv, TypeOK
<1>2. CASE SameWork /\ \A c \in Clients : http'[c].at = "fail" => http'[c].op = "delete"
  BY <1>2 DEF SameWork, ReqKinds
<1>3. ASSUME NEW c \in Clients, Others(c), ReqKinds(c)' PROVE \A n \in Clients : ReqKinds(n)'
  <2> SUFFICES ASSUME NEW n \in Clients, n # c PROVE ReqKinds(n)'
    BY <1>3
  <2>1. http'[n] = http[n] /\ ReqKinds(n)
    BY <1>3 DEF Others
  <2> QED BY <2>1 DEF ReqKinds
<1>4. ASSUME NEW c \in Clients, Arrive(c) PROVE \A n \in Clients : ReqKinds(n)'
  <2>1. /\ Others(c) /\ http'[c].op \in {"create", "commit", "update", "delete"} /\ http'[c].at = "call"
        /\ \/ \E a \in Alerts : Delete(c, a) /\ http'[c].op = "delete" /\ http'[c].todo = <<Erase(a, mem[a], c)>>
           \/ /\ http'[c].op # "delete"
              /\ \A i \in DOMAIN http'[c].todo : LET u == http'[c].todo[i]
                                                 IN  u.op = "upsert" /\ ~u.fire
    BY <1>4, ArrivesOn
  <2>2. ASSUME NEW a \in Alerts, http'[c].op = "delete", http'[c].todo = <<Erase(a, mem[a], c)>>
        PROVE  ReqKinds(c)'
    <3> DEFINE e == Erase(a, mem[a], c)
    <3>1. e.op = "delete" /\ ~e.fire
      BY DEF Erase
    <3>2. Len(<<e>>) = 1 /\ DOMAIN <<e>> = {1} /\ <<e>>[1] = e
      OBVIOUS
    <3> HIDE DEF e
    <3> QED BY <2>1, <2>2, <3>1, <3>2 DEF ReqKinds, e
  <2>3. ReqKinds(c)'
    BY <2>1, <2>2 DEF ReqKinds
  <2> QED BY <1>3, <2>1, <2>3
<1>5. ASSUME NEW c \in Clients, Proceed(c) PROVE \A n \in Clients : ReqKinds(n)'
  <2>1. Moves(c) /\ Others(c) /\ http[c].op # "idle" /\ http[c].todo # <<>> /\ ReqKinds(c)
    BY <1>5, MovesOn
  <2>2. http[c].todo \in Seq(Task)
    BY <1>1 DEF HttpState
  <2>3. ASSUME http'[c] = Idle PROVE ReqKinds(c)'
    BY <2>3 DEF Idle, ReqKinds
  <2>4. ASSUME http'[c].op = http[c].op, http[c].op # "delete", http'[c].at = "call", http'[c].todo = Tail(http[c].todo)
        PROVE  ReqKinds(c)'
    <3>1. \A i \in DOMAIN http'[c].todo : i + 1 \in DOMAIN http[c].todo /\ http'[c].todo[i] = http[c].todo[i + 1]
      BY <2>1, <2>2, <2>4, TailAt
    <3> QED BY <2>1, <2>4, <3>1 DEF ReqKinds
  <2>5. ASSUME http[c].op \in {"create", "try"}, http'[c].op \in {"try", "arm"},
               http'[c].at = "lock", http'[c].todo = http[c].todo
        PROVE  ReqKinds(c)'
    BY <2>1, <2>5 DEF ReqKinds
  <2>6. ASSUME NEW a, NEW old, NEW new, NEW fire,
               http'[c].op = "try", http'[c].at = "call", http'[c].todo = <<Upsert(a, old, new, fire, c)>>
        PROVE  ReqKinds(c)'
    <3> DEFINE e == Upsert(a, old, new, fire, c)
    <3>1. e.op = "upsert"
      BY DEF Upsert
    <3>2. DOMAIN <<e>> = {1} /\ <<e>>[1] = e
      OBVIOUS
    <3> HIDE DEF e
    <3> QED BY <2>6, <3>1, <3>2 DEF ReqKinds, e
  <2>7. ReqKinds(c)'
    <3>1. CASE http'[c].op = http[c].op /\ http'[c].at = "wait" /\ http'[c].todo = http[c].todo
      BY <2>1, <3>1 DEF ReqKinds
    <3>2. CASE http'[c].op = "arm" /\ http'[c].at = "call"
               /\ \A i \in DOMAIN http'[c].todo : LET u == http'[c].todo[i]
                                                  IN  u.op = "upsert" /\ ~u.fire
      BY <3>2 DEF ReqKinds
    <3> QED BY <2>1, <2>3, <2>4, <2>5, <2>6, <3>1, <3>2 DEF Moves, Goes
  <2> QED BY <1>3, <2>1, <2>7
<1>6. CASE \/ \E S \in SUBSET Alerts : CheckAlerts(S)
           \/ Evaluator \/ Worker \/ ExpireTimedOut
           \/ \E a \in Timed : PassTime(a)
           \/ UNCHANGED vars
  <2>1. /\ SameWork
        /\ \A c \in Clients : /\ http'[c].at = "fail" => http'[c].op = "delete"
                              /\ http'[c].at = "lock" => http[c].at = "lock"
    BY <1>6, WorkStays
  <2> QED BY <1>2, <2>1
<1>7. \/ \E S \in SUBSET Alerts : CheckAlerts(S)
      \/ Evaluator \/ Worker \/ ExpireTimedOut
      \/ \E c \in Clients : Arrive(c) \/ Proceed(c)
      \/ \E a \in Timed : PassTime(a)
      \/ UNCHANGED vars
  BY CleanStep
<1> QED BY <1>4, <1>5, <1>6, <1>7

\* Client c is deleting a, and its delete is still on its way.
Deleting(c, a) == http[c].op = "delete" /\ http[c].todo[1].id = a

\* Every step but the arrival of a request.
Goings == \/ \E S \in SUBSET Alerts : CheckAlerts(S)
          \/ Evaluator \/ Worker \/ ExpireTimedOut
          \/ \E c \in Clients : Proceed(c)
          \/ \E a \in Timed : PassTime(a)
          \/ UNCHANGED vars

\* The alert p has just fired, or the client that fired it is about to arm what waits.
Arms(p) == \/ p \in Alerts /\ mem[p].status = "active" /\ mem'[p].status = "triggered"
           \/ \E c \in Clients : http[c].op = "arm" /\ http[c].at = "lock" /\ http[c].todo[1].id = p

\* What a step that is not an arrival may do to the row of b.
RowMoves(b) ==
    \/ mem'[b] = mem[b]
    \/ /\ mem'[b].dep = mem[b].dep
       /\ \/ mem[b].status = "active" /\ mem'[b].status \in {"active", "triggered", "expired"}
          \/ mem[b].status = "waiting" /\ mem'[b].status = "expired"
          \/ mem[b].status = "waiting" /\ mem'[b].status = "active" /\ Arms(mem[b].dep)
    \/ \E c \in Clients : Deleting(c, b) /\ mem'[b] = http[c].todo[1].undo /\ http'[c] = Idle

\* What the handlers change in a row, and what they leave.
LEMMA RowKeeps ==
    ASSUME NEW r \in Row
    PROVE  /\ Expired(r).dep = r.dep /\ Expired(r).status = "expired"
           /\ Triggered(r).dep = r.dep /\ Triggered(r).status = "triggered"
           /\ Ungated(r).dep = r.dep /\ Ungated(r).status = r.status
           /\ Armed(r).dep = r.dep /\ Armed(r).status = "active"
BY DEF Expired, Triggered, Ungated, Armed, Row

\* The rows in a pass of the evaluator.
LEMMA CheckRows ==
    ASSUME IInv, NEW S \in SUBSET Alerts, CheckAlerts(S), NEW b \in Alerts
    PROVE  RowMoves(b)
<1> DEFINE expire == S \cap past
           clear  == {a \in S \ past : mem[a].gate}
           fire   == S \ (past \cup clear)
           arm    == UNION {Dependents(p) : p \in fire \ Repeating}
           new(a) == CASE a \in expire           -> Expired(mem[a])
                       [] a \in clear            -> Ungated(mem[a])
                       [] a \in fire \ Repeating -> Triggered(mem[a])
                       [] a \in arm              -> Armed(mem[a])
                       [] OTHER                  -> mem[a]
<1>1. mem' = [a \in Alerts |-> new(a)] /\ S \subseteq ActiveIndex
  BY DEF CheckAlerts
<1>2. \A a \in Alerts : mem[a] \in Row
  BY DEF IInv, TypeOK
<1>3. \A a \in S : mem[a].status = "active"
  BY <1>1 DEF ActiveIndex
<1>4. CASE b \in S
  <2>1. new(b) \in {Expired(mem[b]), Ungated(mem[b]), Triggered(mem[b]), mem[b]}
    <3>1. b \in expire \/ b \in clear \/ b \in fire
      BY <1>4
    <3>2. b \in arm => FALSE
      BY <1>3, <1>4 DEF Dependents
    <3> HIDE DEF expire, clear, fire, arm
    <3> QED BY <3>1, <3>2
  <2>2. mem'[b] = new(b)
    BY <1>1
  <2> HIDE DEF new
  <2> QED BY <1>2, <1>3, <1>4, <2>1, <2>2, RowKeeps DEF RowMoves
<1>5. CASE b \notin S /\ b \in arm
  <2>1. PICK p \in fire \ Repeating : b \in Dependents(p)
    BY <1>5
  <2>2. mem[b].status = "waiting" /\ mem[b].dep = p /\ p \in Alerts /\ p \in S
    BY <2>1 DEF Dependents
  <2>3. new(b) = Armed(mem[b])
    BY <1>5
  <2>4. new(p) = Triggered(mem[p])
    <3>1. p \notin expire /\ p \notin clear /\ p \in fire \ Repeating
      BY <2>1
    <3>2. p \notin arm
      BY <1>3, <2>2 DEF Dependents
    <3> HIDE DEF expire, clear, fire, arm
    <3> QED BY <3>1, <3>2
  <2>5. mem'[b] = new(b) /\ mem'[p] = new(p)
    BY <1>1, <2>2
  <2> HIDE DEF new, fire, arm
  <2>6. mem'[b].status = "active" /\ mem'[b].dep = p /\ mem'[p].status = "triggered"
    BY <1>2, <2>2, <2>3, <2>4, <2>5, RowKeeps
  <2> QED BY <1>3, <2>2, <2>6 DEF RowMoves, Arms
<1>6. CASE b \notin S /\ b \notin arm
  <2>1. new(b) = mem[b]
    <3>1. b \notin expire /\ b \notin clear /\ b \notin fire
      BY <1>6
    <3> HIDE DEF expire, clear, fire, arm
    <3> QED BY <1>6, <3>1
  <2> HIDE DEF new
  <2> QED BY <1>1, <2>1 DEF RowMoves
<1> QED BY <1>4, <1>5, <1>6

\* The rows in any step but an arrival.
LEMMA RowsMove ==
    ASSUME IInv, \A c \in Clients : ReqKinds(c), Goings
    PROVE  /\ \A b \in Alerts : RowMoves(b)
           /\ used' = used /\ edited' = edited
<1>1. mem \in [Alerts -> Row] /\ \A a \in Alerts : mem[a] \in Row
  BY DEF IInv, TypeOK
<1>2. ASSUME NEW S \in SUBSET Alerts, CheckAlerts(S)
      PROVE  (\A b \in Alerts : RowMoves(b)) /\ used' = used /\ edited' = edited
  BY <1>2, CheckRows DEF CheckAlerts, history
<1>3. CASE Evaluator \/ Worker \/ (\E a \in Timed : PassTime(a)) \/ UNCHANGED vars
  <2>1. mem' = mem /\ used' = used /\ edited' = edited
    BY <1>3 DEF Evaluator, EnqueueWrite, Worker, RunUpsert, RunDelete, RunEvent, WriteExpired, PassTime,
                vars, store, history
  <2> QED BY <2>1 DEF RowMoves
<1>4. CASE ExpireTimedOut
  <2>1. /\ used' = used /\ edited' = edited
        /\ \A b \in Alerts : mem'[b] = mem[b] \/ (/\ mem[b].status \in {"active", "waiting"}
                                                 /\ mem'[b] = Expired(mem[b]))
    BY <1>4 DEF ExpireTimedOut, history
  <2> QED BY <1>1, <2>1, RowKeeps DEF RowMoves
<1>5. ASSUME NEW c \in Clients, Proceed(c)
      PROVE  (\A b \in Alerts : RowMoves(b)) /\ used' = used /\ edited' = edited
  <2> DEFINE r == http[c]
             t == r.todo[1]
             a == t.id
             next == IF a \in past THEN Expired(mem[a])
                     ELSE IF mem[a].gate THEN Ungated(mem[a]) ELSE Triggered(mem[a])
  <2>1. Moves(c) /\ used' = used /\ edited' = edited /\ t \in Task
    BY <1>5, MovesOn
  <2>2. a \in Alerts
    BY <2>1 DEF Task
  <2>3. ASSUME mem' = mem PROVE \A b \in Alerts : RowMoves(b)
    BY <2>3 DEF RowMoves
  <2>4. ASSUME mem' = [mem EXCEPT ![a] = t.undo], r.op = "delete", http'[c] = Idle
        PROVE  \A b \in Alerts : RowMoves(b)
    <3> SUFFICES ASSUME NEW b \in Alerts PROVE RowMoves(b)
      OBVIOUS
    <3>1. CASE b = a
      <4>1. Deleting(c, b) /\ mem'[b] = http[c].todo[1].undo
        BY <1>1, <2>4, <3>1 DEF Deleting
      <4> QED BY <2>4, <4>1 DEF RowMoves
    <3>2. CASE b # a
      <4>1. mem'[b] = mem[b]
        BY <1>1, <2>4, <3>2
      <4> QED BY <4>1 DEF RowMoves
    <3> QED BY <3>1, <3>2
  <2>5. ASSUME mem' = [mem EXCEPT ![a] = next], mem[a].status = "active"
        PROVE  \A b \in Alerts : RowMoves(b)
    <3> SUFFICES ASSUME NEW b \in Alerts PROVE RowMoves(b)
      OBVIOUS
    <3>1. CASE b = a
      <4>1. mem'[b] \in {Expired(mem[b]), Ungated(mem[b]), Triggered(mem[b])}
        BY <1>1, <2>5, <3>1
      <4> QED BY <1>1, <2>2, <2>5, <3>1, <4>1, RowKeeps DEF RowMoves
    <3>2. CASE b # a
      <4>1. mem'[b] = mem[b]
        BY <1>1, <2>5, <3>2
      <4> QED BY <4>1 DEF RowMoves
    <3> QED BY <3>1, <3>2
  <2>6. ASSUME mem' = [b \in Alerts |-> IF b \in Dependents(a) THEN Armed(mem[b]) ELSE mem[b]],
               r.op = "arm", r.at = "lock"
        PROVE  \A b \in Alerts : RowMoves(b)
    <3> SUFFICES ASSUME NEW b \in Alerts PROVE RowMoves(b)
      OBVIOUS
    <3>1. CASE b \in Dependents(a)
      <4>1. mem[b].status = "waiting" /\ mem[b].dep = a /\ mem'[b] = Armed(mem[b])
        BY <2>6, <3>1 DEF Dependents
      <4>2. Arms(a)
        BY <2>6 DEF Arms
      <4>3. mem'[b].status = "active" /\ mem'[b].dep = mem[b].dep
        BY <1>1, <4>1, RowKeeps
      <4> QED BY <4>1, <4>2, <4>3 DEF RowMoves
    <3>2. CASE b \notin Dependents(a)
      BY <2>6, <3>2 DEF RowMoves
    <3> QED BY <3>1, <3>2
  <2>7. \A b \in Alerts : RowMoves(b)
    <3>1. \/ mem' = mem
          \/ mem' = [mem EXCEPT ![a] = t.undo] /\ r.op = "delete" /\ http'[c] = Idle
          \/ mem' = [mem EXCEPT ![a] = next] /\ mem[a].status = "active"
          \/ /\ mem' = [b \in Alerts |-> IF b \in Dependents(a) THEN Armed(mem[b]) ELSE mem[b]]
             /\ r.op = "arm" /\ r.at = "lock"
      BY <2>1 DEF Moves
    <3> HIDE DEF next
    <3> QED BY <2>3, <2>4, <2>5, <2>6, <3>1
  <2> QED BY <2>1, <2>7
<1> QED BY <1>2, <1>3, <1>4, <1>5 DEF Goings

\* No step but an arrival starts a delete or changes one.
LEMMA DeletesAreOld ==
    ASSUME IInv, \A c \in Clients : ReqKinds(c), Goings, NEW c \in Clients, http'[c].op = "delete"
    PROVE  http[c].op = "delete" /\ http'[c].todo = http[c].todo
<1>1. CASE SameWork
  BY <1>1 DEF SameWork
<1>2. ASSUME NEW n \in Clients, Proceed(n)
      PROVE  http[c].op = "delete" /\ http'[c].todo = http[c].todo
  <2>1. Moves(n) /\ Others(n)
    BY <1>2, MovesOn
  <2>2. CASE n # c
    BY <2>1, <2>2 DEF Others
  <2>3. CASE n = c
    <3>1. Moves(c) /\ Idle.op = "idle"
      BY <2>1, <2>3 DEF Idle
    <3>2. \/ http'[c] = Idle
          \/ http'[c].op = http[c].op /\ http'[c].todo = http[c].todo
          \/ http'[c].op = http[c].op /\ http[c].op # "delete"
          \/ http'[c].op \in {"try", "arm"}
      BY <3>1 DEF Moves, Goes
    <3> QED BY <3>1, <3>2
  <2> QED BY <2>2, <2>3
<1> QED BY <1>1, <1>2, WorkStays DEF Goings

\* An id that was never given to an alert names nothing; an alert being deleted has left
\* the cache, is being deleted once, and what stood behind it once existed too.
Known(a) ==
    /\ a \notin used => mem[a].status = "none"
    /\ \A b \in Alerts : mem[b].dep = a => a \in used
    /\ \A c \in Clients : Deleting(c, a) =>
          /\ a \in used /\ mem[a].status = "none"
          /\ http[c].todo[1].undo.dep \in used \cup {NoAlert}
          /\ \A d \in Clients : Deleting(d, a) => c = d

\* What the arrival of a request of c may do to the row of b.
RowArrives(c, b) ==
    \/ mem'[b].status = mem[b].status /\ mem'[b].dep = mem[b].dep
    \/ /\ b \notin used /\ b \in used'
       /\ \/ mem'[b].dep = NoAlert
          \/ mem'[b].status = "waiting" /\ mem'[b].dep \in used'
    \/ b \in edited' /\ mem[b].status # "none" /\ mem'[b].dep = mem[b].dep
    \/ Deleting(c, b)' /\ mem'[b] = Absent

\* The rows when an alert is created, perhaps behind another.
LEMMA CreateRows ==
    ASSUME IInv, \A a \in Alerts : Known(a), NEW c \in Clients,
           NEW a \in Alerts, NEW p \in Alerts \cup {NoAlert}, Create(c, a, p), NEW b \in Alerts
    PROVE  RowArrives(c, b) /\ used \subseteq used' /\ edited' = edited
<1> DEFINE parent == [mem[p] EXCEPT !.chained = TRUE]
           row    == NewRow(p)
           patch  == p # NoAlert /\ ~mem[p].chained
<1>1. mem \in [Alerts -> Row] /\ \A n \in Alerts : mem[n] \in Row
  BY DEF IInv, TypeOK
<1>2. /\ a \notin used /\ used' = used \cup {a} /\ edited' = edited
      /\ p # NoAlert => mem[p].status \in {"active", "waiting"}
      /\ mem' = IF patch THEN [mem EXCEPT ![a] = row, ![p] = parent]
                         ELSE [mem EXCEPT ![a] = row]
  BY DEF Create
<1>3. p # NoAlert => p \in Alerts /\ p \in used /\ p # a
  BY <1>2 DEF Known
<1>4. row.dep = p /\ (p # NoAlert => row.status = "waiting")
  BY DEF NewRow
<1>5. p # NoAlert => parent.status = mem[p].status /\ parent.dep = mem[p].dep
  BY <1>1, <1>3 DEF Row
<1> HIDE DEF parent, row
<1>6. mem'[a] = row /\ \A n \in Alerts \ {a} : mem'[n] = mem[n] \/ (n = p /\ p # NoAlert /\ mem'[n] = parent)
  BY <1>1, <1>2, <1>3
<1>7. CASE b = a
  BY <1>2, <1>3, <1>4, <1>6, <1>7 DEF RowArrives
<1>8. CASE b # a
  BY <1>2, <1>5, <1>6, <1>8 DEF RowArrives
<1> QED BY <1>2, <1>7, <1>8

\* The rows when a request comes in, and what a delete takes with it.
LEMMA RowsArrive ==
    ASSUME IInv, \A a \in Alerts : Known(a), NEW c \in Clients, Arrive(c)
    PROVE  /\ used \subseteq used' /\ edited \subseteq edited'
           /\ \A b \in Alerts : RowArrives(c, b)
           /\ \A a : Deleting(c, a)' => /\ a \in Alerts
                                        /\ mem'[a] = Absent /\ mem[a].status # "none"
                                        /\ http'[c].todo[1].undo = mem[a]
<1>1. mem \in [Alerts -> Row] /\ \A n \in Alerts : mem[n] \in Row
  BY DEF IInv, TypeOK
<1>2. /\ http'[c].op = "delete" => \E a \in Alerts : Delete(c, a) /\ http'[c].todo = <<Erase(a, mem[a], c)>>
      /\ \A a \in Alerts : Delete(c, a) => http'[c].op = "delete"
  <2>1. \/ \E a \in Alerts : Delete(c, a) /\ http'[c].op = "delete" /\ http'[c].todo = <<Erase(a, mem[a], c)>>
        \/ /\ http'[c].op # "delete"
           /\ \A i \in DOMAIN http'[c].todo : LET u == http'[c].todo[i]
                                              IN  u.op = "upsert" /\ ~u.fire
    BY ArrivesOn
  <2>2. ASSUME NEW a \in Alerts, Delete(c, a) PROVE http'[c].op = "delete"
    <3>1. http' = [http EXCEPT ![c] = [op |-> "delete", at |-> "call", todo |-> <<Erase(a, mem[a], c)>>, made |-> <<>>]]
      BY <2>2 DEF Delete, Begin
    <3> QED BY <3>1 DEF IInv, TypeOK
  <2> QED BY <2>1, <2>2
<1>3. \A a : Deleting(c, a)' => /\ a \in Alerts
                                /\ mem'[a] = Absent /\ mem[a].status # "none"
                                /\ http'[c].todo[1].undo = mem[a]
  <2> SUFFICES ASSUME NEW a, http'[c].op = "delete", http'[c].todo[1].id = a
               PROVE  /\ a \in Alerts
                      /\ mem'[a] = Absent /\ mem[a].status # "none"
                      /\ http'[c].todo[1].undo = mem[a]
    BY DEF Deleting
  <2>1. PICK n \in Alerts : Delete(c, n) /\ http'[c].todo = <<Erase(n, mem[n], c)>>
    BY <1>2
  <2>2. http'[c].todo[1] = Erase(n, mem[n], c)
    BY <2>1
  <2>3. n = a /\ http'[c].todo[1].undo = mem[n]
    BY <2>2 DEF Erase
  <2>4. mem' = [mem EXCEPT ![n] = Absent] /\ mem[n].status # "none"
    BY <2>1 DEF Delete
  <2> QED BY <1>1, <2>3, <2>4
<1>4. ASSUME NEW a \in Alerts, NEW p \in Alerts \cup {NoAlert}, Create(c, a, p)
      PROVE  used \subseteq used' /\ edited \subseteq edited' /\ \A b \in Alerts : RowArrives(c, b)
  <2>1. used \subseteq used' /\ edited' = edited
    BY <1>4 DEF Create
  <2> QED BY <1>4, <2>1, CreateRows
<1>5. ASSUME NEW S \in SUBSET Repeating, CommitCreated(c, S)
      PROVE  used \subseteq used' /\ edited \subseteq edited' /\ \A b \in Alerts : RowArrives(c, b)
  <2> DEFINE row == [status |-> "active", gate |-> FALSE, dep |-> NoAlert, chained |-> FALSE]
  <2>1. /\ mem' = [a \in Alerts |-> IF a \in S THEN row ELSE mem[a]]
        /\ S \cap used = {} /\ used' = used \cup S /\ edited' = edited
    BY <1>5 DEF CommitCreated
  <2>2. row.dep = NoAlert
    OBVIOUS
  <2> HIDE DEF row
  <2> QED BY <2>1, <2>2 DEF RowArrives
<1>6. ASSUME NEW a \in Alerts, NEW s \in Status, Update(c, a, s)
      PROVE  used \subseteq used' /\ edited \subseteq edited' /\ \A b \in Alerts : RowArrives(c, b)
  <2>1. /\ mem' = [mem EXCEPT ![a] = [mem[a] EXCEPT !.status = s]]
        /\ mem[a].status # "none" /\ used' = used /\ edited' = edited \cup {a}
    BY <1>6 DEF Update
  <2>2. [mem[a] EXCEPT !.status = s].dep = mem[a].dep
    BY <1>1 DEF Row
  <2>3. mem'[a].dep = mem[a].dep /\ \A b \in Alerts \ {a} : mem'[b] = mem[b]
    BY <1>1, <2>1, <2>2
  <2>4. a \in edited'
    BY <2>1
  <2> QED BY <2>1, <2>3, <2>4 DEF RowArrives
<1>7. ASSUME NEW a \in Alerts, Delete(c, a)
      PROVE  used \subseteq used' /\ edited \subseteq edited' /\ \A b \in Alerts : RowArrives(c, b)
  <2>1. mem' = [mem EXCEPT ![a] = Absent] /\ used' = used /\ edited' = edited
    BY <1>7 DEF Delete
  <2>2. http'[c].op = "delete"
    BY <1>2, <1>7
  <2>3. http' = [http EXCEPT ![c] = [op |-> "delete", at |-> "call", todo |-> <<Erase(a, mem[a], c)>>, made |-> <<>>]]
    BY <1>7 DEF Delete, Begin
  <2>4. http'[c].todo = <<Erase(a, mem[a], c)>>
    BY <2>3 DEF IInv, TypeOK
  <2>5. http'[c].todo[1].id = a
    BY <2>4 DEF Erase
  <2>6. Deleting(c, a)'
    BY <2>2, <2>5 DEF Deleting
  <2>7. mem'[a] = Absent /\ \A b \in Alerts \ {a} : mem'[b] = mem[b]
    BY <1>1, <2>1
  <2> QED BY <2>1, <2>6, <2>7 DEF RowArrives
<1> QED BY <1>3, <1>4, <1>5, <1>6, <1>7 DEF Arrive

\* Ids, rows and deletes stay in step.
LEMMA KnownKept ==
    ASSUME IInv, [Next]_vars, Clean', \A c \in Clients : ReqKinds(c), \A a \in Alerts : Known(a)
    PROVE  \A a \in Alerts : Known(a)'
<1>1. (\E c \in Clients : Arrive(c)) \/ Goings
  BY CleanStep DEF Goings
<1>2. CASE Goings
  <2>1. (\A b \in Alerts : RowMoves(b)) /\ used' = used
    BY <1>2, RowsMove
  <2>2. \A c \in Clients : \A a : Deleting(c, a)' => Deleting(c, a) /\ http'[c].todo = http[c].todo
    BY <1>2, DeletesAreOld DEF Deleting
  <2>3. \A a \in Alerts : a \notin used' => mem'[a].status = "none"
    BY <2>1 DEF RowMoves, Known
  <2>4. ASSUME NEW b \in Alerts, NEW a \in Alerts, mem'[b].dep = a PROVE a \in used'
    <3>1. CASE mem'[b].dep = mem[b].dep
      BY <2>1, <2>4, <3>1 DEF Known
    <3>2. CASE mem'[b].dep # mem[b].dep
      <4>1. PICK c \in Clients : Deleting(c, b) /\ mem'[b] = http[c].todo[1].undo
        BY <2>1, <3>2 DEF RowMoves
      <4>2. mem'[b].dep \in used \cup {NoAlert}
        BY <4>1 DEF Known
      <4> QED BY <2>1, <2>4, <4>2, StoreAssumption
    <3> QED BY <3>1, <3>2
  <2>5. ASSUME NEW a \in Alerts, NEW c \in Clients, Deleting(c, a)'
        PROVE  /\ a \in used' /\ mem'[a].status = "none"
               /\ http'[c].todo[1].undo.dep \in used' \cup {NoAlert}
               /\ \A d \in Clients : Deleting(d, a)' => c = d
    <3>1. Deleting(c, a) /\ http'[c].todo = http[c].todo
      BY <2>2, <2>5
    <3>2. /\ a \in used /\ mem[a].status = "none"
          /\ http[c].todo[1].undo.dep \in used \cup {NoAlert}
          /\ \A d \in Clients : Deleting(d, a) => c = d
      BY <3>1 DEF Known
    <3>3. mem'[a] = mem[a]
      <4>1. ASSUME NEW d \in Clients, Deleting(d, a), http'[d] = Idle PROVE FALSE
        BY <2>5, <3>2, <4>1 DEF Deleting, Idle
      <4> QED BY <2>1, <3>2, <4>1 DEF RowMoves
    <3> QED BY <2>1, <2>2, <3>1, <3>2, <3>3
  <2> QED BY <2>3, <2>4, <2>5 DEF Known
<1>3. ASSUME NEW c \in Clients, Arrive(c) PROVE \A a \in Alerts : Known(a)'
  <2>1. /\ used \subseteq used'
        /\ \A b \in Alerts : RowArrives(c, b)
        /\ \A a : Deleting(c, a)' => /\ a \in Alerts
                                     /\ mem'[a] = Absent /\ mem[a].status # "none"
                                     /\ http'[c].todo[1].undo = mem[a]
    BY <1>3, RowsArrive
  <2>2. Others(c) /\ http[c].op = "idle"
    BY <1>3, ArrivesOn
  <2>3. \A d \in Clients : \A a : d # c => (Deleting(d, a)' <=> Deleting(d, a)) /\ http'[d] = http[d]
    BY <2>2 DEF Others, Deleting
  <2>4. Absent.status = "none" /\ Absent.dep = NoAlert
    BY DEF Absent
  <2>5. ASSUME NEW a \in Alerts, a \notin used' PROVE mem'[a].status = "none"
    <3>1. mem[a].status = "none" /\ a \notin used
      BY <2>1, <2>5 DEF Known
    <3> QED BY <2>1, <2>4, <2>5, <3>1 DEF RowArrives
  <2>6. ASSUME NEW b \in Alerts, NEW a \in Alerts, mem'[b].dep = a PROVE a \in used'
    <3>1. CASE mem'[b].dep = mem[b].dep
      BY <2>1, <2>6, <3>1 DEF Known
    <3>2. CASE mem'[b].dep # mem[b].dep
      BY <2>1, <2>4, <2>6, <3>2, StoreAssumption DEF RowArrives
    <3> QED BY <3>1, <3>2
  <2>7. ASSUME NEW a \in Alerts, NEW d \in Clients, Deleting(d, a)'
        PROVE  /\ a \in used' /\ mem'[a].status = "none"
               /\ http'[d].todo[1].undo.dep \in used' \cup {NoAlert}
               /\ \A e \in Clients : Deleting(e, a)' => d = e
    <3>1. CASE d = c
      <4>1. mem'[a] = Absent /\ mem[a].status # "none" /\ http'[c].todo[1].undo = mem[a]
        BY <2>1, <2>7, <3>1
      <4>2. a \in used /\ mem[a].dep \in used \cup {NoAlert}
        <5>1. mem[a] \in Row
          BY DEF IInv, TypeOK
        <5>2. mem[a].dep \in Alerts \cup {NoAlert}
          BY <5>1 DEF Row
        <5> QED BY <4>1, <5>2 DEF Known
      <4>3. \A e \in Clients \ {c} : ~Deleting(e, a)
        BY <4>1 DEF Known
      <4> QED BY <2>1, <2>3, <2>4, <3>1, <4>1, <4>2, <4>3
    <3>2. CASE d # c
      <4>1. Deleting(d, a) /\ http'[d] = http[d]
        BY <2>3, <2>7, <3>2
      <4>2. /\ a \in used /\ mem[a].status = "none"
            /\ http[d].todo[1].undo.dep \in used \cup {NoAlert}
            /\ \A e \in Clients : Deleting(e, a) => d = e
        BY <4>1 DEF Known
      <4>3. ~Deleting(c, a)'
        BY <2>1, <4>2
      <4>4. mem'[a].status = "none"
        BY <2>1, <2>4, <4>2 DEF RowArrives
      <4> QED BY <2>1, <2>3, <4>1, <4>2, <4>3, <4>4
    <3> QED BY <3>1, <3>2
  <2> QED BY <2>5, <2>6, <2>7 DEF Known
<1> QED BY <1>1, <1>2, <1>3

\* Where the report of an alert may be on its way: queued, as the report itself or as a
\* write the evaluator will report; in the evaluator's batch; or with the client that
\* fired it at creation.
IsReport(t, a) == t.id = a /\ (t.op = "event" \/ (t.fire /\ t.by = NoClient))
InQueue(i, a) == i \in DOMAIN dbQueue /\ IsReport(dbQueue[i], a)
InBatch(t, a) == t \in batch /\ t.fire /\ t.id = a
WithClient(c, a) == c \in Clients /\ http[c].op = "try" /\ http[c].todo[1].fire /\ http[c].todo[1].id = a

NowhereElse(a) == (\A t : ~InBatch(t, a)) /\ (\A c : ~WithClient(c, a))
Unreported(a) == told[a] = 0 /\ (\A i : ~InQueue(i, a)) /\ NowhereElse(a)

\* The alert may still fire: it is live, or its delete may yet be taken back, or its id
\* was never given to anyone.
Live(s) == s \in {"active", "waiting"}
Fresh(a) == \/ Live(mem[a].status)
            \/ \E c \in Clients : Deleting(c, a) /\ Live(http[c].todo[1].undo.status)
            \/ a \notin used

\* One report of an alert is under way or delivered; none while the alert may still fire.
OneReport(a) ==
    /\ told[a] <= 1
    /\ told[a] = 1 => (\A i : ~InQueue(i, a)) /\ NowhereElse(a)
    /\ \A i, j : InQueue(i, a) /\ InQueue(j, a) => i = j
    /\ (\E i : InQueue(i, a)) => NowhereElse(a)
    /\ \A t, u : InBatch(t, a) /\ InBatch(u, a) => t = u
    /\ (\E t : InBatch(t, a)) => \A c : ~WithClient(c, a)
    /\ \A c, d : WithClient(c, a) /\ WithClient(d, a) => c = d
    /\ Fresh(a) => Unreported(a)

\* A report that moves up in the queue, or goes nowhere, stays the only one.
LEMMA ReportStays ==
    ASSUME TypeOK', NEW a \in Alerts, OneReport(a), Fresh(a)' => Fresh(a),
           told'[a] = told[a],
           \A t : InBatch(t, a)' => InBatch(t, a),
           \A c : WithClient(c, a)' => WithClient(c, a),
           NEW d \in Nat, \A i : InQueue(i, a)' => InQueue(i + d, a)
    PROVE  OneReport(a)'
<1>1. \A i : InQueue(i, a)' => i \in Nat
  BY DEF TypeOK, InQueue
<1>2. \A i, j : InQueue(i, a)' /\ InQueue(j, a)' => i = j
  <2> SUFFICES ASSUME NEW i, NEW j, InQueue(i, a)', InQueue(j, a)' PROVE i = j
    OBVIOUS
  <2>1. i \in Nat /\ j \in Nat
    BY <1>1
  <2>2. InQueue(i + d, a) /\ InQueue(j + d, a)
    OBVIOUS
  <2>3. i + d = j + d
    BY <2>2 DEF OneReport
  <2> QED BY <2>1, <2>3
<1>3. (NowhereElse(a) => NowhereElse(a)') /\ (Unreported(a) => Unreported(a)')
  BY DEF NowhereElse, Unreported
<1>4. (\E i : InQueue(i, a)') => \E i : InQueue(i, a)
  OBVIOUS
<1> HIDE DEF NowhereElse, Unreported, InQueue, InBatch, WithClient, Fresh, TypeOK
<1>5. told'[a] <= 1 /\ (told'[a] = 1 => (\A i : ~InQueue(i, a)') /\ NowhereElse(a)')
  BY <1>3 DEF OneReport
<1>6. (\E i : InQueue(i, a)') => NowhereElse(a)'
  BY <1>3, <1>4 DEF OneReport
<1>7. Fresh(a)' => Unreported(a)'
  BY <1>3 DEF OneReport
<1>8. /\ \A t, u : InBatch(t, a)' /\ InBatch(u, a)' => t = u
      /\ (\E t : InBatch(t, a)') => \A c : ~WithClient(c, a)'
      /\ \A c, n : WithClient(c, a)' /\ WithClient(n, a)' => c = n
  BY DEF OneReport
<1> QED BY <1>2, <1>5, <1>6, <1>7, <1>8 DEF OneReport

\* Nothing gets a second chance to fire.
LEMMA FreshIsOld ==
    ASSUME IInv, [Next]_vars, Clean', \A c \in Clients : ReqKinds(c), \A a \in Alerts : Known(a),
           NEW a \in Alerts, a \notin edited', Fresh(a)'
    PROVE  Fresh(a)
<1>1. CASE Goings
  <2>1. RowMoves(a) /\ used' = used
    BY <1>1, RowsMove
  <2>2. \A c \in Clients : Deleting(c, a)' => Deleting(c, a) /\ http'[c].todo = http[c].todo
    BY <1>1, DeletesAreOld DEF Deleting
  <2> QED BY <2>1, <2>2 DEF RowMoves, Fresh, Live
<1>2. ASSUME NEW c \in Clients, Arrive(c) PROVE Fresh(a)
  <2>1. /\ used \subseteq used' /\ RowArrives(c, a)
        /\ Deleting(c, a)' => http'[c].todo[1].undo = mem[a]
    BY <1>2, RowsArrive
  <2>2. Others(c)
    BY <1>2, ArrivesOn
  <2>3. \A d \in Clients : d # c => (Deleting(d, a)' <=> Deleting(d, a)) /\ http'[d] = http[d]
    BY <2>2 DEF Others, Deleting
  <2>4. ~Live(Absent.status)
    BY DEF Absent, Live
  <2>5. CASE Live(mem[a].status)'
    BY <2>1, <2>4, <2>5 DEF RowArrives, Fresh, Live
  <2>6. CASE a \notin used'
    BY <2>1, <2>6 DEF Fresh
  <2>7. ASSUME NEW d \in Clients, Deleting(d, a)', Live(http'[d].todo[1].undo.status) PROVE Fresh(a)
    BY <2>1, <2>3, <2>7 DEF Fresh
  <2> QED BY <2>5, <2>6, <2>7 DEF Fresh
<1> QED BY <1>1, <1>2, CleanStep DEF Goings

\* An alert that is live in the cache is not being deleted and its id is in use; when it
\* stops being live without a delete, it can fire no more.
LEMMA FiredIsNotFresh ==
    ASSUME IInv, \A c \in Clients : ReqKinds(c), \A a \in Alerts : Known(a), Goings,
           NEW a \in Alerts, Live(mem[a].status), ~Live(mem'[a].status)
    PROVE  Fresh(a) /\ ~Fresh(a)'
<1>1. used' = used
  BY RowsMove
<1>2. \A c \in Clients : Deleting(c, a)' => Deleting(c, a)
  BY DeletesAreOld DEF Deleting
<1>3. a \in used /\ \A c \in Clients : ~Deleting(c, a)
  BY DEF Known, Live
<1> QED BY <1>1, <1>2, <1>3 DEF Fresh, Live

\* The first report of an alert, in one of the three places.
LEMMA FirstReport ==
    ASSUME NEW a \in Alerts, Unreported(a), ~Fresh(a)', told'[a] = told[a],
           \A i : ~InQueue(i, a)',
           \/ /\ \A c : ~WithClient(c, a)'
              /\ \A t, u : InBatch(t, a)' /\ InBatch(u, a)' => t = u
           \/ /\ \A t : ~InBatch(t, a)'
              /\ \A c, d : WithClient(c, a)' /\ WithClient(d, a)' => c = d
    PROVE  OneReport(a)'
<1>1. told'[a] = 0
  BY DEF Unreported
<1>2. told'[a] <= 1 /\ told'[a] # 1
  BY <1>1
<1> HIDE DEF Unreported, InQueue, InBatch, WithClient, Fresh
<1> QED BY <1>2 DEF OneReport

\* A report that changes place: it was the only one and so it stays.
LEMMA ReportJoins ==
    ASSUME NEW a \in Alerts, OneReport(a), Fresh(a)' => Fresh(a), told'[a] = told[a],
           \/ \E i : InQueue(i, a)
           \/ \E t : InBatch(t, a)
           \/ \E c : WithClient(c, a),
           NEW k, \A i : InQueue(i, a)' => i = k,
           \A t : ~InBatch(t, a)', \A c : ~WithClient(c, a)'
    PROVE  OneReport(a)'
<1>1. ~Unreported(a) /\ told[a] # 1
  BY DEF OneReport, Unreported, NowhereElse
<1>2. ~Fresh(a)'
  BY <1>1 DEF OneReport
<1>3. NowhereElse(a)'
  BY DEF NowhereElse
<1>4. told'[a] <= 1 /\ told'[a] # 1
  BY <1>1 DEF OneReport
<1> HIDE DEF Unreported, InQueue, InBatch, WithClient, Fresh, NowhereElse
<1> QED BY <1>2, <1>3, <1>4 DEF OneReport

\* A pass of the evaluator: an alert that fires was live and is live no more.
LEMMA CheckOneReport ==
    ASSUME IInv, TypeOK', \A c \in Clients : ReqKinds(c), \A a \in Alerts : Known(a),
           NEW S \in SUBSET Alerts, CheckAlerts(S),
           NEW a \in Alerts \ Repeating, OneReport(a), Fresh(a)' => Fresh(a)
    PROVE  OneReport(a)'
<1> DEFINE expire == S \cap past
           clear  == {n \in S \ past : mem[n].gate}
           fire   == S \ (past \cup clear)
           arm    == UNION {Dependents(p) : p \in fire \ Repeating}
           new(n) == CASE n \in expire           -> Expired(mem[n])
                       [] n \in clear            -> Ungated(mem[n])
                       [] n \in fire \ Repeating -> Triggered(mem[n])
                       [] n \in arm              -> Armed(mem[n])
                       [] OTHER                  -> mem[n]
<1>1. /\ mem' = [n \in Alerts |-> new(n)] /\ S \subseteq ActiveIndex /\ batch = {}
      /\ batch' = {Upsert(n, mem[n], new(n), n \in fire, NoClient) : n \in S \cup arm}
      /\ told' = told /\ dbQueue' = dbQueue /\ http' = http
  BY DEF CheckAlerts, history
<1>2. \A t : InBatch(t, a)' => a \in fire /\ t = Upsert(a, mem[a], new(a), a \in fire, NoClient)
  <2> SUFFICES ASSUME NEW t \in batch', t.fire, t.id = a
               PROVE  a \in fire /\ t = Upsert(a, mem[a], new(a), a \in fire, NoClient)
    BY DEF InBatch
  <2>1. PICK n \in S \cup arm : t = Upsert(n, mem[n], new(n), n \in fire, NoClient)
    BY <1>1
  <2> HIDE DEF fire, new, arm
  <2>2. t.id = n /\ t.fire = (n \in fire)
    BY <2>1 DEF Upsert
  <2> QED BY <2>1, <2>2
<1>3. /\ \A i : InQueue(i, a)' <=> InQueue(i, a)
      /\ \A c : WithClient(c, a)' <=> WithClient(c, a)
  BY <1>1 DEF InQueue, WithClient
<1>4. CASE a \in fire
  <2>1. a \in S /\ mem[a].status = "active"
    BY <1>1, <1>4 DEF ActiveIndex
  <2>2. new(a) = Triggered(mem[a])
    <3>1. a \notin expire /\ a \notin clear /\ a \in fire \ Repeating
      BY <1>4
    <3>2. a \notin arm
      BY <2>1 DEF Dependents
    <3> HIDE DEF expire, clear, fire, arm
    <3> QED BY <3>1, <3>2
  <2>3. mem'[a] = Triggered(mem[a]) /\ mem[a] \in Row
    BY <1>1, <2>2 DEF IInv, TypeOK
  <2>4. Live(mem[a].status) /\ ~Live(mem'[a].status)
    BY <2>1, <2>3, RowKeeps DEF Live
  <2>5. Fresh(a) /\ ~Fresh(a)'
    BY <2>4, FiredIsNotFresh DEF Goings
  <2>6. Unreported(a)
    BY <2>5 DEF OneReport
  <2>7. (\A i : ~InQueue(i, a)') /\ (\A c : ~WithClient(c, a)')
    BY <1>3, <2>6 DEF Unreported, NowhereElse
  <2>8. \A t, u : InBatch(t, a)' /\ InBatch(u, a)' => t = u
    BY <1>2
  <2>9. told'[a] = told[a]
    BY <1>1
  <2> HIDE DEF Unreported, InQueue, InBatch, WithClient, Fresh
  <2> QED BY <2>5, <2>6, <2>7, <2>8, <2>9, FirstReport
<1>5. CASE a \notin fire
  <2>1. \A t : InBatch(t, a)' => InBatch(t, a)
    BY <1>2, <1>5
  <2>2. \A i : InQueue(i, a)' => InQueue(i + 0, a)
    <3>1. \A i : InQueue(i, a)' => i \in Nat
      BY DEF InQueue, TypeOK
    <3>2. \A i \in Nat : i + 0 = i
      OBVIOUS
    <3> HIDE DEF InQueue
    <3> QED BY <1>3, <3>1, <3>2
  <2>3. told'[a] = told[a]
    BY <1>1
  <2> HIDE DEF InQueue, InBatch, WithClient, Fresh, TypeOK, new, fire
  <2> QED BY <1>3, <2>1, <2>2, <2>3, ReportStays
<1> QED BY <1>4, <1>5

\* A step that leaves the queue as it is, or appends what is no report, and starts no
\* report elsewhere.
LEMMA QueueStays ==
    ASSUME IInv, TypeOK', NEW a \in Alerts, OneReport(a), Fresh(a)' => Fresh(a),
           told'[a] = told[a],
           \A t : InBatch(t, a)' => InBatch(t, a),
           \A c : WithClient(c, a)' => WithClient(c, a),
           dbQueue' = dbQueue \/ \E e \in Task : dbQueue' = Append(dbQueue, e) /\ ~IsReport(e, a)
    PROVE  OneReport(a)'
<1>1. dbQueue \in Seq(Task)
  BY DEF IInv, TypeOK
<1>2. \A i : InQueue(i, a)' => InQueue(i, a)
  <2>1. CASE dbQueue' = dbQueue
    BY <2>1 DEF InQueue
  <2>2. ASSUME NEW e \in Task, dbQueue' = Append(dbQueue, e), ~IsReport(e, a)
        PROVE  \A i : InQueue(i, a)' => InQueue(i, a)
    <3>1. \A i \in DOMAIN dbQueue' : \/ i \in DOMAIN dbQueue /\ dbQueue'[i] = dbQueue[i]
                                     \/ dbQueue'[i] = e
      BY <1>1, <2>2
    <3> QED BY <2>2, <3>1 DEF InQueue
  <2> QED BY <2>1, <2>2
<1>3. \A i : InQueue(i, a)' => i \in Nat
  BY DEF InQueue, TypeOK
<1>4. \A i \in Nat : i + 0 = i
  OBVIOUS
<1>5. \A i : InQueue(i, a)' => InQueue(i + 0, a)
  BY <1>2, <1>3, <1>4
<1> HIDE DEF InQueue, InBatch, WithClient, Fresh, TypeOK
<1> QED BY <1>5, ReportStays

\* A report that joins the queue from elsewhere.
LEMMA QueueJoined ==
    ASSUME IInv, NEW a \in Alerts, OneReport(a), Fresh(a)' => Fresh(a), told'[a] = told[a],
           (\E t : InBatch(t, a)) \/ (\E c : WithClient(c, a)),
           NEW e, dbQueue' = Append(dbQueue, e),
           \A t : ~InBatch(t, a)', \A c : ~WithClient(c, a)'
    PROVE  OneReport(a)'
<1>1. dbQueue \in Seq(Task)
  BY DEF IInv, TypeOK
<1>2. \A i : ~InQueue(i, a)
  BY DEF OneReport, NowhereElse
<1>3. \A i \in DOMAIN dbQueue' : \/ i \in DOMAIN dbQueue /\ dbQueue'[i] = dbQueue[i]
                                 \/ i = Len(dbQueue) + 1
  BY <1>1
<1>4. \A i : InQueue(i, a)' => i = Len(dbQueue) + 1
  BY <1>2, <1>3 DEF InQueue
<1> HIDE DEF InQueue, InBatch, WithClient, Fresh
<1> QED BY <1>4, ReportJoins

\* The evaluator hands over a write.
LEMMA EnqueueOneReport ==
    ASSUME IInv, TypeOK', NEW t \in batch, EnqueueWrite(t),
           NEW a \in Alerts, OneReport(a), Fresh(a)' => Fresh(a)
    PROVE  OneReport(a)'
<1>1. /\ batch' = batch \ {t} /\ dbQueue' = Append(dbQueue, t) /\ http' = http /\ told' = told
      /\ t \in Task /\ t.by = NoClient /\ t.op = "upsert"
  BY DEF EnqueueWrite, history, IInv, TypeOK
<1>2. /\ \A u : InBatch(u, a)' => InBatch(u, a) /\ u # t
      /\ \A c : WithClient(c, a)' <=> WithClient(c, a)
  BY <1>1 DEF InBatch, WithClient
<1>3. CASE InBatch(t, a)
  <2>1. (\A u : ~InBatch(u, a)') /\ (\A c : ~WithClient(c, a)')
    BY <1>2, <1>3 DEF OneReport
  <2>2. told'[a] = told[a]
    BY <1>1
  <2> HIDE DEF InBatch, WithClient, Fresh
  <2> QED BY <1>1, <1>3, <2>1, <2>2, QueueJoined
<1>4. CASE ~InBatch(t, a)
  <2>1. ~IsReport(t, a)
    BY <1>1, <1>4 DEF IsReport, InBatch
  <2>2. told'[a] = told[a]
    BY <1>1
  <2> HIDE DEF InBatch, WithClient, Fresh, TypeOK
  <2> QED BY <1>1, <1>2, <2>1, <2>2, QueueStays
<1> QED BY <1>3, <1>4

\* The worker runs the first task.
LEMMA WorkerOneReport ==
    ASSUME IInv, TypeOK', \A c \in Clients : ReqKinds(c), RunUpsert \/ RunDelete \/ RunEvent,
           NEW a \in Alerts, OneReport(a), Fresh(a)' => Fresh(a)
    PROVE  OneReport(a)'
<1> DEFINE t == Head(dbQueue)
<1>1. dbQueue \in Seq(Task) /\ dbQueue # <<>> /\ t = dbQueue[1] /\ 1 \in DOMAIN dbQueue
  <2>1. dbQueue \in Seq(Task) /\ dbQueue # <<>>
    BY DEF RunUpsert, RunDelete, RunEvent, WorkerReady, IInv, TypeOK
  <2> QED BY <2>1
<1>2. batch' = batch
  BY DEF RunUpsert, RunDelete, RunEvent
<1>3. SameWork
  <2>1. Worker
    BY DEF Worker
  <2> QED BY <2>1, WorkStays
<1>4. /\ \A u : InBatch(u, a)' <=> InBatch(u, a)
      /\ \A c : WithClient(c, a)' <=> WithClient(c, a)
  BY <1>2, <1>3 DEF InBatch, WithClient, SameWork
<1>5. \A i \in DOMAIN Tail(dbQueue) : i + 1 \in DOMAIN dbQueue /\ Tail(dbQueue)[i] = dbQueue[i + 1]
  BY <1>1, TailAt
<1>6. ASSUME dbQueue' = Tail(dbQueue), told'[a] = told[a] PROVE OneReport(a)'
  <2>1. \A i : InQueue(i, a)' => InQueue(i + 1, a)
    BY <1>5, <1>6 DEF InQueue
  <2> HIDE DEF InQueue, InBatch, WithClient, Fresh, TypeOK
  <2> QED BY <1>4, <1>6, <2>1, ReportStays
<1>7. CASE RunUpsert
  <2>1. dbQueue' = Tail(dbQueue) \o Reports(t) /\ told'[a] = told[a] /\ t.op = "upsert"
    BY <1>7 DEF RunUpsert, WorkerReady
  <2>2. CASE Reports(t) = <<>>
    BY <1>1, <1>6, <2>1, <2>2
  <2>3. CASE t.fire /\ t.by = NoClient
    <3>1. dbQueue' = Tail(dbQueue) \o <<Event(t.id)>>
      BY <2>1, <2>3 DEF Reports
    <3>2. Tail(dbQueue) \in Seq(Task) /\ Len(Tail(dbQueue)) \in Nat
      BY <1>1
    <3>3. \A i \in DOMAIN dbQueue' :
             \/ i \in DOMAIN Tail(dbQueue) /\ dbQueue'[i] = Tail(dbQueue)[i]
             \/ i = Len(Tail(dbQueue)) + 1 /\ dbQueue'[i] = Event(t.id)
      <4> DEFINE e == Event(t.id)
                 rest == Tail(dbQueue)
      <4> HIDE DEF e, rest
      <4>1. dbQueue' = rest \o <<e>> /\ rest \in Seq(Task)
        BY <3>1, <3>2 DEF e, rest
      <4>2. \A i \in DOMAIN (rest \o <<e>>) :
             \/ i \in DOMAIN rest /\ (rest \o <<e>>)[i] = rest[i]
             \/ i = Len(rest) + 1 /\ (rest \o <<e>>)[i] = e
        BY <4>1
      <4> QED BY <4>1, <4>2 DEF e, rest
    <3>4. CASE t.id = a
      <4>1. InQueue(1, a)
        BY <1>1, <2>3, <3>4 DEF InQueue, IsReport
      <4>2. \A i : InQueue(i, a) => i = 1
        BY <4>1 DEF OneReport
      <4>3. \A i : InQueue(i, a)' => i = Len(Tail(dbQueue)) + 1
        <5> SUFFICES ASSUME NEW i \in DOMAIN Tail(dbQueue), IsReport(Tail(dbQueue)[i], a) PROVE FALSE
          BY <3>3 DEF InQueue
        <5>1. InQueue(i + 1, a)
          BY <1>5 DEF InQueue
        <5>2. i \in Nat /\ i # 0
          BY <3>2
        <5> QED BY <4>2, <5>1, <5>2
      <4>4. (\A u : ~InBatch(u, a)') /\ (\A c : ~WithClient(c, a)')
        BY <1>4, <4>1 DEF OneReport, NowhereElse
      <4> HIDE DEF InQueue, InBatch, WithClient, Fresh, t
      <4> QED BY <2>1, <4>1, <4>3, <4>4, ReportJoins
    <3>5. CASE t.id # a
      <4>1. ~IsReport(Event(t.id), a)
        BY <3>5 DEF Event, IsReport
      <4>2. \A i : InQueue(i, a)' => InQueue(i + 1, a)
        BY <1>5, <3>3, <4>1 DEF InQueue
      <4> HIDE DEF InQueue, InBatch, WithClient, Fresh, TypeOK, t
      <4> QED BY <1>4, <2>1, <4>2, ReportStays
    <3> QED BY <3>4, <3>5
  <2> QED BY <2>2, <2>3 DEF Reports
<1>8. CASE RunDelete
  BY <1>6, <1>8 DEF RunDelete, history
<1>9. CASE RunEvent
  <2>1. told' = [told EXCEPT ![t.id] = @ + 1] /\ dbQueue' = Tail(dbQueue) /\ t.op = "event"
    BY <1>9 DEF RunEvent, WorkerReady
  <2>2. told \in [Alerts -> Nat]
    BY DEF IInv, TypeOK
  <2>3. CASE t.id = a
    <3>1. InQueue(1, a)
      BY <1>1, <2>1, <2>3 DEF InQueue, IsReport
    <3>2. \A i : InQueue(i, a) => i = 1
      BY <3>1 DEF OneReport
    <3>3. \A i : ~InQueue(i, a)'
      <4> SUFFICES ASSUME NEW i \in DOMAIN Tail(dbQueue), IsReport(Tail(dbQueue)[i], a) PROVE FALSE
        BY <2>1 DEF InQueue
      <4>1. InQueue(i + 1, a)
        BY <1>5 DEF InQueue
      <4>2. i \in Nat /\ i # 0
        <5>1. Tail(dbQueue) \in Seq(Task)
          BY <1>1
        <5> QED BY <5>1
      <4> QED BY <3>2, <4>1, <4>2
    <3>4. (\A u : ~InBatch(u, a)') /\ (\A c : ~WithClient(c, a)')
      BY <1>4, <3>1 DEF OneReport, NowhereElse
    <3>5. told[a] <= 1 /\ told[a] # 1 /\ told[a] \in Nat /\ ~Fresh(a)
      BY <2>2, <3>1 DEF OneReport, Unreported
    <3>6. told'[a] = 1
      <4>1. told'[a] = told[a] + 1
        BY <2>1, <2>2, <2>3
      <4>2. told[a] = 0
        BY <3>5
      <4> QED BY <4>1, <4>2
    <3>7. told'[a] <= 1 /\ NowhereElse(a)' /\ ~Fresh(a)'
      BY <3>4, <3>5, <3>6 DEF NowhereElse
    <3> HIDE DEF InQueue, InBatch, WithClient, Fresh, NowhereElse
    <3> QED BY <3>3, <3>4, <3>7 DEF OneReport
  <2>4. CASE t.id # a
    <3>1. told'[a] = told[a]
      BY <2>1, <2>2, <2>4
    <3> QED BY <1>6, <2>1, <3>1
  <2> QED BY <2>3, <2>4
<1> QED BY <1>7, <1>8, <1>9

\* A request takes a step.
LEMMA RequestOneReport ==
    ASSUME IInv, TypeOK', \A c \in Clients : ReqKinds(c), \A a \in Alerts : Known(a),
           NEW c \in Clients, Proceed(c),
           NEW a \in Alerts, OneReport(a), Fresh(a)' => Fresh(a)
    PROVE  OneReport(a)'
<1> DEFINE r == http[c]
           t == r.todo[1]
           b == t.id
           next == IF b \in past THEN Expired(mem[b])
                   ELSE IF mem[b].gate THEN Ungated(mem[b]) ELSE Triggered(mem[b])
           fire == b \notin past /\ ~mem[b].gate
<1>1. /\ Moves(c) /\ Others(c) /\ t \in Task /\ batch' = batch /\ told'[a] = told[a]
      /\ r.op # "idle" /\ r.todo # <<>>
  BY MovesOn
<1>2. \A u : InBatch(u, a)' <=> InBatch(u, a)
  BY <1>1 DEF InBatch
<1>3. \A d : d # c => (WithClient(d, a)' <=> WithClient(d, a))
  BY <1>1 DEF WithClient, Others
<1>4. ASSUME dbQueue' = dbQueue \/ \E e \in Task : dbQueue' = Append(dbQueue, e) /\ ~IsReport(e, a),
             WithClient(c, a)' => WithClient(c, a)
      PROVE  OneReport(a)'
  <2>1. \A d : WithClient(d, a)' => WithClient(d, a)
    BY <1>3, <1>4
  <2> HIDE DEF InBatch, WithClient, Fresh, TypeOK
  <2> QED BY <1>1, <1>2, <1>4, <2>1, QueueStays
<1>5. CASE /\ dbQueue' = Append(dbQueue, t)
           /\ http'[c].op = r.op /\ http'[c].todo = r.todo
  <2>1. t.by = c /\ t.op \in {"upsert", "delete"} /\ c # NoClient
    <3>1. Request(c) /\ r \in HttpState
      BY DEF IInv, TypeOK
    <3>2. r.todo \in Seq(Task) /\ 1 \in DOMAIN r.todo
      BY <1>1, <3>1 DEF HttpState
    <3> QED BY <3>1, <3>2, NoClientIsNoClient DEF Request
  <2>2. ~IsReport(t, a)
    BY <2>1 DEF IsReport
  <2>3. WithClient(c, a)' => WithClient(c, a)
    BY <1>5 DEF WithClient
  <2> QED BY <1>1, <1>4, <1>5, <2>2, <2>3
<1>6. CASE /\ dbQueue' = dbQueue
           /\ Goes(c, r.op, "call", Tail(r.todo)) /\ (r.op \in {"try", "delete"} => http'[c] = Idle)
  <2>1. ~WithClient(c, a)'
    BY <1>6 DEF Goes, Idle, WithClient
  <2> QED BY <1>4, <1>6, <2>1
<1>7. CASE dbQueue' = dbQueue /\ r.op = "create" /\ Goes(c, "try", "lock", r.todo)
  <2>1. ~t.fire
    <3>1. ReqKinds(c) /\ r \in HttpState
      BY DEF IInv, TypeOK
    <3>2. r.todo \in Seq(Task) /\ 1 \in DOMAIN r.todo
      BY <1>1, <3>1 DEF HttpState
    <3> QED BY <1>7, <3>1, <3>2 DEF ReqKinds
  <2>2. ~WithClient(c, a)'
    BY <1>7, <2>1 DEF Goes, Idle, WithClient
  <2> QED BY <1>4, <1>7, <2>2
<1>8. CASE dbQueue' = Append(dbQueue, Event(b)) /\ r.op = "try" /\ t.fire /\ Goes(c, "arm", "lock", r.todo)
  <2>1. ~WithClient(c, a)'
    BY <1>8 DEF Goes, Idle, WithClient
  <2>2. CASE b = a
    <3>1. WithClient(c, a)
      BY <1>8, <2>2 DEF WithClient
    <3>2. (\A u : ~InBatch(u, a)') /\ (\A d : ~WithClient(d, a)')
      BY <1>2, <1>3, <2>1, <3>1 DEF OneReport
    <3> HIDE DEF InBatch, WithClient, Fresh
    <3> QED BY <1>1, <1>8, <3>1, <3>2, QueueJoined
  <2>3. CASE b # a
    <3>1. ~IsReport(Event(b), a)
      BY <2>3 DEF IsReport, Event
    <3>2. Event(b) \in Task
      <4>1. b \in Alerts
        BY <1>1 DEF Task
      <4>2. Absent \in Row
        BY DEF Absent, Row, Status
      <4> QED BY <4>1, <4>2 DEF Event, Task
    <3> QED BY <1>4, <1>8, <2>1, <3>1, <3>2
  <2> QED BY <2>2, <2>3
<1>9. CASE dbQueue' = dbQueue /\ http'[c] = Idle
  <2>1. ~WithClient(c, a)'
    BY <1>9 DEF Idle, WithClient
  <2> QED BY <1>4, <1>9, <2>1
<1>10. CASE /\ mem[b].status = "active"
            /\ mem' = [mem EXCEPT ![b] = next] /\ dbQueue' = dbQueue
            /\ r.op = "try" /\ Goes(c, "try", "call", <<Upsert(b, mem[b], next, fire, c)>>)
  <2>1. WithClient(c, a)' => b = a /\ fire
    <3> DEFINE e == Upsert(b, mem[b], next, fire, c)
    <3>1. e.id = b /\ e.fire = fire
      BY DEF Upsert
    <3>2. <<e>>[1] = e
      OBVIOUS
    <3> HIDE DEF e, next, fire
    <3> QED BY <1>10, <3>1, <3>2 DEF WithClient, Goes, Idle, e
  <2>2. CASE b = a /\ fire
    <3>1. mem'[a] = Triggered(mem[a]) /\ mem[a] \in Row
      BY <1>10, <2>2 DEF IInv, TypeOK
    <3>2. Live(mem[a].status) /\ ~Live(mem'[a].status)
      BY <1>10, <2>2, <3>1, RowKeeps DEF Live
    <3>3. Fresh(a) /\ ~Fresh(a)'
      BY <3>2, FiredIsNotFresh DEF Goings
    <3>4. Unreported(a)
      BY <3>3 DEF OneReport
    <3>5. (\A i : ~InQueue(i, a)') /\ (\A u : ~InBatch(u, a)') /\ (\A d : ~WithClient(d, a))
      BY <1>2, <1>10, <3>4 DEF Unreported, NowhereElse, InQueue
    <3>6. \A n, d : WithClient(n, a)' /\ WithClient(d, a)' => n = d
      BY <1>3, <3>5
    <3> HIDE DEF Unreported, InQueue, InBatch, WithClient, Fresh
    <3> QED BY <1>1, <3>3, <3>4, <3>5, <3>6, FirstReport
  <2>3. CASE ~(b = a /\ fire)
    BY <1>4, <1>10, <2>1, <2>3
  <2> QED BY <2>2, <2>3
<1>11. CASE /\ dbQueue' = dbQueue
            /\ \/ http'[c] = Idle
               \/ http'[c].op = "arm"
  <2>1. ~WithClient(c, a)'
    BY <1>11 DEF Idle, WithClient
  <2> QED BY <1>4, <1>11, <2>1
<1>12. \/ /\ dbQueue' = Append(dbQueue, t)
          /\ http'[c].op = r.op /\ http'[c].todo = r.todo
       \/ /\ dbQueue' = dbQueue
          /\ Goes(c, r.op, "call", Tail(r.todo)) /\ (r.op \in {"try", "delete"} => http'[c] = Idle)
       \/ dbQueue' = dbQueue /\ r.op = "create" /\ Goes(c, "try", "lock", r.todo)
       \/ dbQueue' = Append(dbQueue, Event(b)) /\ r.op = "try" /\ t.fire /\ Goes(c, "arm", "lock", r.todo)
       \/ dbQueue' = dbQueue /\ http'[c] = Idle
       \/ /\ mem[b].status = "active"
          /\ mem' = [mem EXCEPT ![b] = next] /\ dbQueue' = dbQueue
          /\ r.op = "try" /\ Goes(c, "try", "call", <<Upsert(b, mem[b], next, fire, c)>>)
       \/ /\ dbQueue' = dbQueue
          /\ http'[c] = Idle \/ http'[c].op = "arm"
  BY <1>1 DEF Moves
<1> QED BY <1>5, <1>6, <1>7, <1>8, <1>9, <1>10, <1>11, <1>12

\* Every step keeps the reports of a one-shot alert to one.
LEMMA StepOneReport ==
    ASSUME IInv, [Next]_vars, Clean', \A c \in Clients : ReqKinds(c), \A a \in Alerts : Known(a),
           NEW a \in Alerts, a \notin Repeating, a \notin edited', OneReport(a)
    PROVE  OneReport(a)'
<1>1. TypeOK' /\ (Fresh(a)' => Fresh(a))
  BY StepTyped, FreshIsOld
<1>2. ASSUME batch' = batch \/ batch' = {}, dbQueue' = dbQueue, told' = told,
             \A c \in Clients : WithClient(c, a)' => WithClient(c, a)
      PROVE  OneReport(a)'
  <2>1. \A u : InBatch(u, a)' => InBatch(u, a)
    BY <1>2 DEF InBatch
  <2>2. \A c : WithClient(c, a)' => WithClient(c, a)
    BY <1>2 DEF WithClient
  <2>3. told'[a] = told[a]
    BY <1>2
  <2> HIDE DEF InBatch, WithClient, Fresh, TypeOK
  <2> QED BY <1>1, <1>2, <2>1, <2>2, <2>3, QueueStays
<1>3. ASSUME NEW S \in SUBSET Alerts, CheckAlerts(S) PROVE OneReport(a)'
  BY <1>1, <1>3, CheckOneReport
<1>4. CASE Evaluator
  BY <1>1, <1>4, EnqueueOneReport DEF Evaluator
<1>5. CASE RunUpsert \/ RunDelete \/ RunEvent
  BY <1>1, <1>5, WorkerOneReport
<1>6. CASE (\E t \in expiring : WriteExpired(t)) \/ ExpireTimedOut \/ (\E n \in Timed : PassTime(n)) \/ UNCHANGED vars
  <2>1. batch' = batch /\ dbQueue' = dbQueue /\ told' = told /\ http' = http
    BY <1>6 DEF WriteExpired, ExpireTimedOut, PassTime, vars, history
  <2>2. \A c \in Clients : WithClient(c, a)' => WithClient(c, a)
    BY <2>1 DEF WithClient
  <2> HIDE DEF WithClient
  <2> QED BY <1>2, <2>1, <2>2
<1>7. ASSUME NEW c \in Clients, Arrive(c) PROVE OneReport(a)'
  <2>1. /\ Others(c) /\ batch' = batch /\ dbQueue' = dbQueue /\ told' = told
        /\ http'[c].op \in {"create", "commit", "update", "delete"}
    BY <1>7, ArrivesOn
  <2>2. \A n \in Clients : WithClient(n, a)' => WithClient(n, a)
    BY <2>1 DEF WithClient, Others
  <2> HIDE DEF WithClient
  <2> QED BY <1>2, <2>1, <2>2
<1>8. ASSUME NEW c \in Clients, Proceed(c) PROVE OneReport(a)'
  BY <1>1, <1>8, RequestOneReport
<1> QED BY <1>3, <1>4, <1>5, <1>6, <1>7, <1>8, CleanStep DEF Worker

\* As long as nothing was refused and nothing restarted.
CleanInv == Clean => /\ \A c \in Clients : ReqKinds(c)
                     /\ \A a \in Alerts : Known(a)

FireInv == Clean => \A a \in Alerts \ (Repeating \cup edited) : OneReport(a)

\* A fresh start is clean.
LEMMA StartClean == Init => CleanInv /\ FireInv
<1> SUFFICES ASSUME Init PROVE CleanInv /\ FireInv
  OBVIOUS
<1>1. /\ \A c \in Clients : http[c] = Idle
      /\ mem = db /\ used = {a \in Alerts : db[a] # Absent \/ \E b \in Alerts : db[b].dep = a}
      /\ dbQueue = <<>> /\ batch = {} /\ told = [a \in Alerts |-> 0]
  BY DEF Init
<1>2. \A c \in Clients : ReqKinds(c)
  BY <1>1 DEF Idle, ReqKinds
<1>3. \A c \in Clients : \A a : ~Deleting(c, a) /\ ~WithClient(c, a)
  BY <1>1 DEF Idle, Deleting, WithClient
<1>4. \A a \in Alerts : Known(a)
  BY <1>1, <1>3 DEF Known, Absent
<1>5. ASSUME NEW a \in Alerts PROVE OneReport(a)
  <2>1. told[a] = 0 /\ (\A i : ~InQueue(i, a)) /\ (\A t : ~InBatch(t, a)) /\ (\A c : ~WithClient(c, a))
    <3>1. DOMAIN <<>> = {}
      OBVIOUS
    <3>2. \A i : ~InQueue(i, a)
      BY <1>1, <3>1 DEF InQueue
    <3>3. \A t : ~InBatch(t, a)
      BY <1>1 DEF InBatch
    <3>4. \A c : ~WithClient(c, a)
      BY <1>3 DEF WithClient
    <3> QED BY <1>1, <3>2, <3>3, <3>4
  <2>2. told[a] <= 1 /\ told[a] # 1
    BY <2>1
  <2> HIDE DEF InQueue, InBatch, WithClient
  <2> QED BY <2>1, <2>2 DEF OneReport, Unreported, NowhereElse
<1> QED BY <1>2, <1>4, <1>5 DEF CleanInv, FireInv

\* A clean state stays so.
LEMMA StepClean ==
    ASSUME IInv, [Next]_vars, CleanInv
    PROVE  CleanInv'
<1> SUFFICES ASSUME Clean'
             PROVE  (\A c \in Clients : ReqKinds(c)') /\ (\A a \in Alerts : Known(a)')
  BY DEF CleanInv
<1>1. (\A c \in Clients : ReqKinds(c)) /\ (\A a \in Alerts : Known(a))
  BY CleanStep DEF CleanInv
<1> QED BY <1>1, ReqKept, KnownKept

\* So do the reports in it.
LEMMA StepFire ==
    ASSUME IInv, [Next]_vars, CleanInv, FireInv
    PROVE  FireInv'
<1> SUFFICES ASSUME Clean', NEW a \in Alerts, a \notin Repeating, a \notin edited'
             PROVE  OneReport(a)'
  BY DEF FireInv
<1>1. Clean /\ (\A c \in Clients : ReqKinds(c)) /\ (\A n \in Alerts : Known(n))
  BY CleanStep DEF CleanInv
<1>2. edited \subseteq edited'
  <2>1. CASE Goings
    BY <1>1, <2>1, RowsMove
  <2>2. ASSUME NEW c \in Clients, Arrive(c) PROVE edited \subseteq edited'
    BY <1>1, <2>2, RowsArrive
  <2> QED BY <2>1, <2>2, CleanStep DEF Goings
<1>3. OneReport(a)
  BY <1>1, <1>2 DEF FireInv
<1> QED BY <1>1, <1>3, StepOneReport

\* Both invariants hold for ever.
LEMMA CleanAlways == Spec => [](IInv /\ CleanInv)
<1>1. Init => CleanInv
  BY StartClean
<1>2. IInv /\ [Next]_vars /\ CleanInv => CleanInv'
  BY StepClean
<1> QED BY Invariance, <1>1, <1>2, PTL DEF Spec

\* A one-shot alert that no PUT has touched is reported at most once, whatever the
\* evaluator, the worker, the expiry timer and any number of requests do, as long as no
\* write is refused and the process is not restarted.
THEOREM ReportedAtMostOnce == Spec => []FiresOnce
<1>1. Init => FireInv
  BY StartClean
<1>2. (IInv /\ CleanInv) /\ [Next]_vars /\ FireInv => FireInv'
  BY StepFire
<1>3. FireInv => FiresOnce
  BY DEF FireInv, FiresOnce, Clean, OneReport
<1> QED BY CleanAlways, <1>1, <1>2, <1>3, PTL DEF Spec

\* The alert p has fired or is gone, and the delete of p that may still be taken back
\* does not bring it back unfired; or a PUT has touched it.
Done(s) == s \in {"triggered", "none"}
Fired(p) == \/ p \in edited
            \/ /\ Done(mem[p].status)
               /\ \A c \in Clients : Deleting(c, p) => Done(http[c].todo[1].undo.status)

\* A row that stands behind p and waits no longer; a request that has fired p, or is
\* about to arm what waits behind it.
Behind(r, p) == r.dep = p /\ r.status \in {"active", "triggered"}
Firer(c, p) == /\ http[c].todo[1].id = p
               /\ \/ http[c].op = "try" /\ http[c].todo[1].fire
                  \/ http[c].op = "arm" /\ http[c].at = "lock"

StepInv ==
    Clean => \A p \in Alerts :
                /\ \A a \in Alerts \ edited :
                      /\ Behind(mem[a], p) => Fired(p)
                      /\ \A c \in Clients : Deleting(c, a) /\ Behind(http[c].todo[1].undo, p) => Fired(p)
                /\ \A c \in Clients : Firer(c, p) => Fired(p) /\ p \in used

\* An alert that has fired stays so.
LEMMA FiredStays ==
    ASSUME IInv, [Next]_vars, Clean', \A c \in Clients : ReqKinds(c), \A a \in Alerts : Known(a),
           NEW p \in Alerts, p \in used, Fired(p)
    PROVE  Fired(p)'
<1>1. CASE Goings
  <2>1. RowMoves(p) /\ edited' = edited
    BY <1>1, RowsMove
  <2>2. \A c \in Clients : Deleting(c, p)' => Deleting(c, p) /\ http'[c].todo = http[c].todo
    BY <1>1, DeletesAreOld DEF Deleting
  <2> QED BY <2>1, <2>2 DEF RowMoves, Fired, Done
<1>2. ASSUME NEW c \in Clients, Arrive(c) PROVE Fired(p)'
  <2>1. /\ edited \subseteq edited' /\ RowArrives(c, p)
        /\ Deleting(c, p)' => mem[p].status # "none" /\ http'[c].todo[1].undo = mem[p]
    BY <1>2, RowsArrive
  <2>2. Others(c)
    BY <1>2, ArrivesOn
  <2>3. \A d \in Clients : d # c => (Deleting(d, p)' <=> Deleting(d, p)) /\ http'[d] = http[d]
    BY <2>2 DEF Others, Deleting
  <2>4. Absent.status = "none"
    BY DEF Absent
  <2> QED BY <2>1, <2>3, <2>4 DEF RowArrives, Fired, Done
<1> QED BY <1>1, <1>2, CleanStep DEF Goings

\* An alert that fires in this step has fired after it.
LEMMA JustFired ==
    ASSUME IInv, \A c \in Clients : ReqKinds(c), \A a \in Alerts : Known(a), Goings,
           NEW p \in Alerts, mem[p].status = "active", mem'[p].status = "triggered"
    PROVE  Fired(p)' /\ p \in used
<1>1. p \in used /\ \A c \in Clients : ~Deleting(c, p)
  BY DEF Known
<1>2. \A c \in Clients : Deleting(c, p)' => Deleting(c, p)
  BY DeletesAreOld DEF Deleting
<1> QED BY <1>1, <1>2 DEF Fired, Done

\* A request that has fired an alert, or is about to arm what waits behind it.
LEMMA FirersStay ==
    ASSUME IInv, [Next]_vars, Clean', \A c \in Clients : ReqKinds(c), \A a \in Alerts : Known(a),
           StepInv, NEW p \in Alerts, NEW c \in Clients, Firer(c, p)'
    PROVE  Fired(p)' /\ p \in used'
<1>1. Clean /\ \/ \E S \in SUBSET Alerts : CheckAlerts(S)
               \/ Evaluator \/ Worker \/ ExpireTimedOut
               \/ \E n \in Clients : Arrive(n) \/ Proceed(n)
               \/ \E a \in Timed : PassTime(a)
               \/ UNCHANGED vars
  BY CleanStep
<1>2. used \subseteq used'
  <2>1. CASE Goings
    BY <2>1, RowsMove
  <2>2. ASSUME NEW n \in Clients, Arrive(n) PROVE used \subseteq used'
    BY <2>2, RowsArrive
  <2> QED BY <1>1, <2>1, <2>2 DEF Goings
\* It had fired the alert before.
<1>3. ASSUME http'[c].todo = http[c].todo,
             \/ http[c].op = "try" /\ http[c].todo[1].fire
             \/ http[c].op = "arm" /\ http[c].at = "lock"
      PROVE  Fired(p)' /\ p \in used'
  <2>1. Firer(c, p)
    BY <1>3 DEF Firer
  <2>2. Fired(p) /\ p \in used
    BY <1>1, <2>1 DEF StepInv
  <2>3. Fired(p)'
    BY <2>2, FiredStays
  <2> QED BY <1>2, <2>2, <2>3
<1>4. CASE SameWork /\ (http'[c].at = "lock" => http[c].at = "lock")
  BY <1>3, <1>4 DEF SameWork, Firer
<1>5. ASSUME NEW n \in Clients, n # c, Others(n)
      PROVE  Fired(p)' /\ p \in used'
  <2>1. http'[c] = http[c]
    BY <1>5 DEF Others
  <2> QED BY <1>3, <2>1 DEF Firer
<1>6. CASE Arrive(c)
  <2>1. http'[c].op \in {"create", "commit", "update", "delete"}
    BY <1>6, ArrivesOn
  <2> QED BY <2>1 DEF Firer
<1>7. CASE Proceed(c)
  <2> DEFINE r == http[c]
             t == r.todo[1]
             a == t.id
             next == IF a \in past THEN Expired(mem[a])
                     ELSE IF mem[a].gate THEN Ungated(mem[a]) ELSE Triggered(mem[a])
             fire == a \notin past /\ ~mem[a].gate
  <2>1. Moves(c) /\ t \in Task /\ r.todo # <<>> /\ Idle.op = "idle" /\ ReqKinds(c)
    BY <1>7, MovesOn DEF Idle
  <2>2. r.todo \in Seq(Task) /\ 1 \in DOMAIN r.todo
    <3>1. r \in HttpState
      BY DEF IInv, TypeOK
    <3>2. r.todo \in Seq(Task)
      BY <3>1 DEF HttpState
    <3> QED BY <2>1, <3>2
  <2>3. CASE http'[c].op = r.op /\ http'[c].at = "wait" /\ http'[c].todo = r.todo
    BY <1>3, <2>3 DEF Firer
  <2>4. CASE Goes(c, r.op, "call", Tail(r.todo)) /\ (r.op \in {"try", "delete"} => http'[c] = Idle)
    BY <2>1, <2>4 DEF Goes, Firer
  <2>5. CASE r.op = "create" /\ Goes(c, "try", "lock", r.todo)
    <3>1. ~t.fire
      BY <2>1, <2>2, <2>5 DEF ReqKinds
    <3> QED BY <2>1, <2>5, <3>1 DEF Goes, Firer
  <2>6. CASE r.op = "try" /\ t.fire /\ Goes(c, "arm", "lock", r.todo)
    BY <1>3, <2>1, <2>6 DEF Goes, Firer
  <2>7. CASE http'[c] = Idle
    BY <2>1, <2>7 DEF Firer
  <2>8. CASE /\ mem[a].status = "active" /\ mem' = [mem EXCEPT ![a] = next]
             /\ Goes(c, "try", "call", <<Upsert(a, mem[a], next, fire, c)>>)
    <3> DEFINE e == Upsert(a, mem[a], next, fire, c)
    <3>1. e.id = a /\ e.fire = fire
      BY DEF Upsert
    <3>2. <<e>>[1] = e
      OBVIOUS
    <3>3. http'[c] # Idle
      BY <2>1 DEF Firer
    <3>4. http'[c].op = "try" /\ http'[c].at = "call" /\ http'[c].todo[1] = e
      <4> HIDE DEF e
      <4> QED BY <2>8, <3>2, <3>3 DEF Goes, e
    <3>5. fire
      BY <3>1, <3>4 DEF Firer
    <3>6. a \in Alerts /\ mem[a] \in Row /\ mem'[a] = Triggered(mem[a])
      BY <2>1, <2>8, <3>5 DEF Task, IInv, TypeOK
    <3>7. mem'[a].status = "triggered"
      BY <3>6, RowKeeps
    <3>8. a = p
      BY <3>1, <3>4 DEF Firer
    <3>9. Fired(p)' /\ p \in used
      BY <1>7, <2>8, <3>7, <3>8, JustFired DEF Goings
    <3> HIDE DEF Fired
    <3> QED BY <1>2, <3>9
  <2>9. CASE http'[c].op = "arm" /\ http'[c].at = "call"
    BY <2>9 DEF Firer
  <2>10. \/ http'[c].op = r.op /\ http'[c].at = "wait" /\ http'[c].todo = r.todo
         \/ Goes(c, r.op, "call", Tail(r.todo)) /\ (r.op \in {"try", "delete"} => http'[c] = Idle)
         \/ r.op = "create" /\ Goes(c, "try", "lock", r.todo)
         \/ r.op = "try" /\ t.fire /\ Goes(c, "arm", "lock", r.todo)
         \/ http'[c] = Idle
         \/ /\ mem[a].status = "active" /\ mem' = [mem EXCEPT ![a] = next]
            /\ Goes(c, "try", "call", <<Upsert(a, mem[a], next, fire, c)>>)
         \/ http'[c].op = "arm" /\ http'[c].at = "call"
    BY <2>1 DEF Moves
  <2> QED BY <2>3, <2>4, <2>5, <2>6, <2>7, <2>8, <2>9, <2>10
<1>8. ASSUME NEW n \in Clients, Arrive(n) \/ Proceed(n)
      PROVE  Fired(p)' /\ p \in used'
  <2>1. Others(n)
    BY <1>8, ArrivesOn, MovesOn
  <2> QED BY <1>5, <1>6, <1>7, <1>8, <2>1
<1> HIDE DEF Fired
<1> QED BY <1>1, <1>4, <1>8, WorkStays

\* A step behind p that waits no longer was let go by p.
LEMMA BehindFired ==
    ASSUME IInv, [Next]_vars, Clean', \A c \in Clients : ReqKinds(c), \A a \in Alerts : Known(a),
           StepInv, NEW p \in Alerts, NEW a \in Alerts, a \notin edited', Behind(mem'[a], p)
    PROVE  Fired(p)'
<1>1. Clean /\ ((\E n \in Clients : Arrive(n)) \/ Goings)
  BY CleanStep DEF Goings
<1>2. ASSUME a \notin edited, Behind(mem[a], p) PROVE Fired(p)'
  <2>1. Fired(p) /\ p \in used
    BY <1>1, <1>2 DEF StepInv, Known, Behind
  <2> QED BY <2>1, FiredStays
<1>3. CASE Goings
  <2>1. RowMoves(a) /\ edited' = edited
    BY <1>3, RowsMove
  <2>2. CASE mem'[a] = mem[a]
    BY <1>2, <2>1, <2>2
  <2>3. CASE mem'[a].dep = mem[a].dep /\ mem[a].status = "active"
    BY <1>2, <2>1, <2>3 DEF Behind
  <2>4. CASE mem'[a].status = "expired"
    BY <2>4 DEF Behind
  <2>5. CASE mem'[a].dep = mem[a].dep /\ Arms(mem[a].dep)
    <3>1. mem[a].dep = p
      BY <2>5 DEF Behind
    <3>2. CASE mem[p].status = "active" /\ mem'[p].status = "triggered"
      BY <1>3, <3>2, JustFired
    <3>3. ASSUME NEW c \in Clients, http[c].op = "arm", http[c].at = "lock", http[c].todo[1].id = p
          PROVE  Fired(p)'
      <4>1. Fired(p) /\ p \in used
        BY <1>1, <3>3 DEF StepInv, Firer
      <4> QED BY <4>1, FiredStays
    <3> QED BY <2>5, <3>1, <3>2, <3>3 DEF Arms
  <2>6. ASSUME NEW c \in Clients, Deleting(c, a), mem'[a] = http[c].todo[1].undo
        PROVE  Fired(p)'
    <3>1. Fired(p) /\ p \in used
      <4>1. p \in used
        BY <2>6, StoreAssumption DEF Known, Behind
      <4> QED BY <1>1, <2>1, <2>6, <4>1 DEF StepInv
    <3> QED BY <3>1, FiredStays
  <2> HIDE DEF Fired
  <2> QED BY <2>1, <2>2, <2>3, <2>4, <2>5, <2>6 DEF RowMoves
<1>4. ASSUME NEW c \in Clients, Arrive(c) PROVE Fired(p)'
  <2>1. edited \subseteq edited' /\ RowArrives(c, a)
    BY <1>4, RowsArrive
  <2>2. CASE mem'[a].status = mem[a].status /\ mem'[a].dep = mem[a].dep
    BY <1>2, <2>1, <2>2 DEF Behind
  <2>3. p # NoAlert /\ Absent.status = "none"
    BY StoreAssumption DEF Absent
  <2> HIDE DEF Fired
  <2> QED BY <2>1, <2>2, <2>3 DEF RowArrives, Behind
<1> QED BY <1>1, <1>3, <1>4

\* The same for what a delete may put back.
LEMMA DeletedFired ==
    ASSUME IInv, [Next]_vars, Clean', \A c \in Clients : ReqKinds(c), \A a \in Alerts : Known(a),
           StepInv, NEW p \in Alerts, NEW a \in Alerts, a \notin edited',
           NEW c \in Clients, Deleting(c, a)', Behind(http'[c].todo[1].undo, p)
    PROVE  Fired(p)'
<1>1. Clean /\ ((\E n \in Clients : Arrive(n)) \/ Goings)
  BY CleanStep DEF Goings
<1>2. ASSUME a \notin edited, Deleting(c, a), http'[c].todo = http[c].todo PROVE Fired(p)'
  <2>1. Fired(p) /\ p \in used
    <3>1. p \in used
      BY <1>2, StoreAssumption DEF Known, Behind
    <3> QED BY <1>1, <1>2, <3>1 DEF StepInv
  <2> QED BY <2>1, FiredStays
<1>3. CASE Goings
  <2>1. edited' = edited /\ Deleting(c, a) /\ http'[c].todo = http[c].todo
    BY <1>3, RowsMove, DeletesAreOld DEF Deleting
  <2> QED BY <1>2, <2>1
<1>4. ASSUME NEW n \in Clients, Arrive(n) PROVE Fired(p)'
  <2>1. edited \subseteq edited' /\ Others(n)
    BY <1>4, RowsArrive, ArrivesOn
  <2>2. CASE n # c
    <3>1. http'[c] = http[c]
      BY <2>1, <2>2 DEF Others
    <3>2. Deleting(c, a)
      BY <3>1 DEF Deleting
    <3> QED BY <1>2, <2>1, <3>1, <3>2
  <2>3. CASE n = c
    <3>1. http'[c].todo[1].undo = mem[a]
      BY <1>4, <2>3, RowsArrive
    <3>2. Fired(p) /\ p \in used
      BY <1>1, <2>1, <3>1 DEF StepInv, Known, Behind
    <3> QED BY <3>2, FiredStays
  <2> QED BY <2>2, <2>3
<1> QED BY <1>1, <1>3, <1>4

\* Every step keeps the queued steps behind what they depend on.
LEMMA StepSteps ==
    ASSUME IInv, [Next]_vars, CleanInv, StepInv
    PROVE  StepInv'
<1> SUFFICES ASSUME Clean', NEW p \in Alerts
             PROVE  /\ \A a \in Alerts \ edited' :
                          /\ Behind(mem'[a], p) => Fired(p)'
                          /\ \A c \in Clients :
                                Deleting(c, a)' /\ Behind(http'[c].todo[1].undo, p) => Fired(p)'
                    /\ \A c \in Clients : Firer(c, p)' => Fired(p)' /\ p \in used'
  BY DEF StepInv
<1>1. (\A c \in Clients : ReqKinds(c)) /\ (\A a \in Alerts : Known(a))
  BY CleanStep DEF CleanInv
<1> QED BY <1>1, BehindFired, DeletedFired, FirersStay

\* What the table must be like when the process first starts: no step in it is ahead of
\* the alert it stands behind.
StepsInOrder(rows) == \A a, p \in Alerts : Behind(rows[a], p) => Done(rows[p].status)

\* A table in order is a start in order.
LEMMA StartSteps ==
    ASSUME \A rows \in StartRows : StepsInOrder(rows), Init
    PROVE  StepInv
<1>1. StepsInOrder(mem) /\ \A c \in Clients : http[c] = Idle
  BY DEF Init
<1>2. \A c \in Clients : \A p : ~Deleting(c, p) /\ ~Firer(c, p)
  BY <1>1 DEF Idle, Deleting, Firer
<1> QED BY <1>1, <1>2 DEF StepInv, StepsInOrder, Fired

\* A queued step does not become live, and does not fire, before the alert it depends on
\* has fired or was deleted; as long as no write is refused and the process is not
\* restarted, and when the table it started from was in order.
THEOREM StepsStayBehind ==
    ASSUME \A rows \in StartRows : StepsInOrder(rows)
    PROVE  Spec => [](fails = 0 /\ crashes = 0 => StepsWait)
<1>1. Init => StepInv
  BY StartSteps
<1>2. (IInv /\ CleanInv) /\ [Next]_vars /\ StepInv => StepInv'
  BY StepSteps
<1>3. IInv /\ StepInv => (fails = 0 /\ crashes = 0 => StepsWait)
  <2> SUFFICES ASSUME IInv, StepInv, fails = 0, crashes = 0, NEW a \in Alerts \ edited,
                      mem[a].dep # NoAlert, mem[a].status \in {"active", "triggered"},
                      mem[a].dep \notin edited
               PROVE  mem[mem[a].dep].status \in {"triggered", "none"}
    BY DEF StepsWait
  <2>1. mem[a] \in Row
    BY DEF IInv, TypeOK
  <2>2. mem[a].dep \in Alerts
    BY <2>1 DEF Row
  <2>3. Fired(mem[a].dep)
    BY <2>2 DEF StepInv, Clean, Behind
  <2> QED BY <2>3 DEF Fired, Done
<1> QED BY CleanAlways, <1>1, <1>2, <1>3, PTL DEF Spec

-----------------------------------------------------------------------------
(* What holds as long as no write was refused and no request came; restarts *)
(* are allowed.                                                             *)

Alone == fails = 0 /\ ops = 0

\* A write of the queue that will be reported; an alert whose report is queued or told;
\* an alert that has fired, as far as anyone has got with it.
Firing(i, a) == i \in DOMAIN dbQueue /\ dbQueue[i].id = a /\ dbQueue[i].fire
Settled(a) == told[a] > 0 \/ \E i \in DOMAIN dbQueue : dbQueue[i].id = a /\ dbQueue[i].op = "event"
Reporting(a) == \/ Settled(a)
                \/ \E i : Firing(i, a)
                \/ \E t \in batch : t.id = a /\ t.fire

\* The write of a trigger is the last write of its alert, and once it is in the table
\* nothing that waits can overwrite it.
Durable(a) ==
    /\ Reporting(a) => mem[a].status = "triggered"
    /\ \A t \in batch : t.id = a /\ t.fire => t.row.status = "triggered"
    /\ \A i : Firing(i, a) => /\ dbQueue[i].row.status = "triggered"
                              /\ \A j \in DOMAIN dbQueue : j > i => dbQueue[j].id # a
                              /\ \A t \in batch : t.id # a
    /\ Settled(a) => /\ db[a].status = "triggered"
                     /\ \A i \in DOMAIN dbQueue : dbQueue[i].id = a => dbQueue[i].op = "event"
                     /\ \A t \in batch : t.id # a

AloneInv ==
    Alone => /\ \A c \in Clients : http[c] = Idle
             /\ \A t \in expiring : mem[t.id].status = "expired"
             /\ \A i \in DOMAIN dbQueue : dbQueue[i].op # "delete" /\ dbQueue[i].by = NoClient
             /\ \A t, u \in batch : t.id = u.id => t = u
             /\ \A a \in Alerts \ Repeating : Durable(a)

\* Without requests and refusals there is the evaluator, the worker, the timer, and restarts.
LEMMA AloneStep ==
    ASSUME IInv, [Next]_vars, AloneInv, Alone'
    PROVE  /\ Alone
           /\ \/ \E S \in SUBSET Alerts : CheckAlerts(S)
              \/ Evaluator \/ RunUpsert \/ RunEvent \/ (\E t \in expiring : WriteExpired(t))
              \/ ExpireTimedOut \/ (\E a \in Timed : PassTime(a)) \/ Crash
              \/ UNCHANGED vars
<1>1. fails \in Nat /\ ops \in Nat /\ fails' = 0 /\ ops' = 0
  BY DEF IInv, TypeOK, Alone
<1>2. fails + 1 # 0 /\ ops + 1 # 0
  BY <1>1
<1>3. ~Refuse /\ \A c \in Clients : ~Arrive(c)
  BY <1>1, <1>2 DEF Refuse, FailUpsert, FailDelete, FailExpired, Arrive, Create, CommitCreated, Update,
                    Delete, Begin
<1>4. ASSUME NEW c \in Clients, Proceed(c) PROVE FALSE
  <2>1. fails' = fails /\ ops' = ops
    BY <1>4 DEF Proceed, CallSync, ResumeOk, ResumeFail, TryTrigger, ArmDependents, counters
  <2>2. http[c] = Idle
    BY <1>1, <2>1 DEF AloneInv, Alone
  <2> QED BY <1>4, <2>2 DEF Proceed, CallSync, ResumeOk, ResumeFail, TryTrigger, ArmDependents, Idle
<1>5. ASSUME RunDelete PROVE FALSE
  <2>1. fails' = fails /\ ops' = ops
    BY <1>5 DEF RunDelete, counters
  <2>2. dbQueue # <<>> /\ dbQueue \in Seq(Task) /\ Head(dbQueue).op = "delete"
    BY <1>5 DEF RunDelete, WorkerReady, IInv, TypeOK
  <2>3. 1 \in DOMAIN dbQueue /\ dbQueue[1].op = "delete"
    BY <2>2
  <2> QED BY <1>1, <2>1, <2>3 DEF AloneInv, Alone
<1>6. fails' = fails /\ ops' = ops
  <2>1. ASSUME NEW S \in SUBSET Alerts, CheckAlerts(S) PROVE fails' = fails /\ ops' = ops
    BY <2>1 DEF CheckAlerts
  <2>2. CASE Evaluator
    BY <2>2 DEF Evaluator, EnqueueWrite, counters
  <2>3. CASE Worker
    BY <2>3 DEF Worker, RunUpsert, RunDelete, RunEvent, WriteExpired, counters
  <2>4. CASE ExpireTimedOut \/ UNCHANGED vars \/ Crash \/ \E a \in Timed : PassTime(a)
    BY <2>4 DEF ExpireTimedOut, PassTime, Crash, vars, counters
  <2> QED BY <1>3, <1>4, <2>1, <2>2, <2>3, <2>4 DEF Next
<1> QED BY <1>1, <1>3, <1>4, <1>5, <1>6 DEF Next, Worker, Alone

\* Rows change where they were live; the queue and what was told stay.
LEMMA LiveRowsChange ==
    ASSUME IInv, NEW a \in Alerts, Durable(a),
           mem'[a] = mem[a] \/ Live(mem[a].status),
           dbQueue' = dbQueue, told' = told, db' = db,
           \A t \in batch' : \/ t \in batch
                             \/ /\ t.id = a => Live(mem[a].status)
                                /\ t.id = a /\ t.fire => /\ t.row.status = "triggered"
                                                         /\ mem'[a].status = "triggered"
    PROVE  Durable(a)'
<1>1. (Settled(a)' <=> Settled(a)) /\ (\A i : Firing(i, a)' <=> Firing(i, a))
  BY DEF Settled, Firing
<1>2. Live(mem[a].status) => ~Reporting(a)
  BY DEF Durable, Live
<1>3. Settled(a) \/ (\E i : Firing(i, a)) => Reporting(a)
  BY DEF Reporting
<1>4. Reporting(a)' => mem'[a].status = "triggered"
  <2>1. CASE Reporting(a)
    BY <1>2, <2>1 DEF Durable
  <2>2. CASE ~Reporting(a)
    <3> SUFFICES ASSUME NEW t \in batch', t.id = a, t.fire PROVE mem'[a].status = "triggered"
      BY <1>1, <1>3, <2>2 DEF Reporting
    <3>1. t \notin batch
      BY <2>2 DEF Reporting
    <3> QED BY <3>1
  <2> QED BY <2>1, <2>2
<1>5. \A t \in batch' : t.id = a /\ t.fire => t.row.status = "triggered"
  BY DEF Durable
<1>6. ASSUME NEW i, Firing(i, a)
      PROVE  /\ dbQueue[i].row.status = "triggered"
             /\ \A j \in DOMAIN dbQueue : j > i => dbQueue[j].id # a
             /\ \A t \in batch' : t.id # a
  <2>1. ~Live(mem[a].status)
    BY <1>2, <1>3, <1>6
  <2> QED BY <1>6, <2>1 DEF Durable
<1>7. Settled(a) => /\ db[a].status = "triggered"
                    /\ \A i \in DOMAIN dbQueue : dbQueue[i].id = a => dbQueue[i].op = "event"
                    /\ \A t \in batch' : t.id # a
  <2>1. Settled(a) => ~Live(mem[a].status)
    BY <1>2, <1>3
  <2> QED BY <2>1 DEF Durable
<1> HIDE DEF Settled, Firing, Reporting
<1> QED BY <1>1, <1>4, <1>5, <1>6, <1>7 DEF Durable

\* A pass of the evaluator.
LEMMA CheckAlone ==
    ASSUME IInv, AloneInv, Alone, NEW S \in SUBSET Alerts, CheckAlerts(S)
    PROVE  /\ \A t \in expiring' : mem'[t.id].status = "expired"
           /\ \A t, u \in batch' : t.id = u.id => t = u
           /\ \A a \in Alerts \ Repeating : Durable(a)'
<1> DEFINE expire == S \cap past
           clear  == {n \in S \ past : mem[n].gate}
           fire   == S \ (past \cup clear)
           arm    == UNION {Dependents(p) : p \in fire \ Repeating}
           new(n) == CASE n \in expire           -> Expired(mem[n])
                       [] n \in clear            -> Ungated(mem[n])
                       [] n \in fire \ Repeating -> Triggered(mem[n])
                       [] n \in arm              -> Armed(mem[n])
                       [] OTHER                  -> mem[n]
           up(n)  == Upsert(n, mem[n], new(n), n \in fire, NoClient)
<1>1. /\ mem' = [n \in Alerts |-> new(n)] /\ S \subseteq ActiveIndex /\ batch = {}
      /\ batch' = {up(n) : n \in S \cup arm}
      /\ told' = told /\ dbQueue' = dbQueue /\ db' = db /\ expiring' = expiring
  BY DEF CheckAlerts, history
<1>2. \A n \in S : mem[n].status = "active"
  BY <1>1 DEF ActiveIndex
<1>3. \A n \in arm : mem[n].status = "waiting" /\ n \in Alerts
  BY DEF Dependents
<1>4. \A n \in Alerts : n \notin S \cup arm => mem'[n] = mem[n]
  <2> SUFFICES ASSUME NEW n \in Alerts, n \notin S \cup arm PROVE new(n) = mem[n]
    BY <1>1
  <2>1. n \notin expire /\ n \notin clear /\ n \notin fire /\ n \notin arm
    OBVIOUS
  <2> HIDE DEF expire, clear, fire, arm
  <2> QED BY <2>1
<1>5. \A n \in fire \ Repeating : new(n) = Triggered(mem[n])
  <2> SUFFICES ASSUME NEW n \in fire \ Repeating PROVE new(n) = Triggered(mem[n])
    OBVIOUS
  <2>1. n \notin expire /\ n \notin clear /\ n \notin arm
    BY <1>2, <1>3
  <2> HIDE DEF expire, clear, fire, arm
  <2> QED BY <2>1
<1>6. \A n : up(n).id = n /\ (up(n).fire <=> n \in fire) /\ up(n).row = new(n)
  BY DEF Upsert
<1>7. fire \subseteq Alerts /\ \A n \in Alerts : mem[n] \in Row
  BY DEF IInv, TypeOK
<1> HIDE DEF up, new, fire, arm
<1>8. \A t \in batch' : \E n \in S \cup arm : t = up(n) /\ t.id = n
  BY <1>1, <1>6
<1>9. \A t, u \in batch' : t.id = u.id => t = u
  BY <1>8
<1>10. \A n \in S \cup arm : Live(mem[n].status) /\ n \in Alerts
  BY <1>2, <1>3 DEF Live
<1>11. ASSUME NEW t \in expiring' PROVE mem'[t.id].status = "expired"
  <2>1. mem[t.id].status = "expired" /\ t.id \in Alerts
    BY <1>1, <1>11 DEF AloneInv, IInv, TypeOK, Task
  <2>2. t.id \notin S \cup arm
    BY <1>10, <2>1 DEF Live
  <2> QED BY <1>4, <2>1, <2>2
<1>12. ASSUME NEW a \in Alerts \ Repeating PROVE Durable(a)'
  <2>1. mem'[a] = mem[a] \/ Live(mem[a].status)
    BY <1>4, <1>10
  <2>2. ASSUME NEW t \in batch', t.id = a
        PROVE  /\ Live(mem[a].status)
               /\ t.fire => t.row.status = "triggered" /\ mem'[a].status = "triggered"
    <3>1. a \in S \cup arm /\ t = up(a)
      BY <1>8, <2>2
    <3>2. CASE t.fire
      <4>1. a \in fire \ Repeating
        BY <1>6, <3>1, <3>2
      <4>2. new(a) = Triggered(mem[a]) /\ mem'[a] = new(a) /\ t.row = new(a)
        BY <1>1, <1>5, <1>6, <3>1, <4>1
      <4> QED BY <1>7, <1>10, <3>1, <4>2, RowKeeps
    <3> QED BY <1>10, <3>1, <3>2
  <2>3. Durable(a)
    BY DEF AloneInv
  <2> HIDE DEF Durable, Live
  <2> QED BY <1>1, <2>1, <2>2, <2>3, LiveRowsChange
<1> QED BY <1>9, <1>11, <1>12

\* The evaluator hands over a write: if it reports a trigger it is the last of its alert.
LEMMA EnqueueAlone ==
    ASSUME IInv, AloneInv, Alone, NEW t \in batch, EnqueueWrite(t), NEW a \in Alerts \ Repeating
    PROVE  Durable(a)'
<1>1. /\ batch' = batch \ {t} /\ dbQueue' = Append(dbQueue, t) /\ told' = told /\ db' = db /\ mem' = mem
      /\ dbQueue \in Seq(Task) /\ t \in Task /\ t.op = "upsert"
  BY DEF EnqueueWrite, store, history, IInv, TypeOK
<1>2. /\ Durable(a)
      /\ \A u \in batch : u.id = t.id => u = t
  BY DEF AloneInv
<1> DEFINE n == Len(dbQueue) + 1
<1>3. /\ \A i \in DOMAIN dbQueue : i \in DOMAIN dbQueue' /\ dbQueue'[i] = dbQueue[i] /\ i < n
      /\ n \in DOMAIN dbQueue' /\ dbQueue'[n] = t
      /\ \A i \in DOMAIN dbQueue' : i \in DOMAIN dbQueue \/ i = n
      /\ ~(n < n)
  <2>1. Len(dbQueue) \in Nat /\ DOMAIN dbQueue = 1..Len(dbQueue)
    BY <1>1
  <2>2. /\ \A i \in DOMAIN dbQueue : i \in DOMAIN dbQueue' /\ dbQueue'[i] = dbQueue[i]
        /\ n \in DOMAIN dbQueue' /\ dbQueue'[n] = t
        /\ \A i \in DOMAIN dbQueue' : i \in DOMAIN dbQueue \/ i = n
    BY <1>1, AppendProperties
  <2>3. \A i \in 1..Len(dbQueue) : i < n
    BY <2>1
  <2> QED BY <2>1, <2>2, <2>3
<1> HIDE DEF n
<1>4. Settled(a)' <=> Settled(a)
  BY <1>1, <1>3 DEF Settled
<1>5. \A i : Firing(i, a)' => Firing(i, a) \/ (i = n /\ t.id = a /\ t.fire)
  BY <1>3 DEF Firing
<1>6. Reporting(a)' => Reporting(a)
  BY <1>1, <1>4, <1>5 DEF Reporting
<1>7. \A u \in batch' : u.id = a /\ u.fire => u.row.status = "triggered"
  BY <1>1, <1>2 DEF Durable
<1>8. ASSUME NEW i, Firing(i, a)'
      PROVE  /\ dbQueue'[i].row.status = "triggered"
             /\ \A j \in DOMAIN dbQueue' : j > i => dbQueue'[j].id # a
             /\ \A u \in batch' : u.id # a
  <2>1. CASE i = n /\ t.id = a /\ t.fire
    <3>1. t.row.status = "triggered" /\ \A u \in batch' : u.id # a
      BY <1>1, <1>2, <2>1 DEF Durable
    <3>2. \A j \in DOMAIN dbQueue' : ~(j > n)
      <4>1. Len(dbQueue) \in Nat
        BY <1>1
      <4>2. \A j \in DOMAIN dbQueue : ~(j > n)
        BY <1>1, <4>1 DEF n
      <4>3. ~(n > n)
        BY <4>1 DEF n
      <4> QED BY <1>3, <4>2, <4>3
    <3> QED BY <1>3, <2>1, <3>1, <3>2
  <2>2. CASE Firing(i, a)
    <3>1. t.id # a
      BY <1>2, <2>2 DEF Durable
    <3> QED BY <1>1, <1>2, <1>3, <2>2, <3>1 DEF Durable, Firing
  <2> QED BY <1>5, <1>8, <2>1, <2>2
<1>9. ASSUME Settled(a)
      PROVE  /\ db'[a].status = "triggered"
             /\ \A i \in DOMAIN dbQueue' : dbQueue'[i].id = a => dbQueue'[i].op = "event"
             /\ \A u \in batch' : u.id # a
  BY <1>1, <1>2, <1>3, <1>9 DEF Durable
<1> HIDE DEF Settled, Firing, Reporting
<1> QED BY <1>1, <1>2, <1>4, <1>6, <1>7, <1>8, <1>9 DEF Durable

\* The worker saves the first write, or passes on the first report.
LEMMA WorkAlone ==
    ASSUME IInv, AloneInv, Alone, RunUpsert \/ RunEvent, NEW a \in Alerts \ Repeating
    PROVE  Durable(a)'
<1> DEFINE t == Head(dbQueue)
           rest == Tail(dbQueue)
<1>1. dbQueue \in Seq(Task) /\ dbQueue # <<>>
  BY DEF RunUpsert, RunEvent, WorkerReady, IInv, TypeOK
<1>2. t = dbQueue[1] /\ 1 \in DOMAIN dbQueue /\ t \in Task /\ rest \in Seq(Task) /\ Len(rest) \in Nat
  BY <1>1
<1>3. /\ t.by = NoClient /\ (t.fire => t.op = "upsert") /\ t.id \in Alerts
      /\ Durable(a) /\ batch' = batch /\ mem' = mem
  BY <1>2 DEF AloneInv, IInv, Queued, Task, RunUpsert, RunEvent, store
<1>4. \A i \in DOMAIN rest : /\ i + 1 \in DOMAIN dbQueue /\ rest[i] = dbQueue[i + 1]
                             /\ i + 1 > 1 /\ i \in Nat
  <2>1. \A i \in DOMAIN rest : i \in Nat /\ i + 1 > 1
    BY <1>2
  <2> QED BY <1>1, <2>1, TailAt
<1>5. \A i, j \in DOMAIN rest : j > i => j + 1 > i + 1
  BY <1>4
<1> HIDE DEF t, rest
\* What follows the first task is as it was.
<1>6. /\ \A i \in DOMAIN rest : rest[i].id = a /\ rest[i].fire => Firing(i + 1, a)
      /\ (\E i \in DOMAIN rest : rest[i].id = a /\ rest[i].op = "event") => Settled(a)
  BY <1>4 DEF Firing, Settled
<1>7. ASSUME NEW i \in DOMAIN rest, rest[i].id = a, rest[i].fire
      PROVE  /\ rest[i].row.status = "triggered"
             /\ \A j \in DOMAIN rest : j > i => rest[j].id # a
             /\ \A u \in batch : u.id # a
  <2>1. Firing(i + 1, a)
    BY <1>6, <1>7
  <2>2. /\ dbQueue[i + 1].row.status = "triggered"
        /\ \A j \in DOMAIN dbQueue : j > i + 1 => dbQueue[j].id # a
        /\ \A u \in batch : u.id # a
    BY <1>3, <2>1 DEF Durable
  <2> QED BY <1>4, <1>5, <1>7, <2>2
<1>8. CASE RunUpsert
  <2>1. /\ dbQueue' = rest \o Reports(t) /\ told' = told /\ t.op = "upsert"
        /\ db' = [db EXCEPT ![t.id] = t.row] /\ db \in [Alerts -> Row]
    BY <1>8 DEF RunUpsert, WorkerReady, t, rest, IInv, TypeOK
  <2>2. CASE ~t.fire
    <3>1. dbQueue' = rest
      BY <1>2, <2>1, <2>2 DEF Reports
    <3>2. \A i : Firing(i, a)' => i \in DOMAIN rest /\ rest[i].id = a /\ rest[i].fire
      BY <3>1 DEF Firing
    <3>3. Settled(a)' => Settled(a)
      BY <1>6, <2>1, <3>1 DEF Settled
    <3>4. Reporting(a)' => Reporting(a)
      BY <1>3, <1>6, <3>2, <3>3 DEF Reporting
    <3>5. Settled(a) => t.id # a
      BY <1>2, <1>3, <2>1 DEF Durable
    <3>6. Settled(a)' => /\ db'[a].status = "triggered"
                         /\ \A i \in DOMAIN dbQueue' : dbQueue'[i].id = a => dbQueue'[i].op = "event"
                         /\ \A u \in batch' : u.id # a
      BY <1>3, <1>4, <2>1, <3>1, <3>3, <3>5 DEF Durable
    <3> HIDE DEF Settled, Firing, Reporting
    <3> QED BY <1>3, <1>7, <3>1, <3>2, <3>4, <3>6 DEF Durable
  <2>3. CASE t.fire
    <3>1. dbQueue' = rest \o <<Event(t.id)>>
      BY <1>3, <2>1, <2>3 DEF Reports
    <3>2. \A i \in DOMAIN dbQueue' : \/ i \in DOMAIN rest /\ dbQueue'[i] = rest[i]
                                     \/ dbQueue'[i] = Event(t.id)
      <4>1. Event(t.id) \in Task
        <5>1. Absent \in Row
          BY DEF Absent, Row, Status
        <5> QED BY <1>3, <5>1 DEF Event, Task
      <4>2. PICK e \in Task : e = Event(t.id)
        BY <4>1
      <4> QED BY <1>2, <3>1, <4>2, AddedAt
    <3>3. Event(t.id).id = t.id /\ Event(t.id).op = "event" /\ ~Event(t.id).fire
      BY DEF Event
    <3>4. \A i : Firing(i, a)' => i \in DOMAIN rest /\ rest[i].id = a /\ rest[i].fire /\ dbQueue'[i] = rest[i]
      BY <3>2, <3>3 DEF Firing
    <3>5. CASE t.id = a
      <4>1. Firing(1, a)
        BY <1>2, <2>3, <3>5 DEF Firing
      <4>2. /\ t.row.status = "triggered"
            /\ \A j \in DOMAIN dbQueue : j > 1 => dbQueue[j].id # a
            /\ \A u \in batch : u.id # a
        BY <1>2, <1>3, <4>1 DEF Durable
      <4>3. \A i \in DOMAIN rest : rest[i].id # a
        BY <1>4, <4>2
      <4>4. \A i : ~Firing(i, a)'
        BY <3>4, <4>3
      <4>5. \A i \in DOMAIN dbQueue' : dbQueue'[i].id = a => dbQueue'[i].op = "event"
        BY <3>2, <3>3, <4>3
      <4>6. db'[a].status = "triggered"
        BY <2>1, <3>5, <4>2
      <4>7. mem'[a].status = "triggered"
        <5>1. Reporting(a)
          BY <4>1 DEF Reporting
        <5> QED BY <1>3, <5>1 DEF Durable
      <4> HIDE DEF Settled, Firing, Reporting
      <4> QED BY <1>3, <4>2, <4>4, <4>5, <4>6, <4>7 DEF Durable
    <3>6. CASE t.id # a
      <4>1. Settled(a)' => Settled(a)
        BY <1>6, <2>1, <3>2, <3>3, <3>6 DEF Settled
      <4>2. Reporting(a)' => Reporting(a)
        BY <1>3, <1>6, <3>4, <4>1 DEF Reporting
      <4>3. \A i \in DOMAIN dbQueue' : dbQueue'[i].id = a => i \in DOMAIN rest /\ dbQueue'[i] = rest[i]
        BY <3>2, <3>3, <3>6
      <4>4. Settled(a)' => /\ db'[a].status = "triggered"
                           /\ \A i \in DOMAIN dbQueue' : dbQueue'[i].id = a => dbQueue'[i].op = "event"
                           /\ \A u \in batch' : u.id # a
        BY <1>3, <1>4, <2>1, <3>6, <4>1, <4>3 DEF Durable
      <4> HIDE DEF Settled, Firing, Reporting
      <4> QED BY <1>3, <1>7, <3>4, <4>2, <4>3, <4>4 DEF Durable
    <3> QED BY <3>5, <3>6
  <2> QED BY <2>2, <2>3
<1>9. CASE RunEvent
  <2>1. /\ dbQueue' = rest /\ t.op = "event" /\ db' = db
        /\ told' = [told EXCEPT ![t.id] = @ + 1] /\ told \in [Alerts -> Nat]
    BY <1>9 DEF RunEvent, WorkerReady, t, rest, IInv, TypeOK, store
  <2>2. \A i : Firing(i, a)' => i \in DOMAIN rest /\ rest[i].id = a /\ rest[i].fire
    BY <2>1 DEF Firing
  <2>3. Settled(a)' => Settled(a)
    <3>1. CASE t.id = a
      BY <1>2, <2>1, <3>1 DEF Settled
    <3>2. CASE t.id # a
      <4>1. told'[a] = told[a]
        BY <2>1, <3>2
      <4> QED BY <1>6, <2>1, <4>1 DEF Settled
    <3> QED BY <3>1, <3>2
  <2>4. Reporting(a)' => Reporting(a)
    BY <1>3, <1>6, <2>2, <2>3 DEF Reporting
  <2>5. Settled(a)' => /\ db'[a].status = "triggered"
                       /\ \A i \in DOMAIN dbQueue' : dbQueue'[i].id = a => dbQueue'[i].op = "event"
                       /\ \A u \in batch' : u.id # a
    BY <1>3, <1>4, <2>1, <2>3 DEF Durable
  <2> HIDE DEF Settled, Firing, Reporting
  <2> QED BY <1>3, <1>7, <2>1, <2>2, <2>4, <2>5 DEF Durable
<1> QED BY <1>8, <1>9

\* Every step keeps what was reported durable.
LEMMA StepAlone ==
    ASSUME IInv, [Next]_vars, AloneInv
    PROVE  AloneInv'
<1> SUFFICES ASSUME Alone' PROVE AloneInv'
  BY DEF AloneInv
<1>1. /\ Alone
      /\ \/ \E S \in SUBSET Alerts : CheckAlerts(S)
         \/ Evaluator \/ RunUpsert \/ RunEvent \/ (\E t \in expiring : WriteExpired(t))
         \/ ExpireTimedOut \/ (\E a \in Timed : PassTime(a)) \/ Crash
         \/ UNCHANGED vars
  BY AloneStep
<1>2. /\ \A c \in Clients : http[c] = Idle
      /\ \A t \in expiring : mem[t.id].status = "expired"
      /\ \A i \in DOMAIN dbQueue : dbQueue[i].op # "delete" /\ dbQueue[i].by = NoClient
      /\ \A t, u \in batch : t.id = u.id => t = u
      /\ \A a \in Alerts \ Repeating : Durable(a)
  BY <1>1 DEF AloneInv
<1>3. /\ dbQueue \in Seq(Task) /\ \A t \in batch : t \in Task /\ t.by = NoClient /\ t.op = "upsert"
  BY DEF IInv, TypeOK
<1> DEFINE Simple == \A i \in DOMAIN dbQueue : dbQueue[i].op # "delete" /\ dbQueue[i].by = NoClient
<1>4. ASSUME NEW S \in SUBSET Alerts, CheckAlerts(S) PROVE AloneInv'
  <2>1. http' = http /\ dbQueue' = dbQueue
    BY <1>4 DEF CheckAlerts
  <2>2. /\ \A t \in expiring' : mem'[t.id].status = "expired"
        /\ \A t, u \in batch' : t.id = u.id => t = u
        /\ \A a \in Alerts \ Repeating : Durable(a)'
    BY <1>1, <1>4, CheckAlone
  <2> HIDE DEF Durable
  <2> QED BY <1>2, <2>1, <2>2 DEF AloneInv
<1>5. CASE Evaluator
  <2>1. PICK t \in batch : EnqueueWrite(t)
    BY <1>5 DEF Evaluator
  <2>2. /\ http' = http /\ expiring' = expiring /\ mem' = mem /\ batch' \subseteq batch
        /\ dbQueue' = Append(dbQueue, t)
    BY <2>1 DEF EnqueueWrite, store
  <2>3. \A i \in DOMAIN dbQueue' : (i \in DOMAIN dbQueue /\ dbQueue'[i] = dbQueue[i]) \/ dbQueue'[i] = t
    BY <1>3, <2>2
  <2>4. Simple'
    BY <1>2, <1>3, <2>3
  <2>5. \A a \in Alerts \ Repeating : Durable(a)'
    BY <1>1, <2>1, EnqueueAlone
  <2> HIDE DEF Durable
  <2> QED BY <1>2, <2>2, <2>4, <2>5 DEF AloneInv
<1>6. CASE RunUpsert \/ RunEvent
  <2>1. /\ dbQueue # <<>> /\ expiring' = expiring /\ mem' = mem /\ batch' = batch
    BY <1>6 DEF RunUpsert, RunEvent, WorkerReady, store
  <2>2. Head(dbQueue) = dbQueue[1] /\ 1 \in DOMAIN dbQueue /\ Tail(dbQueue) \in Seq(Task)
        /\ dbQueue[1] \in Task
    BY <1>3, <2>1
  <2>3. http' = http
    BY <1>2, <1>6, <2>2 DEF RunUpsert, RunEvent, Resolve
  <2>4. \A i \in DOMAIN Tail(dbQueue) : Tail(dbQueue)[i].op # "delete" /\ Tail(dbQueue)[i].by = NoClient
    BY <1>2, <1>3, <2>1, TailAt
  <2>5. Simple'
    <3>1. CASE dbQueue' = Tail(dbQueue)
      BY <2>4, <3>1
    <3>2. CASE dbQueue' = Tail(dbQueue) \o <<Event(dbQueue[1].id)>>
      <4>1. Event(dbQueue[1].id) \in Task /\ Event(dbQueue[1].id).op = "event" /\ Event(dbQueue[1].id).by = NoClient
        <5>1. Absent \in Row /\ dbQueue[1].id \in Alerts
          BY <2>2 DEF Absent, Row, Status, Task
        <5> QED BY <5>1 DEF Event, Task
      <4>2. PICK e \in Task : e = Event(dbQueue[1].id)
        BY <4>1
      <4>3. \A i \in DOMAIN dbQueue' : \/ i \in DOMAIN Tail(dbQueue) /\ dbQueue'[i] = Tail(dbQueue)[i]
                                       \/ dbQueue'[i] = e
        BY <2>2, <3>2, <4>2, AddedAt
      <4> QED BY <2>4, <4>1, <4>2, <4>3
    <3>3. \/ dbQueue' = Tail(dbQueue)
          \/ dbQueue' = Tail(dbQueue) \o <<Event(dbQueue[1].id)>>
      <4>1. dbQueue' = Tail(dbQueue) \/ dbQueue' = Tail(dbQueue) \o Reports(dbQueue[1])
        BY <1>6, <2>2 DEF RunUpsert, RunEvent
      <4>2. Tail(dbQueue) \o <<>> = Tail(dbQueue)
        BY <2>2
      <4> QED BY <4>1, <4>2 DEF Reports
    <3> QED BY <3>1, <3>2, <3>3
  <2>6. \A a \in Alerts \ Repeating : Durable(a)'
    BY <1>1, <1>6, WorkAlone
  <2> HIDE DEF Durable
  <2> QED BY <1>2, <2>1, <2>3, <2>5, <2>6 DEF AloneInv
\* Steps that leave the queue, the batch and what was told alone.
<1>7. ASSUME http' = http, dbQueue' = dbQueue, batch' = batch, told' = told,
             \A t \in expiring' : mem'[t.id].status = "expired",
             \A a \in Alerts \ Repeating : \/ mem'[a] = mem[a]
                                           \/ ~Reporting(a),
             \A a \in Alerts \ Repeating : \/ db'[a] = db[a]
                                           \/ ~Reporting(a)
      PROVE  AloneInv'
  <2>1. ASSUME NEW a \in Alerts \ Repeating PROVE Durable(a)'
    <3>1. Durable(a) /\ (Settled(a) => Reporting(a)) /\ (Settled(a)' <=> Settled(a))
      BY <1>2, <1>7 DEF Reporting, Settled
    <3>2. (Reporting(a)' <=> Reporting(a)) /\ \A i : Firing(i, a)' <=> Firing(i, a)
      BY <1>7 DEF Reporting, Settled, Firing
    <3>3. Reporting(a) => mem'[a] = mem[a] /\ db'[a] = db[a]
      BY <1>7
    <3> HIDE DEF Settled, Firing, Reporting
    <3> QED BY <1>7, <3>1, <3>2, <3>3 DEF Durable
  <2> HIDE DEF Durable
  <2> QED BY <1>2, <1>7, <2>1 DEF AloneInv
<1>8. CASE ExpireTimedOut
  <2>1. /\ http' = http /\ dbQueue' = dbQueue /\ batch' = batch /\ told' = told /\ db' = db
        /\ mem' = [a \in Alerts |-> IF a \in past /\ mem[a].status \in {"active", "waiting"}
                                    THEN Expired(mem[a]) ELSE mem[a]]
        /\ \A t \in expiring' : t.id \in past /\ t.id \in Alerts /\ mem[t.id].status \in {"active", "waiting"}
    <3>1. past \subseteq Alerts
      BY DEF IInv, TypeOK
    <3> QED BY <1>8, <3>1 DEF ExpireTimedOut, history, Upsert
  <2>2. \A a \in Alerts : mem[a] \in Row
    BY DEF IInv, TypeOK
  <2>3. \A t \in expiring' : mem'[t.id].status = "expired"
    BY <2>1, <2>2, RowKeeps
  <2>4. \A a \in Alerts \ Repeating : mem'[a] = mem[a] \/ ~Reporting(a)
    BY <1>2, <2>1 DEF Durable
  <2> HIDE DEF Reporting
  <2> QED BY <1>7, <2>1, <2>3, <2>4
<1>9. ASSUME NEW t \in expiring, WriteExpired(t) PROVE AloneInv'
  <2>1. /\ http' = http /\ dbQueue' = dbQueue /\ batch' = batch /\ told' = told /\ mem' = mem
        /\ expiring' \subseteq expiring /\ db' = [db EXCEPT ![t.id] = t.row] /\ db \in [Alerts -> Row]
    BY <1>9 DEF WriteExpired, history, IInv, TypeOK
  <2>2. \A a \in Alerts \ Repeating : db'[a] = db[a] \/ ~Reporting(a)
    <3> SUFFICES ASSUME NEW a \in Alerts \ Repeating, Reporting(a) PROVE a # t.id
      BY <2>1
    <3>1. mem[a].status = "triggered" /\ mem[t.id].status = "expired"
      BY <1>2, <1>9 DEF Durable
    <3> QED BY <3>1
  <2> HIDE DEF Reporting
  <2> QED BY <1>2, <1>7, <2>1, <2>2
<1>10. CASE (\E a \in Timed : PassTime(a)) \/ UNCHANGED vars
  <2>1. /\ http' = http /\ dbQueue' = dbQueue /\ batch' = batch /\ told' = told /\ mem' = mem
        /\ expiring' = expiring /\ db' = db
    BY <1>10 DEF PassTime, store, history, vars
  <2> QED BY <1>2, <1>7, <2>1
<1>11. CASE Crash
  <2>1. /\ \A c \in Clients : http'[c] = Idle
        /\ dbQueue' = <<>> /\ batch' = {} /\ expiring' = {} /\ told' = told /\ mem' = db /\ db' = db
    BY <1>11 DEF Crash, history
  <2>2. DOMAIN dbQueue' = {}
    BY <2>1
  <2>3. ASSUME NEW a \in Alerts \ Repeating PROVE Durable(a)'
    <3>1. \A i : ~Firing(i, a)'
      BY <2>2 DEF Firing
    <3>2. (Settled(a)' => Settled(a)) /\ (Reporting(a)' <=> Settled(a)')
      BY <2>1, <2>2 DEF Settled, Reporting, Firing
    <3>3. Settled(a) => db[a].status = "triggered"
      BY <1>2 DEF Durable
    <3> HIDE DEF Settled, Firing, Reporting
    <3> QED BY <2>1, <2>2, <3>1, <3>2, <3>3 DEF Durable
  <2> HIDE DEF Durable
  <2> QED BY <2>1, <2>2, <2>3 DEF AloneInv
<1> QED BY <1>1, <1>4, <1>5, <1>6, <1>8, <1>9, <1>10, <1>11

\* Nothing is reported at the start.
LEMMA StartAlone == Init => AloneInv
<1> SUFFICES ASSUME Init PROVE AloneInv
  OBVIOUS
<1>1. /\ \A c \in Clients : http[c] = Idle
      /\ dbQueue = <<>> /\ batch = {} /\ expiring = {} /\ told = [a \in Alerts |-> 0]
  BY DEF Init
<1>2. DOMAIN dbQueue = {}
  BY <1>1
<1>3. ASSUME NEW a \in Alerts PROVE Durable(a)
  <2>1. told[a] = 0 /\ ~(told[a] > 0)
    BY <1>1
  <2>2. ~Settled(a) /\ (\A i : ~Firing(i, a))
    BY <1>2, <2>1 DEF Settled, Firing
  <2>3. ~Reporting(a)
    BY <1>1, <2>2 DEF Reporting
  <2> HIDE DEF Settled, Firing, Reporting
  <2> QED BY <1>1, <2>2, <2>3 DEF Durable
<1> HIDE DEF Durable
<1> QED BY <1>1, <1>2, <1>3 DEF AloneInv

\* Once a one-shot trigger was reported its row in the table says so, whatever the expiry
\* timer writes ahead of the queue and however often the process restarts; as long as no
\* write is refused and no request comes.
THEOREM ReportsAreDurable == Spec => []ToldIsDurable
<1>1. IInv /\ [Next]_vars /\ AloneInv => AloneInv'
  BY StepAlone
<1>2. AloneInv => ToldIsDurable
  BY DEF AloneInv, Alone, ToldIsDurable, Durable, Settled
<1> QED BY Invariance, StartAlone, <1>1, <1>2, PTL DEF Spec

-----------------------------------------------------------------------------
(* All of a batch, or none of it (AllOrNone).                               *)

\* One commitCreatedAlerts, in an empty table; nothing is due, and the database or its
\* connection fails once at most.
OneCommit ==
    /\ StartRows \subseteq {[a \in Alerts |-> Absent]}
    /\ HttpOps \subseteq {"commit"} /\ MaxOps <= 1
    /\ Timed = {} /\ MaxRepeat = 0
    /\ MaxFail <= 1 /\ MaxCrash = 0

\* What a batch puts into the cache.
BatchRow == [status |-> "active", gate |-> FALSE, dep |-> NoAlert, chained |-> FALSE]

\* Nothing is due, and nobody but the requests works on alerts.
Calm == /\ batch = {} /\ expiring = {} /\ past = {} /\ repeats = 0
        /\ \A a \in Alerts : mem[a] # Absent => mem[a] = BatchRow /\ a \in Repeating

InTable == {a \in Alerts : db[a] # Absent}
Ids(todo) == {todo[i].id : i \in DOMAIN todo}
Members(made) == {made[i] : i \in DOMAIN made}
EachOnce(todo) == \A i, j \in DOMAIN todo : todo[i].id = todo[j].id => i = j
\* The write that was done and that its request has not seen yet.
Landed(r) == IF r.at = "ok" THEN {r.todo[1].id} ELSE {}

\* What was saved of the batch is what the request counts as made.
Saving(r) == /\ used = Ids(r.todo) \cup Members(r.made)
             /\ Ids(r.todo) \cap Members(r.made) = {}
             /\ \A i, j \in DOMAIN r.made : r.made[i] = r.made[j] => i = j
             /\ fails = (IF r.at = "fail" THEN 1 ELSE 0)
             /\ InTable = Members(r.made) \cup Landed(r)
             /\ \A i \in DOMAIN r.todo : r.todo[i].op = "upsert" /\ r.todo[i].row = BatchRow

\* What is left of a batch that could not be saved is what is still to be deleted.
TakingBack(r) == /\ r.at # "fail" /\ fails = 1
                 /\ InTable = Ids(r.todo) \ Landed(r)
                 /\ \A i \in DOMAIN r.todo : r.todo[i].op = "delete"

AtBatch(r) == /\ r.op \in {"commit", "undo"} /\ r.at # "lock" /\ ops = 1
              /\ EachOnce(r.todo)
              /\ dbQueue = (IF r.at = "wait" THEN <<r.todo[1]>> ELSE <<>>)
              /\ r.op = "commit" => Saving(r)
              /\ r.op = "undo" => TakingBack(r)

\* No request: nothing was asked for yet, or the whole batch is there, or nothing of it.
AtRest == dbQueue = <<>> /\ InTable \in {{}, used} /\ (ops = 0 => used = {} /\ fails = 0)

BatchInv == /\ Calm
            /\ (\A c \in Clients : http[c].op = "idle") => AtRest
            /\ \A c \in Clients : http[c].op # "idle" =>
                  AtBatch(http[c]) /\ \A d \in Clients \ {c} : http[d].op = "idle"

\* What a list of writes is about when its first is taken away.
LEMMA TailIds ==
    ASSUME NEW s \in Seq(Task), s # <<>>, EachOnce(s)
    PROVE  /\ EachOnce(Tail(s))
           /\ Ids(Tail(s)) = Ids(s) \ {s[1].id} /\ s[1].id \in Ids(s)
           /\ Tail(s) = <<>> => Ids(s) = {s[1].id}
<1>1. /\ \A i \in DOMAIN s : i # 1 => i - 1 \in DOMAIN Tail(s) /\ Tail(s)[i - 1] = s[i]
      /\ \A i \in DOMAIN Tail(s) : i + 1 \in DOMAIN s /\ Tail(s)[i] = s[i + 1]
  BY TailAt
<1>2. /\ 1 \in DOMAIN s /\ Tail(s) \in Seq(Task)
      /\ \A i \in DOMAIN Tail(s) : i \in Nat /\ i # 0 /\ i + 1 # 1
      /\ \A i, j \in DOMAIN Tail(s) : i + 1 = j + 1 => i = j
  <2>1. Tail(s) \in Seq(Task) /\ 1 \in DOMAIN s
    OBVIOUS
  <2>2. DOMAIN Tail(s) = 1..Len(Tail(s)) /\ Len(Tail(s)) \in Nat
    BY <2>1
  <2> QED BY <2>1, <2>2
<1>3. EachOnce(Tail(s))
  BY <1>1, <1>2 DEF EachOnce
<1>4. Ids(Tail(s)) \subseteq Ids(s) \ {s[1].id}
  <2> SUFFICES ASSUME NEW i \in DOMAIN Tail(s) PROVE Tail(s)[i].id \in Ids(s) \ {s[1].id}
    BY DEF Ids
  <2> QED BY <1>1, <1>2 DEF Ids, EachOnce
<1>5. Ids(s) \ {s[1].id} \subseteq Ids(Tail(s))
  <2> SUFFICES ASSUME NEW i \in DOMAIN s, i # 1 PROVE s[i].id \in Ids(Tail(s))
    BY DEF Ids
  <2> QED BY <1>1 DEF Ids
<1>6. s[1].id \in Ids(s)
  BY <1>2 DEF Ids
<1>7. Tail(s) = <<>> => Ids(Tail(s)) = {}
  <2>1. DOMAIN <<>> = {}
    OBVIOUS
  <2> QED BY <2>1 DEF Ids
<1> QED BY <1>3, <1>4, <1>5, <1>6, <1>7

\* One alert more is made.
LEMMA MadeMore ==
    ASSUME NEW s \in Seq(Alerts), NEW a \in Alerts, a \notin Members(s),
           \A i, j \in DOMAIN s : s[i] = s[j] => i = j
    PROVE  /\ Members(Append(s, a)) = Members(s) \cup {a}
           /\ \A i, j \in DOMAIN Append(s, a) : Append(s, a)[i] = Append(s, a)[j] => i = j
<1> DEFINE m == Append(s, a)
<1>1. /\ m \in Seq(Alerts) /\ Len(s) \in Nat /\ Len(m) = Len(s) + 1
      /\ DOMAIN s = 1..Len(s) /\ DOMAIN m = 1..(Len(s) + 1)
      /\ \A i \in 1..Len(s) : m[i] = s[i]
      /\ m[Len(s) + 1] = a
  OBVIOUS
<1> HIDE DEF m
<1>2. \A i \in DOMAIN m : i \in DOMAIN s \/ i = Len(s) + 1
  BY <1>1
<1>3. DOMAIN s \subseteq DOMAIN m /\ Len(s) + 1 \in DOMAIN m
  BY <1>1
<1>4. Members(m) = Members(s) \cup {a}
  BY <1>1, <1>2, <1>3 DEF Members
<1>5. \A i \in DOMAIN s : s[i] # a
  BY DEF Members
<1>6. ASSUME NEW i \in DOMAIN m, NEW j \in DOMAIN m, m[i] = m[j] PROVE i = j
  <2>1. CASE i \in DOMAIN s /\ j \in DOMAIN s
    BY <1>1, <1>6, <2>1
  <2>2. CASE i = Len(s) + 1 /\ j = Len(s) + 1
    BY <2>2
  <2>3. CASE i \in DOMAIN s /\ j = Len(s) + 1
    BY <1>1, <1>5, <1>6, <2>3
  <2>4. CASE i = Len(s) + 1 /\ j \in DOMAIN s
    BY <1>1, <1>5, <1>6, <2>4
  <2> QED BY <1>2, <2>1, <2>2, <2>3, <2>4
<1> QED BY <1>4, <1>6 DEF m

\* A loop over a set visits all of it.
LEMMA OrderVisitsAll ==
    ASSUME NEW S \in SUBSET Alerts, NEW f \in Orders(S)
    PROVE  {f[i] : i \in 1..Len(f)} = S
<1>1. IsFiniteSet(S)
  BY StoreAssumption, FS_Subset
<1>2. Cardinality(S) \in Nat /\ f \in Seq(Alerts) /\ Len(f) = Cardinality(S)
  BY OrdersTyped
<1>3. f \in [1..Cardinality(S) -> S] /\ \A i, j \in 1..Cardinality(S) : i # j => f[i] # f[j]
  BY DEF Orders
<1> DEFINE T == {f[i] : i \in 1..Cardinality(S)}
<1>4. T \subseteq S /\ IsFiniteSet(T)
  BY <1>1, <1>3, FS_Subset
<1>5. f \in Bijection(1..Cardinality(S), T)
  BY <1>3 DEF Bijection, Injection, Surjection, IsInjective
<1>6. Cardinality(T) = Cardinality(S)
  <2>1. IsFiniteSet(1..Cardinality(S)) /\ Cardinality(1..Cardinality(S)) = Cardinality(S)
    BY <1>2, FS_Interval
  <2>2. ExistsBijection(1..Cardinality(S), T)
    BY <1>5 DEF ExistsBijection
  <2> QED BY <2>1, <2>2, FS_Bijection
<1>7. T = S
  BY <1>1, <1>4, <1>6, FS_Subset
<1> QED BY <1>2, <1>7

\* When the request at work goes on, the others stay idle.
LEMMA BatchGoesOn ==
    ASSUME TypeOK, NEW c \in Clients, \A d \in Clients \ {c} : http[d].op = "idle",
           \A d \in Clients \ {c} : http'[d] = http[d],
           Calm', IF http'[c].op = "idle" THEN AtRest' ELSE AtBatch(http[c])'
    PROVE  BatchInv'
<1>1. \A d \in Clients : http'[d].op # "idle" => d = c
  OBVIOUS
<1>2. CASE http'[c].op = "idle"
  <2>1. \A d \in Clients : http'[d].op = "idle"
    BY <1>1, <1>2
  <2> HIDE DEF Calm, AtRest, AtBatch
  <2> QED BY <1>2, <2>1 DEF BatchInv
<1>3. CASE http'[c].op # "idle"
  <2>1. \A d \in Clients \ {c} : http'[d].op = "idle"
    OBVIOUS
  <2>2. AtBatch(http[c])'
    BY <1>3
  <2>3. \A d \in Clients : http'[d].op # "idle" => AtBatch(http[d])'
    BY <1>1, <2>2
  <2> HIDE DEF Calm, AtRest, AtBatch
  <2> QED BY <1>1, <1>3, <2>1, <2>3 DEF BatchInv
<1> QED BY <1>2, <1>3

\* The batch is accepted: nothing of it is saved yet.
LEMMA CommitInBatch ==
    ASSUME IInv, OneCommit, BatchInv, NEW c \in Clients, NEW S \in SUBSET Repeating, CommitCreated(c, S)
    PROVE  BatchInv'
<1>1. /\ TypeOK /\ Repeating \subseteq Alerts /\ MaxOps \in Nat /\ ops \in Nat
      /\ http \in [Clients -> HttpState] /\ mem \in [Alerts -> Row]
  BY StoreAssumption DEF IInv, TypeOK
<1>2. PICK built \in Orders(S) :
         Begin(c, "commit", [i \in 1..Len(built) |-> Upsert(built[i], Absent, BatchRow, FALSE, c)])
  BY DEF CommitCreated, BatchRow
<1> DEFINE todo == [i \in 1..Len(built) |-> Upsert(built[i], Absent, BatchRow, FALSE, c)]
<1>3. /\ http[c].op = "idle" /\ ops = 0 /\ ops' = 1
      /\ http' = [http EXCEPT ![c] = [op |-> "commit", at |-> "call", todo |-> todo, made |-> <<>>]]
      /\ UNCHANGED <<db, dbQueue, batch, expiring, past, fails, repeats>>
  BY <1>1, <1>2 DEF Begin, OneCommit
<1>4. \A d \in Clients : http[d].op = "idle"
  BY <1>3 DEF BatchInv, AtBatch
<1>5. dbQueue = <<>> /\ InTable = {} /\ used = {} /\ fails = 0
  BY <1>3, <1>4 DEF BatchInv, AtRest
<1>6. Calm'
  <2>1. mem' = [a \in Alerts |-> IF a \in S THEN BatchRow ELSE mem[a]]
    BY DEF CommitCreated, BatchRow
  <2>2. Calm
    BY DEF BatchInv
  <2> QED BY <1>3, <2>1, <2>2 DEF Calm
<1>7. AtBatch(http[c])'
  <2>1. /\ http'[c].op = "commit" /\ http'[c].at = "call" /\ http'[c].todo = todo /\ http'[c].made = <<>>
    BY <1>1, <1>3
  <2>2. /\ DOMAIN todo = 1..Len(built)
        /\ \A i \in 1..Len(built) : todo[i].id = built[i] /\ todo[i].op = "upsert" /\ todo[i].row = BatchRow
    BY DEF Upsert
  <2> HIDE DEF todo
  <2>3. Len(built) = Cardinality(S) /\ \A i, j \in 1..Cardinality(S) : i # j => built[i] # built[j]
    BY <1>1, OrdersTyped DEF Orders
  <2>4. EachOnce(todo)
    BY <2>2, <2>3 DEF EachOnce
  <2>5. Ids(todo) = S
    <3>1. S \in SUBSET Alerts /\ Ids(todo) = {built[i] : i \in 1..Len(built)}
      BY <1>1, <2>2 DEF Ids
    <3> QED BY <3>1, OrderVisitsAll
  <2>6. Members(<<>>) = {} /\ DOMAIN <<>> = {}
    BY DEF Members
  <2>7. used' = S /\ InTable' = {} /\ fails' = 0
    BY <1>3, <1>5 DEF CommitCreated, InTable
  <2>8. Saving(http[c])'
    BY <2>1, <2>2, <2>5, <2>6, <2>7 DEF Saving, Landed
  <2> QED BY <1>3, <1>5, <2>1, <2>4, <2>8 DEF AtBatch
<1>8. \A d \in Clients \ {c} : http'[d] = http[d]
  BY <1>1, <1>3
<1>9. http'[c].op # "idle"
  BY <1>1, <1>3
<1> QED BY <1>1, <1>4, <1>6, <1>7, <1>8, <1>9, BatchGoesOn

\* What a request at work on the batch looks like.
LEMMA AtWork ==
    ASSUME IInv, BatchInv, NEW c \in Clients, http[c].op # "idle"
    PROVE  /\ AtBatch(http[c]) /\ Calm /\ \A d \in Clients \ {c} : http[d].op = "idle"
           /\ http[c] \in HttpState /\ http[c].todo \in Seq(Task) /\ http[c].made \in Seq(Alerts)
           /\ http[c].todo # <<>> /\ 1 \in DOMAIN http[c].todo
           /\ Head(http[c].todo) = http[c].todo[1] /\ http[c].todo[1] \in Task
           /\ http[c].todo[1].by = c /\ c # NoClient
<1>1. http[c] \in HttpState /\ Request(c)
  BY DEF IInv, TypeOK
<1>2. http[c].todo \in Seq(Task) /\ http[c].made \in Seq(Alerts) /\ http[c].todo # <<>>
  BY <1>1 DEF HttpState, Request
<1>3. 1 \in DOMAIN http[c].todo /\ Head(http[c].todo) = http[c].todo[1] /\ http[c].todo[1] \in Task
  BY <1>2
<1>4. http[c].todo[1].by = c
  BY <1>1, <1>3 DEF Request
<1>5. c # NoClient
  BY NoClientIsNoClient
<1>6. AtBatch(http[c]) /\ Calm /\ \A d \in Clients \ {c} : http[d].op = "idle"
  BY DEF BatchInv
<1> QED BY <1>1, <1>2, <1>3, <1>4, <1>5, <1>6

\* The next write is handed over.
LEMMA CallInBatch ==
    ASSUME IInv, BatchInv, NEW c \in Clients, CallSync(c)
    PROVE  BatchInv'
<1> DEFINE r == http[c]
<1>1. /\ r.at = "call" /\ dbQueue' = Append(dbQueue, Head(r.todo)) /\ http' = [http EXCEPT ![c].at = "wait"]
      /\ UNCHANGED <<mem, db, batch, expiring, past, used, ops, fails, repeats>>
  BY DEF CallSync, store, history, counters
<1>2. r.op # "idle"
  <2>1. Request(c)
    BY DEF IInv
  <2> QED BY <1>1, <2>1 DEF Request
<1>3. /\ AtBatch(r) /\ Calm /\ \A d \in Clients \ {c} : http[d].op = "idle"
      /\ r \in HttpState /\ Head(r.todo) = r.todo[1] /\ TypeOK
  BY <1>2, AtWork DEF IInv
<1>4. /\ http'[c].op = r.op /\ http'[c].at = "wait" /\ http'[c].todo = r.todo /\ http'[c].made = r.made
      /\ \A d \in Clients \ {c} : http'[d] = http[d]
  BY <1>1, <1>3 DEF TypeOK, HttpState
<1>5. dbQueue' = <<r.todo[1]>>
  BY <1>1, <1>3 DEF AtBatch
<1>6. Calm'
  BY <1>1, <1>3 DEF Calm
<1>7. InTable' = InTable
  BY <1>1 DEF InTable
<1>8. AtBatch(http[c])'
  BY <1>1, <1>3, <1>4, <1>5, <1>7 DEF AtBatch, Saving, TakingBack, Landed
<1> QED BY <1>2, <1>3, <1>4, <1>6, <1>8, BatchGoesOn

\* When the worker has something to do, some request waits for it.
LEMMA WorkerServes ==
    ASSUME IInv, BatchInv, dbQueue # <<>>
    PROVE  \E c \in Clients : /\ http[c].op # "idle" /\ http[c].at = "wait"
                              /\ dbQueue = <<http[c].todo[1]>>
<1>1. ~AtRest
  BY DEF AtRest
<1>2. PICK c \in Clients : http[c].op # "idle"
  BY <1>1 DEF BatchInv
<1>3. AtBatch(http[c])
  BY <1>2 DEF BatchInv
<1> QED BY <1>2, <1>3 DEF AtBatch

\* The worker saves or deletes one alert of the batch, or the database refuses to save it;
\* there is no second refusal.
LEMMA WorkInBatch ==
    ASSUME IInv, OneCommit, BatchInv, RunUpsert \/ FailUpsert \/ RunDelete \/ FailDelete \/ RunEvent
    PROVE  BatchInv'
<1>1. dbQueue # <<>>
  BY DEF RunUpsert, FailUpsert, RunDelete, FailDelete, RunEvent, WorkerReady
<1>2. PICK c \in Clients : http[c].op # "idle" /\ http[c].at = "wait" /\ dbQueue = <<http[c].todo[1]>>
  BY <1>1, WorkerServes
<1> DEFINE r == http[c]
           t == r.todo[1]
<1>3. /\ AtBatch(r) /\ Calm /\ \A d \in Clients \ {c} : http[d].op = "idle"
      /\ r \in HttpState /\ r.todo \in Seq(Task) /\ 1 \in DOMAIN r.todo /\ t \in Task /\ t.by = c
      /\ c # NoClient /\ TypeOK
  BY <1>2, AtWork DEF IInv
<1>4. Head(dbQueue) = t /\ Tail(dbQueue) = <<>> /\ t.id \in Alerts
  BY <1>2, <1>3 DEF Task
<1>5. t.id \in Ids(r.todo)
  BY <1>3 DEF Ids
<1>6. /\ r.op = "commit" => t.op = "upsert" /\ t.row = BatchRow
      /\ r.op = "undo" => t.op = "delete"
      /\ r.op \in {"commit", "undo"}
  BY <1>3 DEF AtBatch, Saving, TakingBack
<1>7. ASSUME NEW outcome \in {"ok", "fail"}, http' = [http EXCEPT ![c].at = outcome]
      PROVE  /\ http'[c].op = r.op /\ http'[c].at = outcome /\ http'[c].todo = r.todo
             /\ http'[c].made = r.made
             /\ \A d \in Clients \ {c} : http'[d] = http[d]
  BY <1>3, <1>7 DEF TypeOK, HttpState
<1>8. CASE RunUpsert
  <2>1. /\ t.op = "upsert" /\ db' = [db EXCEPT ![t.id] = t.row] /\ dbQueue' = <<>> \o Reports(t)
        /\ http' = [http EXCEPT ![c].at = "ok"]
        /\ UNCHANGED <<mem, batch, expiring, past, used, ops, fails, repeats>>
    BY <1>3, <1>4, <1>8 DEF RunUpsert, WorkerReady, Resolve, counters
  <2>2. r.op = "commit" /\ t.row = BatchRow
    BY <1>6, <2>1
  <2>3. dbQueue' = <<>>
    BY <1>3, <2>1 DEF Reports
  <2>4. InTable' = InTable \cup {t.id}
    BY <1>3, <1>4, <2>1, <2>2 DEF InTable, BatchRow, Absent, TypeOK
  <2>5. Calm'
    BY <1>3, <2>1 DEF Calm
  <2>6. AtBatch(http[c])'
    BY <1>2, <1>3, <1>7, <2>1, <2>2, <2>3, <2>4 DEF AtBatch, Saving, Landed
  <2> QED BY <1>2, <1>3, <1>7, <2>1, <2>5, <2>6, BatchGoesOn
<1>9. CASE FailUpsert
  <2>1. /\ t.op = "upsert" /\ dbQueue' = <<>> /\ mem' = mem /\ fails' = fails + 1
        /\ http' = [http EXCEPT ![c].at = "fail"]
        /\ UNCHANGED <<db, batch, expiring, past, used, ops, repeats>>
    BY <1>3, <1>4, <1>9 DEF FailUpsert, WorkerReady, Resolve, history
  <2>2. r.op = "commit"
    BY <1>6, <2>1
  <2>3. InTable' = InTable
    BY <2>1 DEF InTable
  <2>4. Calm'
    BY <1>3, <2>1 DEF Calm
  <2>5. AtBatch(http[c])'
    BY <1>2, <1>3, <1>7, <2>1, <2>2, <2>3 DEF AtBatch, Saving, Landed
  <2> QED BY <1>2, <1>3, <1>7, <2>1, <2>4, <2>5, BatchGoesOn
<1>10. CASE RunDelete
  <2>1. /\ t.op = "delete" /\ db' = [db EXCEPT ![t.id] = Absent] /\ dbQueue' = <<>>
        /\ http' = [http EXCEPT ![c].at = IF db[t.id] = Absent THEN "fail" ELSE "ok"]
        /\ UNCHANGED <<mem, batch, expiring, past, used, ops, fails, repeats>>
    BY <1>3, <1>4, <1>10 DEF RunDelete, WorkerReady, Resolve, history, counters
  <2>2. r.op = "undo"
    BY <1>6, <2>1
  <2>3. t.id \in InTable /\ db[t.id] # Absent
    BY <1>2, <1>3, <1>5, <2>2 DEF AtBatch, TakingBack, Landed, InTable
  <2>4. InTable' = InTable \ {t.id}
    BY <1>3, <1>4, <2>1 DEF InTable, TypeOK
  <2>5. Calm'
    BY <1>3, <2>1 DEF Calm
  <2>6. http' = [http EXCEPT ![c].at = "ok"]
    BY <2>1, <2>3
  <2>7. AtBatch(http[c])'
    BY <1>2, <1>3, <1>7, <2>1, <2>2, <2>4, <2>6 DEF AtBatch, TakingBack, Landed
  <2> QED BY <1>2, <1>3, <1>7, <2>2, <2>5, <2>6, <2>7, BatchGoesOn
<1>11. CASE FailDelete
  <2>1. t.op = "delete" /\ fails < MaxFail
    BY <1>4, <1>11 DEF FailDelete, WorkerReady
  <2>2. fails = 1
    BY <1>3, <1>6, <2>1 DEF AtBatch, TakingBack
  <2>3. MaxFail \in Nat
    BY StoreAssumption
  <2> QED BY <2>1, <2>2, <2>3 DEF OneCommit
<1>12. CASE RunEvent
  BY <1>4, <1>6, <1>12 DEF RunEvent, WorkerReady
<1> QED BY <1>8, <1>9, <1>10, <1>11, <1>12

\* A write of the batch was done: the next one, or the end.
LEMMA OkInBatch ==
    ASSUME IInv, BatchInv, NEW c \in Clients, ResumeOk(c)
    PROVE  BatchInv'
<1> DEFINE r == http[c]
           t == r.todo[1]
<1>1. r.op # "idle" /\ r.at = "ok"
  BY DEF ResumeOk
<1>2. /\ AtBatch(r) /\ Calm /\ \A d \in Clients \ {c} : http[d].op = "idle"
      /\ r \in HttpState /\ r.todo \in Seq(Task) /\ r.made \in Seq(Alerts)
      /\ r.todo # <<>> /\ Head(r.todo) = t /\ t \in Task /\ TypeOK /\ 1 \in DOMAIN r.todo
  BY <1>1, AtWork DEF IInv
<1>3. /\ EachOnce(Tail(r.todo)) /\ Tail(r.todo) \in Seq(Task)
      /\ Ids(Tail(r.todo)) = Ids(r.todo) \ {t.id} /\ t.id \in Ids(r.todo)
      /\ Tail(r.todo) = <<>> => Ids(r.todo) = {t.id}
  <2>1. EachOnce(r.todo) /\ Tail(r.todo) \in Seq(Task)
    BY <1>2 DEF AtBatch
  <2> QED BY <1>2, <2>1, TailIds
<1>4. /\ UNCHANGED <<mem, db, dbQueue, batch, expiring, past, used, ops, fails, repeats>>
      /\ \/ r.op = "undo" /\ Continue(c, "undo", "call", Tail(r.todo), <<>>)
         \/ r.op = "commit" /\ Continue(c, "commit", "call", Tail(r.todo), Append(r.made, t.id))
  <2>1. r.op \in {"commit", "undo"}
    BY <1>2 DEF AtBatch
  <2> QED BY <1>2, <2>1 DEF ResumeOk, store, history, counters
<1>5. Calm' /\ InTable' = InTable /\ dbQueue' = <<>> /\ ops' = 1 /\ fails' = fails /\ used' = used
  BY <1>1, <1>2, <1>4 DEF Calm, InTable, AtBatch
<1>6. \A i \in DOMAIN Tail(r.todo) : i + 1 \in DOMAIN r.todo /\ Tail(r.todo)[i] = r.todo[i + 1]
  BY <1>2, TailAt
<1>7. CASE r.op = "undo" /\ Continue(c, "undo", "call", Tail(r.todo), <<>>)
  <2>1. /\ InTable = Ids(Tail(r.todo)) /\ fails = 1
        /\ \A i \in DOMAIN Tail(r.todo) : Tail(r.todo)[i].op = "delete"
    <3>1. TakingBack(r)
      BY <1>2, <1>7 DEF AtBatch
    <3>2. InTable = Ids(r.todo) \ {t.id} /\ fails = 1
      BY <1>1, <3>1 DEF TakingBack, Landed
    <3>3. \A i \in DOMAIN r.todo : r.todo[i].op = "delete"
      BY <3>1 DEF TakingBack
    <3> QED BY <1>3, <1>6, <3>2, <3>3
  <2>2. CASE Tail(r.todo) = <<>>
    <3>1. http'[c].op = "idle" /\ \A d \in Clients \ {c} : http'[d] = http[d]
      BY <1>2, <1>7, <2>2 DEF Continue, Idle, TypeOK
    <3>2. InTable' = {}
      BY <1>3, <1>5, <2>1, <2>2
    <3>3. AtRest'
      BY <1>5, <3>2 DEF AtRest
    <3> QED BY <1>2, <1>5, <3>1, <3>3, BatchGoesOn
  <2>3. CASE Tail(r.todo) # <<>>
    <3>1. /\ http'[c] = [op |-> "undo", at |-> "call", todo |-> Tail(r.todo), made |-> <<>>]
          /\ \A d \in Clients \ {c} : http'[d] = http[d]
      BY <1>2, <1>7, <2>3 DEF Continue, Idle, TypeOK
    <3>2. AtBatch(http[c])'
      BY <1>3, <1>5, <2>1, <3>1 DEF AtBatch, TakingBack, Landed
    <3> QED BY <1>2, <1>5, <3>1, <3>2, BatchGoesOn
  <2> QED BY <2>2, <2>3
<1>8. CASE r.op = "commit" /\ Continue(c, "commit", "call", Tail(r.todo), Append(r.made, t.id))
  <2> DEFINE more == Append(r.made, t.id)
  <2>1. Saving(r) /\ t.id \in Alerts
    BY <1>2, <1>8 DEF AtBatch, Task
  <2>2. t.id \notin Members(r.made)
    BY <1>3, <2>1 DEF Saving
  <2>3. /\ Members(more) = Members(r.made) \cup {t.id}
        /\ \A i, j \in DOMAIN more : more[i] = more[j] => i = j
    BY <1>2, <2>1, <2>2, MadeMore DEF Saving
  <2> HIDE DEF more
  <2>4. InTable = Members(more) /\ fails = 0 /\ used = Ids(Tail(r.todo)) \cup Members(more)
    BY <1>1, <1>3, <2>1, <2>3 DEF Saving, Landed
  <2>5. CASE Tail(r.todo) = <<>>
    <3>1. http'[c].op = "idle" /\ \A d \in Clients \ {c} : http'[d] = http[d]
      BY <1>2, <1>8, <2>5 DEF Continue, Idle, TypeOK
    <3>2. Ids(Tail(r.todo)) = {}
      BY <1>3, <2>5
    <3>3. AtRest'
      BY <1>5, <2>4, <3>2 DEF AtRest
    <3> QED BY <1>2, <1>5, <3>1, <3>3, BatchGoesOn
  <2>6. CASE Tail(r.todo) # <<>>
    <3>1. /\ http'[c] = [op |-> "commit", at |-> "call", todo |-> Tail(r.todo), made |-> more]
          /\ \A d \in Clients \ {c} : http'[d] = http[d]
      BY <1>2, <1>8, <2>6 DEF Continue, Idle, TypeOK, more
    <3>2. Ids(Tail(r.todo)) \cap Members(more) = {}
      BY <1>3, <2>1, <2>3 DEF Saving
    <3>3. \A i \in DOMAIN Tail(r.todo) : Tail(r.todo)[i].op = "upsert" /\ Tail(r.todo)[i].row = BatchRow
      BY <1>6, <2>1 DEF Saving
    <3>4. Saving(http[c])'
      BY <1>5, <2>3, <2>4, <3>1, <3>2, <3>3 DEF Saving, Landed
    <3>5. AtBatch(http[c])'
      BY <1>3, <1>5, <3>1, <3>4 DEF AtBatch
    <3> QED BY <1>2, <1>5, <3>1, <3>5, BatchGoesOn
  <2> QED BY <2>5, <2>6
<1> QED BY <1>4, <1>7, <1>8

\* A write of the batch was refused: what was saved of it is to be deleted again.
LEMMA FailInBatch ==
    ASSUME IInv, BatchInv, NEW c \in Clients, ResumeFail(c)
    PROVE  BatchInv'
<1> DEFINE r == http[c]
           back == TakeBack(c, r.made)
<1>1. r.op # "idle" /\ r.at = "fail"
  BY DEF ResumeFail
<1>2. /\ AtBatch(r) /\ Calm /\ \A d \in Clients \ {c} : http[d].op = "idle"
      /\ r.made \in Seq(Alerts) /\ TypeOK
  BY <1>1, AtWork DEF IInv
<1>3. r.op = "commit" /\ Saving(r)
  BY <1>1, <1>2 DEF AtBatch, TakingBack
<1>4. /\ Continue(c, "undo", "call", back, <<>>)
      /\ UNCHANGED <<db, dbQueue, batch, expiring, past, used, ops, fails, repeats>>
      /\ \A a \in Alerts : mem'[a] \in {mem[a], Absent}
  BY <1>3 DEF ResumeFail, history, counters
<1>5. /\ Calm' /\ InTable' = InTable /\ InTable = Members(r.made) /\ dbQueue' = <<>> /\ ops' = 1
      /\ fails' = 1
  <2>1. Calm'
    BY <1>2, <1>4 DEF Calm
  <2> QED BY <1>1, <1>2, <1>3, <1>4, <2>1 DEF InTable, AtBatch, Saving, Landed
<1>6. /\ DOMAIN back = DOMAIN r.made
      /\ \A i \in DOMAIN r.made : back[i].id = r.made[i] /\ back[i].op = "delete"
  <2>1. DOMAIN r.made = 1..Len(r.made)
    BY <1>2
  <2> QED BY <2>1 DEF TakeBack, Erase
<1> HIDE DEF back
<1>7. Ids(back) = Members(r.made) /\ EachOnce(back)
  BY <1>3, <1>6 DEF Ids, Members, EachOnce, Saving
<1>8. CASE back = <<>>
  <2>1. http'[c].op = "idle" /\ \A d \in Clients \ {c} : http'[d] = http[d]
    BY <1>2, <1>4, <1>8 DEF Continue, Idle, TypeOK
  <2>2. DOMAIN <<>> = {}
    OBVIOUS
  <2>3. InTable' = {}
    BY <1>5, <1>7, <1>8, <2>2 DEF Ids
  <2>4. AtRest'
    BY <1>5, <2>3 DEF AtRest
  <2> QED BY <1>2, <1>5, <2>1, <2>4, BatchGoesOn
<1>9. CASE back # <<>>
  <2>1. /\ http'[c] = [op |-> "undo", at |-> "call", todo |-> back, made |-> <<>>]
        /\ \A d \in Clients \ {c} : http'[d] = http[d]
    BY <1>2, <1>4, <1>9 DEF Continue, Idle, TypeOK
  <2>2. AtBatch(http[c])'
    BY <1>5, <1>6, <1>7, <2>1 DEF AtBatch, TakingBack, Landed
  <2> QED BY <1>2, <1>5, <2>1, <2>2, BatchGoesOn
<1> QED BY <1>8, <1>9

\* Nothing else happens to the batch: no other request is made, nothing is due.
LEMMA OthersInBatch ==
    ASSUME IInv, OneCommit, BatchInv
    PROVE  /\ \A S \in SUBSET Alerts : ~CheckAlerts(S)
           /\ ~Evaluator /\ ~ExpireTimedOut /\ ~Crash
           /\ \A t \in expiring : ~WriteExpired(t) /\ ~FailExpired(t)
           /\ \A a \in Timed : ~PassTime(a)
           /\ \A c \in Clients : /\ ~TryTrigger(c) /\ ~ArmDependents(c)
                                 /\ \A op, todo : Begin(c, op, todo) => op = "commit"
<1>1. Calm /\ past = {} /\ batch = {} /\ expiring = {} /\ repeats = 0
  BY DEF BatchInv, Calm
<1>2. ASSUME NEW S \in SUBSET Alerts, CheckAlerts(S) PROVE FALSE
  <2>1. S # {} /\ \A a \in S : mem[a].status = "active"
    BY <1>2 DEF CheckAlerts, ActiveIndex
  <2>2. \A a \in S : a \in Repeating /\ mem[a].gate = FALSE
    BY <1>1, <2>1 DEF Calm, BatchRow, Absent
  <2>3. (S \ (past \cup {a \in S \ past : mem[a].gate})) \cap Repeating = S
    BY <1>1, <2>2
  <2>4. repeats' = Cardinality(S) /\ repeats' <= 0
    <3>1. IsFiniteSet(S) /\ Cardinality(S) \in Nat
      BY StoreAssumption, FS_Subset, FS_CardinalityType
    <3>2. repeats' = repeats + Cardinality((S \ (past \cup {a \in S \ past : mem[a].gate})) \cap Repeating)
          /\ repeats' <= MaxRepeat
      BY <1>2 DEF CheckAlerts
    <3>3. repeats' = repeats + Cardinality(S)
      BY <2>3, <3>2
    <3>4. MaxRepeat = 0
      BY DEF OneCommit
    <3> QED BY <1>1, <3>1, <3>2, <3>3, <3>4
  <2>5. IsFiniteSet(S) /\ Cardinality(S) \in Nat /\ Cardinality(S) # 0
    BY <2>1, StoreAssumption, FS_Subset, FS_CardinalityType, FS_EmptySet
  <2> QED BY <2>4, <2>5
<1>3. ~Evaluator /\ ~ExpireTimedOut /\ \A t \in expiring : ~WriteExpired(t) /\ ~FailExpired(t)
  BY <1>1 DEF Evaluator, ExpireTimedOut
<1>4. ~Crash
  BY DEF Crash, OneCommit, IInv, TypeOK
<1>5. \A a \in Timed : ~PassTime(a)
  BY DEF OneCommit
<1>6. \A c \in Clients : \A op, todo : Begin(c, op, todo) => op = "commit"
  BY DEF Begin, OneCommit
<1>7. \A c \in Clients : ~TryTrigger(c) /\ ~ArmDependents(c)
  BY DEF TryTrigger, ArmDependents, BatchInv, AtBatch
<1> QED BY <1>2, <1>3, <1>4, <1>5, <1>6, <1>7

\* Every step keeps what is known of the batch.
LEMMA StepInBatch ==
    ASSUME IInv, OneCommit, BatchInv, [Next]_vars
    PROVE  BatchInv'
<1>1. CASE UNCHANGED vars
  <2>1. UNCHANGED <<mem, db, dbQueue, batch, expiring, http, past, used, ops, fails, repeats>>
    BY <1>1 DEF vars, store, history, counters
  <2> QED BY <2>1 DEF BatchInv, Calm, AtRest, InTable, AtBatch, Saving, TakingBack
<1>2. CASE Worker \/ Refuse
  <2>1. RunUpsert \/ FailUpsert \/ RunDelete \/ FailDelete \/ RunEvent
    BY <1>2, OthersInBatch DEF Worker, Refuse
  <2> QED BY <2>1, WorkInBatch
<1>3. ASSUME NEW c \in Clients, Arrive(c) PROVE BatchInv'
  <2>1. PICK S \in SUBSET Repeating : CommitCreated(c, S)
    BY <1>3, OthersInBatch DEF Arrive, Create, Update, Delete
  <2> QED BY <2>1, CommitInBatch
<1>4. ASSUME NEW c \in Clients, Proceed(c) PROVE BatchInv'
  BY <1>4, OthersInBatch, CallInBatch, OkInBatch, FailInBatch DEF Proceed
<1> QED BY <1>1, <1>2, <1>3, <1>4, OthersInBatch DEF Next

\* At the start there is no alert and no request.
LEMMA StartBatch == ASSUME OneCommit, Init PROVE BatchInv
<1>1. /\ db = [a \in Alerts |-> Absent] /\ mem = db /\ dbQueue = <<>> /\ batch = {} /\ expiring = {}
      /\ http = [c \in Clients |-> Idle] /\ past = {} /\ ops = 0 /\ fails = 0 /\ repeats = 0
  BY DEF Init, OneCommit
<1>2. used = {}
  <2>1. NoAlert \notin Alerts
    BY StoreAssumption
  <2> QED BY <1>1, <2>1 DEF Init, Absent
<1>3. \A c \in Clients : http[c].op = "idle"
  BY <1>1 DEF Idle
<1>4. Calm /\ AtRest
  BY <1>1, <1>2 DEF Calm, AtRest, InTable
<1> QED BY <1>3, <1>4 DEF BatchInv

\* "Saves all of them or none": whichever write of a commitCreatedAlerts the database
\* refuses, once everything has come to rest every row of the batch is there, or no row.
\* It takes a database that refuses one write at most, a process that lives on, and that
\* none of the alerts fires or expires meanwhile.
THEOREM BatchIsAllOrNone == ASSUME OneCommit PROVE Spec => []AllOrNone
<1>1. IInv /\ [Next]_vars /\ BatchInv => BatchInv'
  BY StepInBatch
<1>2. Init => BatchInv
  BY StartBatch
<1>3. IInv /\ BatchInv => AllOrNone
  <2> SUFFICES ASSUME IInv, BatchInv, Quiet PROVE {a \in used : db[a] # Absent} \in {{}, used}
    BY DEF AllOrNone
  <2>1. AtRest
    BY DEF Quiet, BatchInv, Idle
  <2>2. used \subseteq Alerts
    BY DEF IInv, TypeOK
  <2> QED BY <2>1, <2>2 DEF AtRest, InTable
<1> QED BY Invariance, <1>1, <1>2, <1>3, PTL DEF Spec

=============================================================================
