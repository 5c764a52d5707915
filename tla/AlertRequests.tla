---------------------------- MODULE AlertRequests ----------------------------
(***************************************************************************)
(* The requests about alerts of Routes.cc and what AlertManager does for   *)
(* them: creation of one alert, of a batch that is committed together, of  *)
(* previous-day alerts pair by pair, update, deletion and reading, by      *)
(* handlers that run at once.  Each works on the cache under its lock and  *)
(* then waits for a row to be written; writes fail, and the process can be *)
(* restarted.                                                              *)
(*                                                                         *)
(* An alert is abstracted to what the requests must keep right: the alert  *)
(* it waits for and the chain the two share, whether its channels need a   *)
(* text (SMS and calls) and whether it has one.  Firing and expiry are     *)
(* those of AlertStore, and so is the queue of the database worker: here a *)
(* write happens in one step.  The limit of the plan is in DeliveryQuota.  *)
(***************************************************************************)
EXTENDS Naturals, Sequences, FiniteSets, SequencesExt

CONSTANTS
    Handlers,       \* I/O threads that serve a request at once
    Alerts, PairOf, \* identifiers, and the pair each alert is for
    First,          \* an alert that exists at the start, without a chain
    None,
    Asks,           \* requests, each made at most once
    Ask,            \* what each asks for: [kind, ids, after, sets, text, msg, due, intervals, events, dir]
    MaxAsks, MaxFailures, MaxCrashes        \* bounds

VARIABLES
    cache,          \* AlertManager::alerts_
    rows,           \* the table alerts
    hand,           \* what each handler is doing
    reply,          \* what each request was answered
    failures, crashes,
    torn            \* history: alerts two handlers worked on at once, or a write of which failed

requests == <<cache, rows, hand, reply, failures, crashes, torn>>

Absent == [live |-> FALSE, chain |-> None, after |-> None, text |-> FALSE, msg |-> FALSE]
Row(chain, after, text, msg) ==
    [live |-> TRUE, chain |-> chain, after |-> after, text |-> text, msg |-> msg]
Ready == [at |-> "ready", ask |-> None, n |-> 0, id |-> None, row |-> Absent, other |-> Absent]

RequestsInit == /\ cache = [a \in Alerts |-> IF a = First THEN Row(None, None, FALSE, TRUE) ELSE Absent]
                /\ rows = cache
                /\ hand = [h \in Handlers |-> Ready]
                /\ reply = [q \in Asks |-> "none"]
                /\ failures = 0 /\ crashes = 0 /\ torn = {}

-----------------------------------------------------------------------------
(* What the handlers have in common *)

Of(h) == Ask[hand[h].ask]
Goes(h, at) == hand' = [hand EXCEPT ![h].at = at]
Answer(h, r) == /\ hand' = [hand EXCEPT ![h] = Ready]
                /\ reply' = [reply EXCEPT ![hand[h].ask] = r]

\* The alerts a handler has read, or has changed in the cache and not yet in the table.
Holds(h) == CASE hand[h].at \in {"save", "found", "erase", "row", "undone", "checked"} -> {hand[h].id}
              [] hand[h].at = "parent" -> {hand[h].id, Of(h).after}
              [] hand[h].at \in {"rows", "unmake"} -> Range(Of(h).ids)
              [] OTHER -> {}
Works(h, S) == torn' = torn \cup (S \cap UNION {Holds(g) : g \in Handlers \ {h}})

Writes(a, row) == rows' = [rows EXCEPT ![a] = row] /\ UNCHANGED failures
Fails == failures < MaxFailures /\ failures' = failures + 1 /\ UNCHANGED rows

\* SMS and calls are sent with the text of the alert.
Fits(row) == row.text => row.msg

-----------------------------------------------------------------------------
(* What each route makes of a request, and the arguments each create* of the manager takes *)

Intervals == {"1m", "5m", "15m", "30m", "1h", "4h", "1d"}
Directions == {"bull", "bear", "any"}

\* The checks every route makes: SMS and calls have a text, and the alert expires in the future.
Valid(q) == Fits(q)
Due(q) == q.due = "future"

DrawArgs(q) == q.dir \in {"high", "low", "both"} /\ q.events # {}
                 /\ q.events \subseteq {"sweep", "displacement", "reversal", "draw_met"}
SessionArgs(q) == /\ q.intervals # {} /\ q.intervals \subseteq Intervals \ {"1d"}
                  /\ q.events # {} /\ q.events \subseteq {"any", "bos", "choch", "sweep"}
                  /\ q.dir \in Directions
                  /\ Cardinality(q.intervals) > 1 => q.dir # "any"
ConfirmArgs(q) == q.events # {} /\ q.events \subseteq {"bos", "choch", "cisd"} /\ q.dir \in Directions
HourArgs(q) == q.dir \in Directions
StructureArgs(q) == /\ q.intervals \subseteq Intervals /\ q.dir \in Directions
                    /\ q.events # {} /\ q.events \subseteq {"any", "bos", "choch", "sweep"}
FvgArgs(q) == q.intervals \subseteq Intervals /\ q.dir \in Directions
FvgBatchArgs(q) == q.intervals \subseteq Intervals /\ q.dir \in Directions
Candle2Args(q) == q.intervals \subseteq Intervals /\ q.dir \in Directions
CandleArgs(q) == q.intervals \subseteq Intervals

PrevDayLevel(q) == IF Valid(q) /\ Due(q) /\ DrawArgs(q) THEN "insert" ELSE "refuse"
StructureSession(q) == IF Valid(q) /\ Due(q) /\ SessionArgs(q) THEN "commit" ELSE "refuse"
HourSweepCisd(q) == IF Valid(q) /\ Due(q) /\ HourArgs(q) THEN "commit" ELSE "refuse"
SweepConfirm(q) == IF Valid(q) /\ Due(q) /\ ConfirmArgs(q) THEN "commit" ELSE "refuse"
MarketStructure(q) == IF Valid(q) /\ Due(q) /\ StructureArgs(q) THEN "insert" ELSE "refuse"
Fvg(q) == CASE Valid(q) /\ Due(q) /\ Len(q.ids) > 1 /\ q.after = None /\ FvgBatchArgs(q) -> "commit"
            [] Valid(q) /\ Due(q) /\ Len(q.ids) = 1 /\ FvgArgs(q) -> "insert"
            [] OTHER -> "refuse"
Candle2Closure(q) == IF Valid(q) /\ Due(q) /\ Candle2Args(q) THEN "commit" ELSE "refuse"
CandleClose(q) == IF Valid(q) /\ Due(q) /\ CandleArgs(q) /\ q.dir \in {"above", "below"} THEN "insert" ELSE "refuse"
Price(q) == IF Valid(q) /\ Due(q) /\ q.dir \in {"above", "below", "equal"} THEN "insert" ELSE "refuse"

Route(q) == CASE q.kind = "prev_day_level" -> PrevDayLevel(q)
              [] q.kind = "structure_session" -> StructureSession(q)
              [] q.kind = "hour_sweep_cisd" -> HourSweepCisd(q)
              [] q.kind = "sweep_confirm" -> SweepConfirm(q)
              [] q.kind = "market_structure" -> MarketStructure(q)
              [] q.kind = "fvg" -> Fvg(q)
              [] q.kind = "candle2_closure" -> Candle2Closure(q)
              [] q.kind = "candle_close" -> CandleClose(q)
              [] q.kind = "price" -> Price(q)
              [] q.kind = "update" -> "check"
              [] q.kind \in {"delete", "get"} -> "own"

\* A handler takes a request.
Begin(h, q) == /\ hand[h] = Ready /\ reply[q] = "none"
               /\ \A g \in Handlers : hand[g].ask # q
               /\ Cardinality({r \in Asks : reply[r] # "none" \/ \E g \in Handlers : hand[g].ask = r}) < MaxAsks
               /\ hand' = [hand EXCEPT ![h] = [Ready EXCEPT !.ask = q, !.at = Route(Ask[q]), !.n = 1]]
               /\ UNCHANGED <<cache, rows, reply, failures, crashes, torn>>
\* The body, the arguments or the plan of a creation are not good.
TurnDown(h) == /\ hand[h].at = "refuse"
               /\ Answer(h, "refused")
               /\ UNCHANGED <<cache, rows, failures, crashes, torn>>

-----------------------------------------------------------------------------
(* Creation one by one: createPriceAlert, createCandleAlert, createDrawAlert, *)
(* createStructureAlert, createFvgAlert *)

\* applyDependsOnLocked: the alert to wait for exists and is for the same pair.  When it has
\* no chain it is given one, which is then to be written before the new alert.
MayWaitFor(id, after) == after # None => cache[after].live /\ PairOf[after] = PairOf[id]
ChainFor(id, after) == IF after = None \/ cache[after].chain = None THEN id ELSE cache[after].chain

\* createDrawAlertBatch deletes what it made, the last one first.
GiveUp(h) == IF hand[h].n > 1 THEN /\ hand' = [hand EXCEPT ![h].at = "undo", ![h].n = @ - 1]
                                   /\ UNCHANGED reply
                              ELSE Answer(h, "refused")

Insert(h) ==
    /\ hand[h].at = "insert"
    /\ LET ask == Of(h)
           id == ask.ids[hand[h].n]
           row == Row(ChainFor(id, ask.after), ask.after, ask.text, ask.msg)
           patched == ask.after # None /\ cache[ask.after].chain = None
       IN IF MayWaitFor(id, ask.after)
          THEN /\ cache' = IF patched THEN [cache EXCEPT ![id] = row, ![ask.after].chain = id]
                                      ELSE [cache EXCEPT ![id] = row]
               /\ hand' = [hand EXCEPT ![h].at = IF patched THEN "parent" ELSE "row", ![h].id = id,
                                       ![h].row = row,
                                       ![h].other = IF patched THEN cache'[ask.after] ELSE Absent]
               /\ Works(h, {id, ask.after})
               /\ UNCHANGED reply
          ELSE GiveUp(h) /\ UNCHANGED <<cache, torn>>
    /\ UNCHANGED <<rows, failures, crashes>>

\* The row of the alert waited for, as it was when the chain was given.  When that fails the
\* new alert goes, and the chain stays in the cache.
WriteParent(h) == /\ hand[h].at = "parent"
                  /\ Writes(Of(h).after, hand[h].other)
                  /\ Goes(h, "row")
                  /\ UNCHANGED <<cache, reply, crashes, torn>>
FailParent(h) == /\ hand[h].at = "parent" /\ Fails
                 /\ cache' = [cache EXCEPT ![hand[h].id] = Absent]
                 /\ torn' = torn \cup {Of(h).after}
                 /\ GiveUp(h)
                 /\ UNCHANGED crashes

\* The new row; of previous-day alerts the next one follows.
WriteRow(h) == /\ hand[h].at = "row"
               /\ Writes(hand[h].id, hand[h].row)
               /\ IF hand[h].n < Len(Of(h).ids)
                  THEN /\ hand' = [hand EXCEPT ![h].at = "insert", ![h].n = @ + 1]
                       /\ UNCHANGED reply
                  ELSE Answer(h, "made")
               /\ UNCHANGED <<cache, crashes, torn>>
FailRow(h) == /\ hand[h].at = "row" /\ Fails
              /\ cache' = [cache EXCEPT ![hand[h].id] = Absent]
              /\ GiveUp(h)
              /\ UNCHANGED <<crashes, torn>>

-----------------------------------------------------------------------------
(* Creation of a batch: commitCreatedAlerts *)

Commit(h) == /\ hand[h].at = "commit"
             /\ LET ids == Range(Of(h).ids)
                IN /\ cache' = [a \in Alerts |-> IF a \in ids THEN Row(None, None, Of(h).text, Of(h).msg)
                                                              ELSE cache[a]]
                   /\ Works(h, ids)
             /\ Goes(h, "rows")
             /\ UNCHANGED <<rows, reply, failures, crashes>>
WriteNext(h) == /\ hand[h].at = "rows"
                /\ Writes(Of(h).ids[hand[h].n], Row(None, None, Of(h).text, Of(h).msg))
                /\ IF hand[h].n < Len(Of(h).ids)
                   THEN /\ hand' = [hand EXCEPT ![h].n = @ + 1]
                        /\ UNCHANGED reply
                   ELSE Answer(h, "made")
                /\ UNCHANGED <<cache, crashes, torn>>
\* All of it leaves the cache, and what was written is deleted; that it was is not asked.
FailNext(h) == /\ hand[h].at = "rows" /\ Fails
               /\ cache' = [a \in Alerts |-> IF a \in Range(Of(h).ids) THEN Absent ELSE cache[a]]
               /\ IF hand[h].n > 1
                  THEN /\ hand' = [hand EXCEPT ![h].at = "unmake", ![h].id = Of(h).ids[hand[h].n], ![h].n = 1]
                       /\ UNCHANGED reply
                  ELSE Answer(h, "refused")
               /\ UNCHANGED <<crashes, torn>>
Unmake(h) == /\ hand[h].at = "unmake"
             /\ LET id == Of(h).ids[hand[h].n]
                IN \/ Writes(id, Absent) /\ UNCHANGED torn
                   \/ Fails /\ torn' = torn \cup {id}
             /\ IF Of(h).ids[hand[h].n + 1] # hand[h].id
                THEN /\ hand' = [hand EXCEPT ![h].n = @ + 1]
                     /\ UNCHANGED reply
                ELSE Answer(h, "refused")
             /\ UNCHANGED <<cache, crashes>>

-----------------------------------------------------------------------------
(* Deletion: deleteAlert, of a request and of createDrawAlertBatch *)

Owned(h) == /\ hand[h].at = "own"
            /\ LET id == Of(h).ids[1]
               IN IF cache[id].live
                  THEN /\ hand' = [hand EXCEPT ![h].at = IF Of(h).kind = "get" THEN "found" ELSE "drop", ![h].id = id]
                       /\ Works(h, IF Of(h).kind = "get" THEN {id} ELSE {})
                       /\ UNCHANGED reply
                  ELSE Answer(h, "missing") /\ UNCHANGED torn
            /\ UNCHANGED <<cache, rows, failures, crashes>>

\* Out of the cache, then out of the table; what could not be deleted comes back.
TakeOut(h, id, at) == /\ cache' = [cache EXCEPT ![id] = Absent]
                      /\ hand' = [hand EXCEPT ![h].at = at, ![h].id = id, ![h].row = cache[id]]
                      /\ Works(h, {id})
                      /\ UNCHANGED reply
Drop(h) == /\ hand[h].at = "drop"
           /\ IF cache[hand[h].id].live THEN TakeOut(h, hand[h].id, "erase")
                                        ELSE Answer(h, "failed") /\ UNCHANGED <<cache, torn>>
           /\ UNCHANGED <<rows, failures, crashes>>
Undo(h) == /\ hand[h].at = "undo"
           /\ LET id == Of(h).ids[hand[h].n]
              IN IF cache[id].live THEN TakeOut(h, id, "undone")
                                   ELSE GiveUp(h) /\ UNCHANGED <<cache, torn>>
           /\ UNCHANGED <<rows, failures, crashes>>
Settle(h, r) == IF hand[h].at = "undone" THEN GiveUp(h) ELSE Answer(h, r)
Erase(h) == /\ hand[h].at \in {"erase", "undone"}
            /\ Writes(hand[h].id, Absent)
            /\ Settle(h, "deleted")
            /\ UNCHANGED <<cache, crashes, torn>>
FailErase(h) == /\ hand[h].at \in {"erase", "undone"} /\ Fails
                /\ cache' = [cache EXCEPT ![hand[h].id] = hand[h].row]
                /\ torn' = torn \cup {hand[h].id}
                /\ Settle(h, "failed")
                /\ UNCHANGED crashes

\* getAlert reads the alert a second time and takes it for granted.
Get(h) == /\ hand[h].at = "found"
          /\ Answer(h, IF cache[hand[h].id].live THEN "shown" ELSE "undefined")
          /\ UNCHANGED <<cache, rows, failures, crashes, torn>>

-----------------------------------------------------------------------------
(* Change: updateAlert *)

With(row, ask) == [row EXCEPT !.text = IF "text" \in ask.sets THEN ask.text ELSE @,
                              !.msg = IF "msg" \in ask.sets THEN ask.msg ELSE @]
\* The route judges the change by the alert it reads.
Check(h) == /\ hand[h].at = "check"
            /\ LET id == Of(h).ids[1]
               IN CASE ~cache[id].live -> Answer(h, "missing") /\ UNCHANGED torn
                    [] cache[id].live /\ ~Fits(With(cache[id], Of(h))) -> Answer(h, "refused") /\ UNCHANGED torn
                    [] cache[id].live /\ Fits(With(cache[id], Of(h))) ->
                            /\ hand' = [hand EXCEPT ![h].at = "checked", ![h].id = id]
                            /\ Works(h, {id}) /\ UNCHANGED reply
            /\ UNCHANGED <<cache, rows, failures, crashes>>
\* The manager makes it on the alert as it then is, and puts the alert back as it was when the
\* row cannot be written.
Change(h) == /\ hand[h].at = "checked"
             /\ LET id == hand[h].id
                IN IF cache[id].live
                   THEN /\ cache' = [cache EXCEPT ![id] = With(@, Of(h))]
                        /\ hand' = [hand EXCEPT ![h].at = "save", ![h].row = cache'[id], ![h].other = cache[id]]
                        /\ Works(h, {id}) /\ UNCHANGED reply
                   ELSE Answer(h, "missing") /\ UNCHANGED <<cache, torn>>
             /\ UNCHANGED <<rows, failures, crashes>>
Save(h) == /\ hand[h].at = "save"
           /\ Writes(hand[h].id, hand[h].row)
           /\ Answer(h, "changed")
           /\ UNCHANGED <<cache, crashes, torn>>
FailSaveKept(h) == /\ hand[h].at = "save" /\ Fails        \* mutant: the change stays in the cache
                   /\ Answer(h, "refused")
                   /\ UNCHANGED <<cache, crashes, torn>>
FailSave(h) == /\ hand[h].at = "save" /\ Fails
               /\ cache' = [cache EXCEPT ![hand[h].id] = hand[h].other]
               /\ Answer(h, "refused")
               /\ UNCHANGED <<crashes, torn>>


\* The process starts again: loadAlerts.
Restart == /\ crashes < MaxCrashes /\ crashes' = crashes + 1
           /\ cache' = rows
           /\ reply' = [q \in Asks |-> IF \E h \in Handlers : hand[h].ask = q THEN "lost" ELSE reply[q]]
           /\ hand' = [h \in Handlers |-> Ready]
           /\ UNCHANGED <<rows, failures, torn>>

Step(h) == \/ \E q \in Asks : Begin(h, q)
           \/ TurnDown(h) \/ Insert(h) \/ WriteParent(h) \/ FailParent(h) \/ WriteRow(h) \/ FailRow(h)
           \/ Commit(h) \/ WriteNext(h) \/ FailNext(h) \/ Unmake(h)
           \/ Owned(h) \/ Drop(h) \/ Undo(h) \/ Erase(h) \/ FailErase(h) \/ Get(h)
           \/ Check(h) \/ Change(h) \/ Save(h) \/ FailSave(h)
RequestsNext == Restart \/ \E h \in Handlers : Step(h)
RequestsSpec == RequestsInit /\ [][RequestsNext]_requests

-----------------------------------------------------------------------------
(* Properties *)

Creation(q) == Ask[q].kind \notin {"update", "delete", "get"}
Deleted == {a \in Alerts : \E q \in Asks : Ask[q].kind = "delete" /\ a \in Range(Ask[q].ids)}

\* What the proofs assume of the constants: identifiers are drawn at random, so that each
\* request creates alerts of its own, none of which it can wait for; the others name one.
Kinds == {"prev_day_level", "structure_session", "hour_sweep_cisd", "sweep_confirm", "market_structure",
          "fvg", "candle2_closure", "candle_close", "price", "update", "delete", "get"}
RequestsConstants ==
    /\ IsFiniteSet(Alerts) /\ First \in Alerts /\ None \notin Alerts \cup Asks
    /\ MaxFailures \in Nat /\ MaxCrashes \in Nat
    /\ \A q \in Asks : /\ Ask[q].kind \in Kinds /\ Ask[q].ids \in Seq(Alerts) /\ Ask[q].ids # <<>>
                       /\ Ask[q].after \in Alerts \cup {None} /\ {Ask[q].text, Ask[q].msg} \subseteq BOOLEAN
                       /\ ~Creation(q) => Len(Ask[q].ids) = 1
    /\ \A q \in Asks : Creation(q) =>
          /\ IsInjective(Ask[q].ids) /\ {First, Ask[q].after} \cap Range(Ask[q].ids) = {}
          /\ \A r \in Asks \ {q} : Creation(r) => Range(Ask[q].ids) \cap Range(Ask[r].ids) = {}

Ats == {"ready", "refuse", "insert", "parent", "row", "undo", "undone", "commit", "rows", "unmake",
        "own", "found", "drop", "erase", "check", "checked", "save"}
Replies == {"none", "made", "refused", "missing", "failed", "deleted", "shown", "undefined", "changed", "lost"}
RowType == [live : BOOLEAN, chain : Alerts \cup {None}, after : Alerts \cup {None},
            text : BOOLEAN, msg : BOOLEAN]
\* Every variable keeps its type.
RequestsTypeOK ==
    /\ cache \in [Alerts -> RowType] /\ rows \in [Alerts -> RowType]
    /\ hand \in [Handlers -> [at : Ats, ask : Asks \cup {None}, n : 0..Cardinality(Alerts),
                              id : Alerts \cup {None}, row : RowType, other : RowType]]
    /\ reply \in [Asks -> Replies]
    /\ failures \in 0..MaxFailures /\ crashes \in 0..MaxCrashes /\ torn \subseteq Alerts

\* When no handler is at work the cache and the table agree about every alert that was not
\* worked on by two handlers at once and whose writes did not fail in the middle of several:
\* whatever a failed creation, deletion or change put into the cache was taken out again.
SameAtRest == (\A h \in Handlers : hand[h] = Ready) =>
                \A a \in Alerts \ torn : cache[a] = rows[a]

\* A creation that was refused leaves none of its alerts behind, in the cache or in the
\* table, unless its own compensation failed or meets a request to delete one: a batch is made
\* as a whole or not at all.
Refused(q) == reply[q] = "refused" /\ Creation(q)
NothingIsLeft == \A q \in Asks : Refused(q) =>
                   \A a \in (Range(Ask[q].ids) \ torn) \ Deleted : ~cache[a].live /\ ~rows[a].live

\* A creation that was confirmed is in the table, through any failure and restart that follows,
\* unless there is a request to delete it.
MadeIsKept == \A q \in Asks : reply[q] = "made" => \A a \in Range(Ask[q].ids) \ Deleted : rows[a].live

\* An alert and the one it waits for are of one chain, in the cache and after a restart, unless
\* two handlers worked on one of them at once: a change of an alert that is still being created
\* can be in the table before the chain of the other is.
OneChain == \A a \in Alerts \ torn : LET p == rows[a].after IN
              rows[a].live /\ p # None /\ p \notin torn /\ rows[p].live =>
                rows[p].chain = rows[a].chain /\ (cache[p].live => cache[p].chain = rows[a].chain)

\* An alert that is sent by SMS or call has a text, unless two changes of it were judged at once.
TextForSms == \A a \in Alerts \ torn : cache[a].live => Fits(cache[a])

\* A request to read an alert finds it on the second look, unless it was being deleted.
ReadIsDefined == \A q \in Asks : reply[q] = "undefined" => Range(Ask[q].ids) \subseteq torn

\* What requests are told is what cache and table hold, and what they were judged by.
RequestsKept == /\ RequestsTypeOK
                /\ SameAtRest /\ NothingIsLeft /\ MadeIsKept /\ OneChain
                /\ TextForSms /\ ReadIsDefined
=============================================================================
