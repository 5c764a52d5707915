----------------------------- MODULE MCRequests ------------------------------
(***************************************************************************)
(* Small instances for TLC of what HTTP requests do to alerts, of the      *)
(* limits of a plan, and of the structure of a market.  The parts share no *)
(* state: a behaviour lets one of them run, chosen at the start, and the   *)
(* others stay as they begin.  The sizes that are numbers are in           *)
(* Requests.cfg: two handlers and three requests out of ten, two refused   *)
(* writes and a restart; two notifications, or two requests about alerts,  *)
(* at once, on two days; seven candles in a window of six, which slides.   *)
(* With six in the window a high and a low both come to be, are swept and  *)
(* broken, come back to once they are, and the trend turns either way.     *)
(***************************************************************************)
EXTENDS AlertRequests, DeliveryQuota, Structure, TLC

VARIABLE part

\* The requests, and the alerts they ask for.
IdsMade == {"a0", "a1", "a2", "a3", "a4", "a5", "a6", "a7", "a8", "a9"}
TwoPairs == [a \in IdsMade |-> IF a \in {"a2", "a5", "a7", "a9"} THEN "p2" ELSE "p1"]
AskFor(kind, ids, after, dir, events, intervals) ==
    [kind |-> kind, ids |-> ids, after |-> after, sets |-> {}, text |-> FALSE, msg |-> FALSE,
     due |-> "future", dir |-> dir, events |-> events, intervals |-> intervals]
TenRequests ==
    "draw" :> AskFor("prev_day_level", <<"a1", "a2">>, "none", "both", {"sweep"}, {})
    @@ "chained" :> AskFor("prev_day_level", <<"a6", "a7">>, "a0", "both", {"sweep"}, {})
    @@ "price" :> AskFor("price", <<"a3">>, "a0", "above", {}, {})
    @@ "fvg" :> AskFor("fvg", <<"a4", "a5">>, "none", "any", {}, {"15m"})
    @@ "structure" :> AskFor("market_structure", <<"a8">>, "a4", "any", {"any"}, {"5m"})
    @@ "session" :> AskFor("structure_session", <<"a9">>, "none", "any", {"bos"}, {"5m", "1h"})
    @@ "toSms" :> [AskFor("update", <<"a0">>, "none", "any", {}, {}) EXCEPT !.sets = {"text"}, !.text = TRUE]
    @@ "noText" :> [AskFor("update", <<"a0">>, "none", "any", {}, {}) EXCEPT !.sets = {"msg"}]
    @@ "delete" :> AskFor("delete", <<"a0">>, "none", "any", {}, {})
    @@ "get" :> AskFor("get", <<"a0">>, "none", "any", {}, {})
Names == DOMAIN TenRequests

\* AlertStore: one batch of up to three alerts, one refused write, nothing fires.
VARIABLES mem, db, dbQueue, batch, expiring, http, past, fired, saved, edited, taken, ops,
          fails, storeCrashes, repeats
store == <<mem, db, dbQueue, batch, expiring, http, past, fired, saved, edited, taken, ops,
           fails, storeCrashes, repeats>>
Three == {"b1", "b2", "b3"}
Batch == INSTANCE AlertStore WITH
    told <- fired, used <- taken, crashes <- storeCrashes, Alerts <- Three, NoAlert <- "none",
    StartRows <- {[b \in Three |-> [status |-> "none", gate |-> FALSE, dep |-> "none", chained |-> FALSE]]},
    Repeating <- Three, Timed <- {}, Clients <- {"client"}, NoClient <- "evaluator",
    HttpOps <- {"commit"}, UpdateStatus <- {"active"}, MaxOps <- 1, MaxFail <- 1, MaxCrash <- 0, MaxRepeat <- 0

\* Candles of four shapes, which make highs and lows, break and sweep them.
Bar(high, low, close) == [high |-> high, low |-> low, close |-> close]
FourShapes == {Bar(2, 2, 2), Bar(3, 3, 3), Bar(4, 1, 1), Bar(4, 1, 4)}

\* What the proofs assume of the constants of the requests, and of the structure.
ASSUME RequestsAssumption == RequestsConstants
ASSUME StructureAssumption == StructureConstants

-----------------------------------------------------------------------------
Init == /\ part \in {"sends", "alerts", "requests", "batch", "structure"}
        /\ QuotaInit /\ RequestsInit /\ Batch!Init /\ StructureInit

\* Before the window is full a candle may be late and a warm-up come at any time; the market
\* fills it only if neither did, and then a warm-up ends the course.
StructureStep ==
    /\ StructureNext
    /\ market' # market /\ Len(market') >= Window => behind' + histories' = 0

\* Notifications and alerts touch each other in nothing but the plan.
Next ==
    \/ part = "sends" /\ (Notifications \/ PlanAndTime)
       /\ UNCHANGED <<part, requests, store, structure>>
    \/ part = "alerts" /\ (AlertChanges \/ PlanAndTime)
       /\ UNCHANGED <<part, requests, store, structure>>
    \/ part = "requests" /\ RequestsNext
       /\ UNCHANGED <<part, quota, store, structure>>
    \/ part = "batch" /\ Batch!Next
       /\ UNCHANGED <<part, quota, requests, structure>>
    \/ part = "structure" /\ StructureStep
       /\ UNCHANGED <<part, quota, requests, store>>

vars == <<part, quota, requests, store, structure>>
Spec == Init /\ [][Next]_vars

-----------------------------------------------------------------------------
(* The properties are the modules' own: RequestsKept, PlanKept and     *)
(* TrackKept, of whichever part, and this one of AlertStore.           *)

\* A batch is saved whole or not at all (commitCreatedAlerts).
AllOrNone == part = "batch" => Batch!AllOrNone
==============================================================================
