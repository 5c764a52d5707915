----------------------------- MODULE MarketFeed -----------------------------
(***************************************************************************)
(* MarketHub and the hand-over of its quotes to price evaluation (main.cc).*)
(*                                                                         *)
(*   - the cTrader loop stores each spot in states_ and, while the market  *)
(*     is open, offers it to the quote sink;                               *)
(*   - the tick timer of the HTTP loop copies all prices into a snapshot   *)
(*     and offers that to the alert sink;                                  *)
(*   - both sinks put what they were given into pendingQuotes, under a     *)
(*     mutex, and then raise evalScheduled; the one who raised it queues   *)
(*     an evaluation on the loop "alert-eval";                             *)
(*   - an evaluation empties pendingQuotes batch by batch until there is   *)
(*     nothing left, lowers the flag, and looks once more.                 *)
(*                                                                         *)
(* The price of a pair is modelled by the number of the spot that brought  *)
(* it, so a larger number is a newer price; 0 is no price.  Candles, the   *)
(* broadcast to sockets and the metrics of a tick are left out.            *)
(***************************************************************************)
EXTENDS Naturals

CONSTANTS
    Pairs,       \* pairs the hub knows
    MaxPrice,    \* bound: spots per pair
    MaxTasks,    \* bound: evaluations queued at a time
    MaxToggles   \* bound: times the market or the connection changes state

ASSUME FeedAssumption ==
    /\ MaxPrice \in Nat
    /\ MaxTasks \in Nat \ {0}
    /\ MaxToggles \in Nat

Prices  == 0..MaxPrice
Nothing == [p \in Pairs |-> 0]
Sinks   == {"quote", "alert"}

VARIABLES
    price,          \* states_: the newest price of each pair
    open, ready,    \* isForexMarketOpen(), CTraderClient::isReady()
    offer,          \* what each sink was given and has not put down yet
    sinkAt,         \* where each sink is: "idle", "put", "schedule"
    pendingQuotes, evalScheduled,
    evalTasks,      \* evaluations queued on the evaluation loop
    evalAt,         \* where the running one is: "idle", "take", "eval", "clear", "check"
    batch,          \* what it has taken and not evaluated yet
    seen,           \* history: the price each pair was last evaluated with
    toggles

hub   == <<price, open, ready, toggles>>
sinks == <<offer, sinkAt>>
eval  == <<evalAt, batch, seen>>
vars  == <<hub, sinks, pendingQuotes, evalScheduled, evalTasks, eval>>

\* The abstract box this implements.
Box == INSTANCE QuoteBox WITH box <- pendingQuotes

\* Prices written over older ones, pair by pair.
Overlay(old, new) == Box!Overlay(old, new)

Init == /\ price = Nothing
        /\ open \in BOOLEAN /\ ready \in BOOLEAN
        /\ offer = [s \in Sinks |-> Nothing]
        /\ sinkAt = [s \in Sinks |-> "idle"]
        /\ pendingQuotes = Nothing
        /\ evalScheduled = FALSE
        /\ evalTasks = 0
        /\ evalAt = "idle"
        /\ batch = Nothing
        /\ seen = Nothing
        /\ toggles = 0

-----------------------------------------------------------------------------
(* MarketHub *)

Offer(s, quotes) == /\ sinkAt[s] = "idle"
                    /\ offer' = [offer EXCEPT ![s] = quotes]
                    /\ sinkAt' = [sinkAt EXCEPT ![s] = "put"]

\* onSpot, under mu_; spots come while the client is connected.
OnSpot(p) == /\ ready /\ sinkAt["quote"] = "idle"
             /\ price[p] < MaxPrice
             /\ price' = [price EXCEPT ![p] = @ + 1]
             /\ \/ open /\ Offer("quote", [Nothing EXCEPT ![p] = price'[p]])
                \/ ~open /\ UNCHANGED sinks
             /\ UNCHANGED <<open, ready, toggles, pendingQuotes, evalScheduled, evalTasks, eval>>

\* tick, with buildSnapshot under mu_.
Tick == /\ open /\ ready
        /\ Offer("alert", price)
        /\ UNCHANGED <<hub, pendingQuotes, evalScheduled, evalTasks, eval>>

\* The market opens or closes, the client connects or disconnects.
Toggle == /\ toggles < MaxToggles
          /\ toggles' = toggles + 1
          /\ \/ open' = ~open /\ UNCHANGED ready
             \/ ready' = ~ready /\ UNCHANGED open
          /\ UNCHANGED <<price, sinks, pendingQuotes, evalScheduled, evalTasks, eval>>

-----------------------------------------------------------------------------
(* The two sinks *)

\* pendingQuotes[pair] = quote, under pendingQuoteMu.
Put(s) == /\ sinkAt[s] = "put"
          /\ pendingQuotes' = Overlay(pendingQuotes, offer[s])
          /\ offer' = [offer EXCEPT ![s] = Nothing]
          /\ sinkAt' = [sinkAt EXCEPT ![s] = "schedule"]
          /\ UNCHANGED <<hub, evalScheduled, evalTasks, eval>>

\* schedulePriceEval: evalScheduled.exchange(true), queueInLoop if it was down.
Schedule(s) == /\ sinkAt[s] = "schedule"
               /\ evalTasks < MaxTasks
               /\ sinkAt' = [sinkAt EXCEPT ![s] = "idle"]
               /\ evalScheduled' = TRUE
               /\ evalTasks' = IF evalScheduled THEN evalTasks ELSE evalTasks + 1
               /\ UNCHANGED <<hub, offer, pendingQuotes, eval>>

-----------------------------------------------------------------------------
(* The evaluation loop *)

StartEvalTwice ==                                     \* mutant: runs without a task
    /\ evalAt = "idle"
    /\ evalTasks' = evalTasks - 1
    /\ evalAt' = "take"
    /\ UNCHANGED <<hub, sinks, pendingQuotes, evalScheduled, batch, seen>>
StartEval ==
    /\ evalAt = "idle" /\ evalTasks > 0
    /\ evalTasks' = evalTasks - 1
    /\ evalAt' = "take"
    /\ UNCHANGED <<hub, sinks, pendingQuotes, evalScheduled, batch, seen>>

\* batch.swap(pendingQuotes), under pendingQuoteMu.
TakeCopy ==                                           \* mutant: a copy, not a swap
    /\ evalAt = "take"
    /\ batch' = pendingQuotes
    /\ pendingQuotes' = pendingQuotes
    /\ evalAt' = IF pendingQuotes = Nothing THEN "clear" ELSE "eval"
    /\ UNCHANGED <<hub, sinks, evalScheduled, evalTasks, seen>>
Take ==
    /\ evalAt = "take"
    /\ batch' = pendingQuotes
    /\ pendingQuotes' = Nothing
    /\ evalAt' = IF pendingQuotes = Nothing THEN "clear" ELSE "eval"
    /\ UNCHANGED <<hub, sinks, evalScheduled, evalTasks, seen>>

\* checkPriceAlerts(pairs)
Evaluate == /\ evalAt = "eval"
            /\ seen' = Overlay(seen, batch)
            /\ batch' = Nothing
            /\ evalAt' = "take"
            /\ UNCHANGED <<hub, sinks, pendingQuotes, evalScheduled, evalTasks>>

\* evalScheduled.store(false)
ClearNot ==                                           \* mutant: the flag stays up
    /\ evalAt = "clear"
    /\ evalAt' = "check"
    /\ UNCHANGED <<hub, sinks, pendingQuotes, evalScheduled, evalTasks, batch, seen>>
Clear ==
    /\ evalAt = "clear"
    /\ evalScheduled' = FALSE
    /\ evalAt' = "check"
    /\ UNCHANGED <<hub, sinks, pendingQuotes, evalTasks, batch, seen>>

\* Under pendingQuoteMu: something was put down in between.
CheckNot ==                                           \* mutant: returns without looking
    /\ evalAt = "check"
    /\ evalAt' = "idle"
    /\ UNCHANGED <<hub, sinks, pendingQuotes, evalScheduled, evalTasks, batch, seen>>
Check ==
    /\ evalAt = "check"
    /\ \/ /\ pendingQuotes = Nothing
          /\ evalAt' = "idle"
          /\ UNCHANGED evalScheduled
       \/ /\ pendingQuotes # Nothing
          /\ evalScheduled' = TRUE
          /\ evalAt' = "take"
    /\ UNCHANGED <<hub, sinks, pendingQuotes, evalTasks, batch, seen>>

-----------------------------------------------------------------------------
Sink(s) == Put(s) \/ Schedule(s)

Evaluator == StartEval \/ Take \/ Evaluate \/ Clear \/ Check

Next == \/ \E p \in Pairs : OnSpot(p)
        \/ Tick
        \/ Toggle
        \/ \E s \in Sinks : Sink(s)
        \/ Evaluator

Spec == Init /\ [][Next]_vars

\* The three loops run what they have to run.  Nothing obliges a spot to come.
LoopSpec == Spec /\ WF_vars(Evaluator) /\ \A s \in Sinks : WF_vars(Sink(s))

\* Besides, the timer of the tick fires again and again.
FairSpec == LoopSpec /\ WF_vars(Tick)

-----------------------------------------------------------------------------
(* Properties *)

\* Every variable has its type.
TypeOK == /\ price \in [Pairs -> Prices]
          /\ open \in BOOLEAN /\ ready \in BOOLEAN
          /\ offer \in [Sinks -> [Pairs -> Prices]]
          /\ sinkAt \in [Sinks -> {"idle", "put", "schedule"}]
          /\ pendingQuotes \in [Pairs -> Prices]
          /\ evalScheduled \in BOOLEAN
          /\ evalTasks \in Nat
          /\ evalAt \in {"idle", "take", "eval", "clear", "check"}
          /\ batch \in [Pairs -> Prices]
          /\ seen \in [Pairs -> Prices]
          /\ toggles \in Nat

\* No wakeup is lost: a quote in pendingQuotes has an evaluation that runs or is
\* queued, or a sink that is about to raise the flag and will queue one.
PendingIsServed ==
    pendingQuotes # Nothing =>
        \/ evalTasks > 0
        \/ evalAt # "idle"
        \/ \E s \in Sinks : sinkAt[s] = "schedule"

\* The hand-over is the box: quotes are evaluated once, in whole batches, and none
\* stays in it for ever.
BoxSpec == Box!FairSpec

\* The newest price of a pair is evaluated, or a newer one comes, unless the market
\* closes or the connection is lost before that.
NewestIsSeen ==
    \A p \in Pairs, v \in 1..MaxPrice :
        (open /\ ready /\ price[p] = v) ~> (seen[p] = v \/ price[p] # v \/ ~open \/ ~ready)

=============================================================================
