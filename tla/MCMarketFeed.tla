---------------------------- MODULE MCMarketFeed ----------------------------
(***************************************************************************)
(* Small instances for TLC of the parts that live on prices: the hand-over *)
(* of quotes, the alerts that are judged by closed candles, and the        *)
(* requests for trend bars.  They share no state: a behaviour lets one of  *)
(* them run, chosen at the start, and the others stay as they begin.  The  *)
(* sizes are in FeedLive.cfg: two pairs with two prices each, and a market *)
(* that opens or closes once; four candles, an hour and a session of       *)
(* three, a window and a gap of two, one refused write and one restart;    *)
(* four calls for two things.                                              *)
(***************************************************************************)
EXTENDS MarketFeed, CandleRules, TrendbarQueue, TLC

VARIABLE part

OneAndTwo == <<1, 2>>

\* Two requests, made twice each.
TwoAlike == "b1" :> "k1" @@ "b2" :> "k1" @@ "b3" :> "k2" @@ "b4" :> "k2"

\* What the proofs assume of the constants of the rules.
ASSUME RulesAssumption == RulesConstants

-----------------------------------------------------------------------------
PartInit == /\ part \in {"feed", "rules", "bars"}
            /\ Init /\ RulesInit /\ BarsInit
            \* What does not run begins in one way.
            /\ part # "rules" => kind = "candle2_closure"
            /\ part # "feed" => open /\ ready

PartNext == \/ part = "feed" /\ Next /\ UNCHANGED <<part, rules, trendbars>>
            \/ part = "rules" /\ RulesNext /\ UNCHANGED <<part, vars, trendbars>>
            \/ part = "bars" /\ BarsNext /\ UNCHANGED <<part, vars, rules>>

\* The fairness of the modules' FairSpecs, for the part that runs.
PartSpec == /\ PartInit /\ [][PartNext]_<<part, vars, rules, trendbars>>
            /\ WF_vars(part = "feed" /\ Evaluator)
            /\ \A s \in Sinks : WF_vars(part = "feed" /\ Sink(s))
            /\ WF_vars(part = "feed" /\ Tick)
            /\ \A c \in Calls : WF_trendbars(part = "bars" /\ RunAsk(c))
            /\ WF_trendbars(part = "bars" /\ \E id \in pending : Timeout(id))
            /\ WF_trendbars(part = "bars" /\ GapEnds)

-----------------------------------------------------------------------------
(* The properties are the modules' own.  They hold of what a part begins with, *)
(* so none says which part runs.                                               *)

=============================================================================
