------------------------------ MODULE MCStreams ------------------------------
(***************************************************************************)
(* Small instances for TLC of what runs on timers and connections: the     *)
(* session with the broker, the observers, an account's day and its        *)
(* bootstrap, the candles that are followed.  The parts share no state: a  *)
(* behaviour lets one of them run, chosen at the start, and the others     *)
(* stay as they begin.                                                     *)
(*                                                                         *)
(* The sizes that are not functions are in Streams.cfg: one pair and a     *)
(* breaker that opens at the second attempt; three connections; a trial of *)
(* a day in three days; three bars, the market shut during the second.     *)
(***************************************************************************)
EXTENDS CTraderSession, WsObserve, Account, CandleMonitor, TLC

\* All connections are of one user from one address, on two I/O loops.
OneUser == [c \in Conns |-> "u1"]
OneAddress == [c \in Conns |-> "i1"]
TwoLoops == "c1" :> "l1" @@ "c2" :> "l2" @@ "c3" :> "l1"
HisChanges == [h \in Changes |-> "u1"]

\* What the proofs about the parts assume of their constants.
ASSUME StreamsAssumption == WsConstants /\ AccountConstants /\ MonitorConstants

VARIABLE part

-----------------------------------------------------------------------------
Init == /\ part \in {"observers", "doors", "session", "account", "monitor"}
        /\ WsInit /\ SessionInit /\ AccountInit /\ MonitorInit
        \* What does not run begins in one way.
        /\ part # "account" => ~login.row
        /\ part # "session" => tokens = "env"

\* Two observers with ticks and alerts, or three connections at the limit, their handlers only.
Observers == WsNext /\ socket'["c3"] = "new"
Doors == Handlers

Next ==
    \/ part = "observers" /\ Observers
       /\ UNCHANGED <<part, session, account, monitor>>
    \/ part = "doors" /\ Doors
       /\ UNCHANGED <<part, session, account, monitor>>
    \/ part = "session" /\ SessionNext
       /\ UNCHANGED <<part, ws, account, monitor>>
    \/ part = "account" /\ AccountNext
       /\ UNCHANGED <<part, ws, session, monitor>>
    \/ part = "monitor" /\ MonitorNext
       /\ UNCHANGED <<part, ws, session, account>>

vars == <<part, ws, session, account, monitor>>

\* The fairness that the modules state, while their part runs.
Fairness ==
    /\ WF_<<listed, snap, reading, settle>>(part = "observers" /\ Loop)
    /\ \A c \in {"c1", "c2"} : WF_socket(part = "observers" /\ HandleClose(c))
    /\ \A h \in Changes : WF_change(part = "observers" /\ EndWrite(h))
    /\ WF_<<refresh, posted>>(part = "session" /\ (Refreshes \/ Runs))
    /\ WF_me(part = "account" /\ (TimerFires \/ TimerReplies))
    /\ WF_<<track, busy>>(part = "monitor" /\ Flushes)
    /\ WF_now(part = "monitor" /\ Ticks) /\ WF_isReady(part = "monitor" /\ LinkUp)
    /\ \A l \in {"eval", "link"} : WF_busy(part = "monitor" /\ Judges(l))
    /\ \A l \in {"worker", "link"} : WF_sync(part = "monitor" /\ GoesOn(l))
    /\ WF_sync(part = "monitor" /\ Decides("worker")) /\ WF_warm(part = "monitor" /\ Answered)
Spec == Init /\ [][Next]_vars /\ Fairness

-----------------------------------------------------------------------------
(* The invariants are the modules' own: ObserversKept, SessionKept, AccountKept and         *)
(* MonitorKept, of whichever part; and so is WatchedInTheEnd.  The others are these.        *)

\* An observer is shown the alerts as they are in the end, a silent one is dropped
\* (broadcastToAll).
ObserversAreServed == part = "observers" => ObserversServed
\* A trial is given once, a bootstrap is answered even if the database hangs (completeTour, me).
AccountIsServed == TrialOnce /\ (part = "account" => MeAnswered)
\* Bars are taken in order, each once; what was followed is judged in the end, and the key is
\* subscribed in the end exactly when it is needed (EmitOpen, flushClosedBars,
\* syncSubscriptions).
MonitorIsServed == /\ TakenOnce
                   /\ part = "monitor" => BarsAreJudged /\ SubscribedAsNeeded
==============================================================================
