------------------------- MODULE CTraderSessionProofs -------------------------
(***************************************************************************)
(* The session of CTraderClient is never given up, takes for subscribed    *)
(* only what is streamed, and heeds its circuit breaker, for any pairs,    *)
(* threshold and bounds.                                                   *)
(*                                                                         *)
(* NeverGivenUp excepts a login that was kept back by a pause or refused   *)
(* for good: there the code does give up.  For the rest it relies on       *)
(* reconnectScheduled_: scheduleReconnect does nothing while it is raised, *)
(* so a raised flag must stand for a timer.                                *)
(* WatchedAreSubscribed relies on what is true before a connection comes   *)
(* up: connect does not clear subscribedSpotIds_, the callback of its      *)
(* predecessor does, so they are empty once that has called back.          *)
(***************************************************************************)
EXTENDS CTraderSession, SequenceTheorems, TLAPS

\* A raised flag has its timer, a timer its flag.
FlagIsTimer == flag <=> timer # "none"

\* Only a session on a connection that receives is ready.
ReadyReceives == ready => tcp \in {"up", "half"}

\* What was subscribed is forgotten before the next connection is up.
StartsEmpty == tcp \in {"none", "connecting"} /\ ~dying => subscribed = {}

\* The connect the breaker lets through is the one that was ahead as it opened.
OneIsAhead == timer = "soon" \/ ~breaker => tries = 0

IInv == /\ SessionTypeOK /\ FlagIsTimer /\ ReadyReceives /\ StartsEmpty
        /\ NeverGivenUp /\ WatchedAreSubscribed /\ BreakerHolds /\ OneIsAhead

\* The client starts with a reconnect ahead and nothing else.
LEMMA InitIInv == ASSUME SessionInit PROVE IInv
<1>1. answers \in Seq(Said)
      /\ posted \in Seq(SUBSET Pairs)
  BY EmptySeq DEF SessionInit
<1>2. http \in [Purposes -> 0..MaxHttp]
  BY SessionAssumption DEF SessionInit
<1>3. attempts \in 0..Threshold /\ unrest \in 0..MaxUnrest /\ tries \in Nat /\ failures \in 0..3
  BY SessionAssumption DEF SessionInit
<1>4. SessionTypeOK
  BY <1>1, <1>2, <1>3 DEF SessionInit, SessionTypeOK, States
<1>5. NeverGivenUp /\ FlagIsTimer /\ ReadyReceives /\ StartsEmpty /\ WatchedAreSubscribed
  BY DEF SessionInit, FlagIsTimer, ReadyReceives, StartsEmpty, NeverGivenUp, WatchedAreSubscribed
<1>6. BreakerHolds /\ OneIsAhead
  BY DEF SessionInit, BreakerHolds, OneIsAhead
<1> QED
  BY <1>4, <1>5, <1>6 DEF IInv

-----------------------------------------------------------------------------
(* The back-off *)

\* What scheduleReconnect leaves: a timer, and an open breaker respected.
BackoffOK == /\ flag \in BOOLEAN /\ timer \in {"none", "soon", "cooldown"}
             /\ breaker \in BOOLEAN /\ attempts \in 0..Threshold /\ tries \in Nat
             /\ FlagIsTimer /\ BreakerHolds /\ OneIsAhead

\* Planning a reconnect with the breaker open or not.
LEMMA PlanKeeps ==
    ASSUME IInv, NEW open \in BOOLEAN, NEW tried \in Nat,
           tried <= 1, ~open => tried = 0, Plan(open, tried)
    PROVE  BackoffOK' /\ timer' # "none"
<1>1. CASE open
  BY <1>1 DEF Plan, IInv, SessionTypeOK, BackoffOK, FlagIsTimer, BreakerHolds, OneIsAhead
<1>2. CASE ~open
  <2> PICK n \in {1, attempts + 1} :
         /\ breaker' = (n >= Threshold)
         /\ tries' = IF n >= Threshold THEN 0 ELSE tried
         /\ attempts' = IF n >= Threshold THEN 0 ELSE n
    BY <1>2 DEF Plan
  <2>1. n \in Nat /\ attempts' \in 0..Threshold
    BY SessionAssumption DEF IInv, SessionTypeOK
  <2>2. tries' = 0 /\ breaker' \in BOOLEAN
    BY <1>2
  <2> QED
    BY <1>2, <2>1, <2>2 DEF Plan, BackoffOK, FlagIsTimer, BreakerHolds, OneIsAhead
<1> QED
  BY <1>1, <1>2

\* scheduleReconnect, with a reconnect scheduled already or not.
LEMMA ScheduleKeeps ==
    ASSUME IInv, ScheduleReconnect
    PROVE  BackoffOK' /\ timer' # "none"
<1>1. CASE flag
  BY <1>1 DEF ScheduleReconnect, backoff, IInv, SessionTypeOK, BackoffOK, FlagIsTimer,
              BreakerHolds, OneIsAhead
<1>2. CASE ~flag
  <2>1. breaker \in BOOLEAN /\ tries \in Nat /\ tries <= 1 /\ (~breaker => tries = 0)
    BY DEF IInv, SessionTypeOK, BreakerHolds, OneIsAhead
  <2> QED
    BY <1>2, <2>1, PlanKeeps DEF ScheduleReconnect
<1> QED
  BY <1>1, <1>2 DEF IInv, SessionTypeOK

\* A step that does not schedule keeps what scheduleReconnect leaves.
LEMMA BackoffKept ==
    ASSUME IInv, UNCHANGED backoff
    PROVE  BackoffOK'
BY DEF backoff, IInv, SessionTypeOK, BackoffOK, FlagIsTimer, BreakerHolds, OneIsAhead

\* Every step leaves the back-off in order.
LEMMA BackoffStep ==
    ASSUME IInv, [SessionNext]_session
    PROVE  BackoffOK'
<1> USE DEF IInv
<1>1. ASSUME ScheduleReconnect PROVE BackoffOK'
  BY <1>1, ScheduleKeeps
<1>2. ASSUME UNCHANGED backoff PROVE BackoffOK'
  BY <1>2, BackoffKept
<1>3. Open \in BOOLEAN /\ Tried \in Nat /\ (timer # "none" => Tried <= 1) /\ (~Open => Tried = 0)
  BY DEF SessionTypeOK, Open, Tried, OneIsAhead
<1>4. CASE Connect
  BY <1>3, <1>4 DEF Connect, Leave, SessionTypeOK, BackoffOK, FlagIsTimer, BreakerHolds,
                    OneIsAhead, Open
<1>5. CASE FailToResolve
  BY <1>3, <1>5, PlanKeeps DEF FailToResolve, Leave
<1>6. CASE FailToConnect \/ Closed \/ CallBack \/ Invalidated
  BY <1>1, <1>6 DEF FailToConnect, Closed, CallBack, Lost, Invalidated, ForceDisconnect
<1>7. CASE ReceiveTokenError \/ TokenExpires
  BY <1>1, <1>2, <1>7 DEF ReceiveTokenError, TokenExpires, TokenError, ForceDisconnect
<1>8. CASE FailError
  BY <1>1, <1>2, <1>8 DEF FailError, ForceDisconnect
<1>9. CASE ReceiveSymbols
  <2>1. UNCHANGED <<flag, timer>> /\ breaker' = FALSE /\ tries' = 0 /\ attempts' = 0
    BY <1>9 DEF ReceiveSymbols
  <2>2. FlagIsTimer' /\ BreakerHolds' /\ OneIsAhead'
    BY <2>1 DEF FlagIsTimer, BreakerHolds, OneIsAhead
  <2>3. attempts' \in 0..Threshold /\ tries' \in Nat
    BY <2>1, SessionAssumption
  <2> QED
    BY <2>1, <2>2, <2>3 DEF SessionTypeOK, BackoffOK
<1>10. CASE Cooldown
  <2>1. UNCHANGED <<flag, timer, attempts>> /\ breaker' = FALSE /\ tries' = 0
    BY <1>10 DEF Cooldown
  <2>2. FlagIsTimer' /\ BreakerHolds' /\ OneIsAhead'
    BY <2>1 DEF FlagIsTimer, BreakerHolds, OneIsAhead
  <2> QED
    BY <2>1, <2>2 DEF SessionTypeOK, BackoffOK
<1>11. CASE Connected \/ ReceiveApp \/ ReceiveRefreshed \/ ReceiveAccount \/ Limited \/ PauseEnds
            \/ (\E a \in Errors : ReceiveError(a))
  BY <1>2, <1>11 DEF ReceiveError, Connected, ReceiveApp, ReceiveRefreshed, ReceiveAccount, Limited, PauseEnds
<1>12. CASE \E p \in Purposes : HttpOk(p) \/ FailLogin(p)
  BY <1>2, <1>12 DEF HttpOk, FailLogin
<1>13. CASE FailErrorEnv \/ RefreshNow \/ RefreshSpots \/ (\E s \in SUBSET Pairs : Wish(s))
  BY <1>2, <1>13 DEF FailErrorEnv, RefreshNow, RefreshSpots, Wish
<1>14. CASE UNCHANGED session
  BY <1>2, <1>14 DEF session
<1> QED
  BY <1>4, <1>5, <1>6, <1>7, <1>8, <1>9, <1>10, <1>11, <1>12, <1>13, <1>14 DEF SessionNext

-----------------------------------------------------------------------------
(* Types *)

\* Requests that are sent add an answer that may be.
LEMMA SendTypes ==
    ASSUME NEW known \in Seq(Said), NEW said \in SUBSET Said, Send(known, said)
    PROVE  answers' \in Seq(Said)
<1>1. CASE tcp = "up"
  <2> PICK a \in said : answers' = Append(known, a)
    BY <1>1 DEF Send
  <2> QED
    BY AppendProperties
<1> QED
  BY <1>1 DEF Send

\* The tail of the answers are answers.
LEMMA TailTypes ==
    ASSUME SessionTypeOK, answers # <<>>
    PROVE  Tail(answers) \in Seq(Said)
BY HeadTailProperties DEF SessionTypeOK

\* Logging the account in, paused or not.
LEMMA AccountAuthTypes ==
    ASSUME SessionTypeOK, NEW known \in Seq(Said), SendAccountAuth(known)
    PROVE  skipped' \in BOOLEAN /\ answers' \in Seq(Said)
<1>1. {"account"} \cup Errors \in SUBSET Said
  BY DEF Said
<1> QED
  BY <1>1, SendTypes DEF SessionTypeOK, SendAccountAuth

\* Every step keeps the types of the connection.
LinkTypes == /\ state \in States /\ ready \in BOOLEAN /\ dying \in BOOLEAN /\ skipped \in BOOLEAN
             /\ tcp \in {"none", "connecting", "up", "half"} /\ answers \in Seq(Said)
             /\ refused \subseteq {"login", "spots"}

LEMMA LinkTypesStep ==
    ASSUME IInv, [SessionNext]_session
    PROVE  LinkTypes'
<1> USE DEF IInv, SessionTypeOK, LinkTypes, States, Calm, Trouble
<1>0. <<>> \in Seq(Said) /\ answers \in Seq(Said) /\ (answers # <<>> => Tail(answers) \in Seq(Said))
  BY EmptySeq, TailTypes
<1>1. CASE Connect \/ FailToResolve
  <2>1. Leave /\ tcp' \in {"none", "connecting"}
    BY <1>1 DEF Connect, FailToResolve
  <2>2. dying' \in BOOLEAN
    BY <2>1 DEF Leave
  <2> QED
    BY <1>0, <2>1, <2>2 DEF Leave
<1>2. CASE FailToConnect
  BY <1>0, <1>2 DEF FailToConnect
<1>3. CASE Connected
  <2>1. \A a \in {"app"} \cup Errors : <<a>> \in Seq(Said)
    BY DEF Said
  <2> QED
    BY <2>1, <1>3 DEF Connected
<1>4. CASE Closed \/ CallBack
  BY <1>0, <1>4 DEF Closed, CallBack, Lost
<1>5. CASE ReceiveApp
  BY <1>0, <1>5 DEF ReceiveApp, Receive
<1>6. CASE ReceiveRefreshed
  BY <1>0, <1>6, AccountAuthTypes DEF ReceiveRefreshed, Receive
<1>7. CASE ReceiveAccount
  <2>1. answers' \in Seq(Said)
    <3>1. {"symbols"} \cup Errors \in SUBSET Said
      BY DEF Said
    <3> QED
      BY <1>0, <3>1, <1>7, SendTypes DEF ReceiveAccount, Receive
  <2> QED
    BY <2>1, <1>7 DEF ReceiveAccount
<1>8. CASE ReceiveSymbols
  BY <1>0, <1>8 DEF ReceiveSymbols, Receive, Subscribe, Asked, Denied
<1>9. CASE ReceiveTokenError \/ TokenExpires
  BY <1>0, <1>9 DEF ReceiveTokenError, Receive, TokenExpires, TokenError, ForceDisconnect
<1>10. CASE Invalidated
  BY <1>0, <1>10 DEF Invalidated, ForceDisconnect
<1>11. CASE Limited \/ PauseEnds \/ Cooldown
  BY <1>0, <1>11 DEF Limited, PauseEnds, Cooldown, link
<1>12. CASE \E p \in Purposes : HttpOk(p)
  BY <1>0, <1>12, AccountAuthTypes DEF HttpOk
<1>13. CASE \E p \in Purposes : FailLogin(p)
  <2> PICK p \in Purposes : FailLogin(p)
    BY <1>13
  <2>1. answers' \in Seq(Said)
    <3>1. {"refreshed"} \cup Errors \in SUBSET Said
      BY DEF Said
    <3> QED
      BY <1>0, <3>1, SendTypes DEF FailLogin
  <2> QED
    BY <2>1 DEF FailLogin
<1>14. CASE FailError
  BY <1>0, <1>14 DEF FailError, ForceDisconnect, link
<1>15. CASE FailErrorEnv
  BY <1>0, <1>15, AccountAuthTypes DEF FailErrorEnv
<1>16. CASE RefreshNow \/ (\E s \in SUBSET Pairs : Wish(s))
  BY <1>0, <1>16 DEF RefreshNow, Wish, link
<1>17. CASE RefreshSpots
  BY <1>0, <1>17 DEF RefreshSpots, Subscribe, Asked, Denied
<1>18. CASE \E a \in Errors : ReceiveError(a)
  BY <1>0, <1>18 DEF ReceiveError, Receive
<1>19. CASE UNCHANGED session
  BY <1>0, <1>19 DEF session, link
<1> QED
  BY <1>1, <1>2, <1>3, <1>4, <1>5, <1>6, <1>7, <1>8, <1>9, <1>10, <1>11, <1>12, <1>13, <1>14, <1>15, <1>16, <1>17, <1>18, <1>19 DEF SessionNext

\* What the environment's tokens are.
LEMMA FallBackTypes ==
    ASSUME FallBack
    PROVE  fellBack' \in BOOLEAN /\ tokens' \in {"stored", "env", "new"} /\ failures' \in 0..3
BY DEF FallBack

\* Every step keeps the types of what logs in.
LoginTypes == /\ http \in [Purposes -> 0..MaxHttp] /\ tokens \in {"stored", "env", "new"}
              /\ fellBack \in BOOLEAN /\ failures \in 0..3 /\ paused \in BOOLEAN

LEMMA LoginTypesStep ==
    ASSUME IInv, [SessionNext]_session
    PROVE  LoginTypes'
<1> USE SessionAssumption DEF IInv, SessionTypeOK, LoginTypes, Calm, Trouble
<1>0. ASSUME NEW h \in [Purposes -> 0..MaxHttp], NEW p \in Purposes
      PROVE  /\ h[p] < MaxHttp => [h EXCEPT ![p] = @ + 1] \in [Purposes -> 0..MaxHttp]
             /\ h[p] > 0 => [h EXCEPT ![p] = @ - 1] \in [Purposes -> 0..MaxHttp]
  OBVIOUS
<1>1. CASE Connect \/ FailToResolve \/ FailToConnect \/ Connected
  BY <1>1 DEF Connect, FailToResolve, FailToConnect, Connected, credentials
<1>2. CASE Closed \/ CallBack \/ Invalidated
  BY <1>2 DEF Closed, CallBack, Lost, Invalidated, credentials
<1>3. CASE ReceiveApp
  BY <1>0, <1>3 DEF ReceiveApp, Refresh, Purposes
<1>4. CASE ReceiveRefreshed
  BY <1>4 DEF ReceiveRefreshed
<1>5. CASE ReceiveAccount \/ ReceiveSymbols
  BY <1>5 DEF ReceiveAccount, ReceiveSymbols, credentials
<1>6. CASE ReceiveTokenError \/ TokenExpires
  <2> PICK known : TokenError(known)
    BY <1>6 DEF ReceiveTokenError, TokenExpires
  <2>1. CASE failures < 2 /\ http["error"] < MaxHttp /\ http' = Refresh("error", http)
             /\ failures' = failures + 1
    BY <1>0, <2>1 DEF TokenError, Refresh, Purposes
  <2>2. CASE UNCHANGED http /\ (FallBack \/ (failures' = 3 /\ UNCHANGED <<tokens, fellBack>>))
    BY <2>2, FallBackTypes DEF TokenError, wishes
  <2> QED
    BY <2>1, <2>2 DEF TokenError
<1>7. CASE Limited \/ PauseEnds \/ Cooldown \/ (\E a \in Errors : ReceiveError(a))
  BY <1>7 DEF Limited, PauseEnds, Cooldown, ReceiveError, credentials
<1>8. CASE \E p \in Purposes : HttpOk(p)
  BY <1>0, <1>8 DEF HttpOk
<1>9. CASE \E p \in Purposes : FailLogin(p)
  <2> PICK p \in Purposes : FailLogin(p)
    BY <1>9
  <2> DEFINE h == [http EXCEPT ![p] = @ - 1]
  <2>1. h \in [Purposes -> 0..MaxHttp]
    BY <1>0 DEF FailLogin
  <2>2. CASE p = "login" /\ MayFallBack
    <3>1. h["loginEnv"] = http["loginEnv"]
      BY <2>2 DEF Purposes
    <3>2. http' = Refresh("loginEnv", h) /\ http["loginEnv"] < MaxHttp /\ FallBack
      BY <2>2 DEF FailLogin
    <3>3. http' \in [Purposes -> 0..MaxHttp]
      BY <1>0, <2>1, <3>1, <3>2 DEF Refresh, Purposes
    <3> QED
      BY <3>2, <3>3, FallBackTypes DEF FailLogin, wishes
  <2>3. CASE ~(p = "login" /\ MayFallBack)
    BY <2>1, <2>3 DEF FailLogin
  <2> QED
    BY <2>2, <2>3
<1>10. CASE FailError
  <2> DEFINE h == [http EXCEPT !["error"] = @ - 1]
  <2>1. h \in [Purposes -> 0..MaxHttp]
    BY <1>0, <1>10 DEF FailError, Purposes
  <2>2. CASE MayFallBack
    <3>1. h["errorEnv"] = http["errorEnv"]
      BY DEF Purposes
    <3>2. http' = Refresh("errorEnv", h) /\ http["errorEnv"] < MaxHttp /\ FallBack
      BY <2>2, <1>10 DEF FailError
    <3>3. http' \in [Purposes -> 0..MaxHttp]
      BY <1>0, <2>1, <3>1, <3>2 DEF Refresh, Purposes
    <3> QED
      BY <3>2, <3>3, <1>10, FallBackTypes DEF FailError, wishes
  <2>3. CASE ~MayFallBack
    BY <2>1, <2>3, <1>10 DEF FailError
  <2> QED
    BY <2>2, <2>3
<1>11. CASE FailErrorEnv
  BY <1>0, <1>11 DEF FailErrorEnv, Purposes
<1>12. CASE RefreshNow \/ RefreshSpots \/ (\E s \in SUBSET Pairs : Wish(s))
  BY <1>12 DEF RefreshNow, RefreshSpots, Wish, credentials
<1>13. CASE UNCHANGED session
  BY <1>13 DEF session, credentials
<1> QED
  BY <1>1, <1>2, <1>3, <1>4, <1>5, <1>6, <1>7, <1>8, <1>9, <1>10, <1>11, <1>12, <1>13 DEF SessionNext

\* Every step keeps the types of the spots and of the wishes.
SpotTypes == /\ streamed \subseteq Pairs /\ subscribed \subseteq Pairs /\ pending \subseteq Pairs
             /\ wanted \subseteq Pairs /\ refresh \in BOOLEAN
             /\ posted \in Seq(SUBSET Pairs) /\ unrest \in 0..MaxUnrest

LEMMA SpotTypesStep ==
    ASSUME IInv, [SessionNext]_session
    PROVE  SpotTypes'
<1> USE SessionAssumption DEF IInv, SessionTypeOK, SpotTypes, Calm, Trouble, spots, wishes
<1>1. CASE Connect \/ FailToResolve
  BY <1>1 DEF Connect, FailToResolve, Leave
<1>2. CASE FailToConnect \/ Connected
  BY <1>2 DEF FailToConnect, Connected
<1>3. CASE Closed \/ CallBack
  BY <1>3 DEF Closed, CallBack, Lost, Emptied
<1>4. CASE ReceiveApp \/ ReceiveRefreshed \/ ReceiveAccount
  BY <1>4 DEF ReceiveApp, ReceiveRefreshed, ReceiveAccount
<1>5. CASE ReceiveSymbols
  BY <1>5 DEF ReceiveSymbols, Subscribe, Asked, Denied, Asks
<1>6. CASE ReceiveTokenError \/ TokenExpires \/ Invalidated
  BY <1>6 DEF ReceiveTokenError, TokenExpires, TokenError, Invalidated, ForceDisconnect
<1>7. CASE Limited \/ PauseEnds \/ Cooldown \/ (\E a \in Errors : ReceiveError(a))
  BY <1>7 DEF Limited, PauseEnds, Cooldown, ReceiveError, link
<1>8. CASE \E p \in Purposes : HttpOk(p) \/ FailLogin(p)
  BY <1>8 DEF HttpOk, FailLogin
<1>9. CASE FailError
  BY <1>9 DEF FailError, ForceDisconnect, link
<1>10. CASE FailErrorEnv
  BY <1>10 DEF FailErrorEnv
<1>11. CASE \E s \in SUBSET Pairs : Wish(s)
  BY <1>11 DEF Wish, link
<1>12. CASE RefreshNow
  <2>1. posted' \in Seq(SUBSET Pairs)
    BY <1>12, AppendProperties DEF RefreshNow
  <2> QED
    BY <2>1, <1>12 DEF RefreshNow, link
<1>13. CASE RefreshSpots
  <2>1. posted' \in Seq(SUBSET Pairs) /\ Head(posted) \in SUBSET Pairs
    BY <1>13, HeadTailProperties DEF RefreshSpots
  <2> QED
    BY <2>1, <1>13 DEF RefreshSpots, Subscribe, Asked, Denied
<1>14. CASE UNCHANGED session
  BY <1>14 DEF session, link
<1> QED
  BY <1>1, <1>2, <1>3, <1>4, <1>5, <1>6, <1>7, <1>8, <1>9, <1>10, <1>11, <1>12, <1>13, <1>14 DEF SessionNext

\* So every step keeps all types.
LEMMA TypesStep ==
    ASSUME IInv, [SessionNext]_session
    PROVE  SessionTypeOK'
BY BackoffStep, LinkTypesStep, LoginTypesStep, SpotTypesStep
   DEF BackoffOK, LinkTypes, LoginTypes, SpotTypes, SessionTypeOK
-----------------------------------------------------------------------------
(* Spots *)

\* What is subscribed for the planner's wish is streamed, unless it was skipped or refused.
LEMMA SubscribeStreams ==
    ASSUME NEW ids, NEW less, NEW all, all \subseteq (subscribed \ less) \cup ids,
           tcp = "up", WatchedAreSubscribed,
           Subscribe(ids, less), ~skipped', "spots" \notin refused'
    PROVE  all \subseteq streamed'
<1>1. Asked(ids, less)
  BY DEF Subscribe, Denied
<1>2. ~skipped /\ "spots" \notin refused /\ (~paused \/ ids = {})
  BY <1>1 DEF Asked
<1> QED
  BY <1>1, <1>2 DEF Asked, WatchedAreSubscribed

\* A session that is dropped or lost has nothing subscribed, and is not ready.
LEMMA DroppedIsEmpty ==
    ASSUME subscribed' = {}, ready' = FALSE
    PROVE  ReadyReceives' /\ StartsEmpty' /\ WatchedAreSubscribed'
BY DEF ReadyReceives, StartsEmpty, WatchedAreSubscribed

\* A step that leaves the connection and its spots alone.
SpotsOK == ReadyReceives /\ StartsEmpty /\ WatchedAreSubscribed
LEMMA SpotsKept ==
    ASSUME IInv, UNCHANGED <<ready, tcp, dying, streamed, subscribed>>, skipped => skipped', refused \subseteq refused'
    PROVE  SpotsOK'
BY DEF IInv, SpotsOK, ReadyReceives, StartsEmpty, WatchedAreSubscribed

\* Every step keeps what is subscribed in line with what is streamed.
LEMMA SpotsStep ==
    ASSUME IInv, [SessionNext]_session
    PROVE  SpotsOK'
<1> USE DEF spots
<1>1. CASE Connect \/ FailToResolve
  <2>1. /\ ~dying /\ ready' = FALSE /\ UNCHANGED subscribed
        /\ dying' = (tcp \in {"up", "half"}) /\ tcp' \in {"none", "connecting"}
    BY <1>1 DEF Connect, FailToResolve, Leave
  <2>2. tcp \in {"none", "connecting", "up", "half"}
    BY DEF IInv, SessionTypeOK
  <2> QED
    BY <2>1, <2>2 DEF IInv, SpotsOK, ReadyReceives, StartsEmpty, WatchedAreSubscribed
<1>2. CASE FailToConnect
  BY <1>2 DEF FailToConnect, IInv, SpotsOK, ReadyReceives, StartsEmpty, WatchedAreSubscribed
<1>3. CASE Connected
  BY <1>3 DEF Connected, IInv, SpotsOK, ReadyReceives, StartsEmpty, WatchedAreSubscribed
<1>4. CASE Closed \/ CallBack \/ Invalidated
  BY <1>4, DroppedIsEmpty DEF Closed, CallBack, Lost, Emptied, Invalidated, ForceDisconnect, SpotsOK
<1>5. CASE ReceiveSymbols
  <2>1. tcp \in {"up", "half"} /\ UNCHANGED <<tcp, dying>>
        /\ Subscribe(pending, {}) /\ subscribed' = (IF pending # {} THEN pending ELSE subscribed)
    BY <1>5 DEF ReceiveSymbols, Receive
  <2>2. subscribed' \subseteq (subscribed \ {}) \cup pending
    BY <2>1
  <2>3. WatchedAreSubscribed'
    BY <2>1, <2>2, SubscribeStreams DEF IInv, WatchedAreSubscribed
  <2> QED
    BY <2>1, <2>3 DEF SpotsOK, ReadyReceives, StartsEmpty
<1>6. CASE RefreshSpots
  <2>1. CASE ~ready \/ state # "Ready"
    BY <1>6, <2>1, SpotsKept DEF RefreshSpots
  <2>2. CASE ~(~ready \/ state # "Ready")
    <3> DEFINE ids == Head(posted)
    <3>1. /\ ready /\ UNCHANGED <<ready, tcp, dying>> /\ subscribed' = ids
          /\ Subscribe(ids \ subscribed, subscribed \ ids)
      BY <1>6, <2>2 DEF RefreshSpots
    <3>2. subscribed' \subseteq (subscribed \ (subscribed \ ids)) \cup (ids \ subscribed)
      BY <3>1
    <3>3. WatchedAreSubscribed'
      BY <3>1, <3>2, SubscribeStreams DEF IInv, WatchedAreSubscribed
    <3> QED
      BY <3>1, <3>3 DEF IInv, SpotsOK, ReadyReceives, StartsEmpty
  <2> QED
    BY <2>1, <2>2
<1>7. CASE ReceiveTokenError \/ TokenExpires
  <2> PICK known : TokenError(known)
    BY <1>7 DEF ReceiveTokenError, TokenExpires
  <2>1. CASE ForceDisconnect
    BY <2>1, DroppedIsEmpty DEF ForceDisconnect, SpotsOK
  <2>2. CASE ~ForceDisconnect
    BY <2>2, SpotsKept DEF TokenError
  <2> QED
    BY <2>1, <2>2
<1>8. CASE FailError
  <2>1. CASE ForceDisconnect
    BY <2>1, DroppedIsEmpty DEF ForceDisconnect, SpotsOK
  <2>2. CASE ~ForceDisconnect
    BY <1>8, <2>2, SpotsKept DEF FailError, link
  <2> QED
    BY <2>1, <2>2
<1>9. CASE ReceiveRefreshed \/ FailErrorEnv \/ (\E p \in Purposes : HttpOk(p))
  BY <1>9, SpotsKept DEF ReceiveRefreshed, FailErrorEnv, HttpOk, SendAccountAuth
<1>10. CASE ReceiveApp \/ ReceiveAccount \/ (\E p \in Purposes : FailLogin(p))
  <2>1. UNCHANGED <<ready, tcp, dying, streamed, skipped, refused, subscribed>>
    BY <1>10 DEF ReceiveApp, ReceiveAccount, FailLogin
  <2> QED
    BY <2>1, SpotsKept
<1>11. CASE Limited \/ PauseEnds \/ Cooldown \/ RefreshNow \/ (\E s \in SUBSET Pairs : Wish(s))
            \/ (\E a \in Errors : ReceiveError(a))
  BY <1>11, SpotsKept DEF Limited, PauseEnds, Cooldown, RefreshNow, Wish, ReceiveError, link
<1>12. CASE UNCHANGED session
  BY <1>12, SpotsKept DEF session, link
<1> QED
  BY <1>1, <1>2, <1>3, <1>4, <1>5, <1>6, <1>7, <1>8, <1>9, <1>10, <1>11, <1>12 DEF SessionNext

-----------------------------------------------------------------------------
(* Going on *)

\* A request that is sent has an answer ahead.
LEMMA SentIsAnswered ==
    ASSUME NEW known \in Seq(Said), NEW said \in SUBSET Said, Send(known, said), tcp = "up"
    PROVE  answers' # <<>>
<1> PICK a \in said : answers' = Append(known, a)
  BY DEF Send
<1> QED
  BY AppendProperties

\* A step on a connection that has something ahead afterwards, if that is up, and leaves
\* what else is ahead alone.
LEMMA StillAhead ==
    ASSUME IInv, UNCHANGED <<timer, dying, ready, tcp>>,
           tcp = "up" => answers' # <<>> \/ (\E p \in Purposes : http'[p] > 0) \/ skipped'
                          \/ "login" \in refused'
    PROVE  NeverGivenUp'
BY DEF IInv, NeverGivenUp

\* Every step leaves something ahead.
LEMMA GoesOnStep ==
    ASSUME IInv, [SessionNext]_session
    PROVE  NeverGivenUp'
<1>1. ASSUME ScheduleReconnect PROVE NeverGivenUp'
  BY <1>1, ScheduleKeeps DEF NeverGivenUp
<1>2. SessionTypeOK /\ answers \in Seq(Said) /\ (answers # <<>> => Tail(answers) \in Seq(Said))
  BY TailTypes DEF IInv, SessionTypeOK
<1>3. ASSUME NEW known \in Seq(Said), SendAccountAuth(known), UNCHANGED <<timer, dying, ready, tcp>>
      PROVE  NeverGivenUp'
  <2>1. {"account"} \cup Errors \in SUBSET Said
    BY DEF Said
  <2>2. tcp = "up" => answers' # <<>> \/ skipped'
    BY <1>3, <2>1, SentIsAnswered DEF SendAccountAuth
  <2> QED
    BY <1>3, <2>2, StillAhead
<1>4. CASE Connect
  BY <1>4 DEF Connect, NeverGivenUp
<1>5. CASE FailToResolve
  BY <1>5 DEF FailToResolve, Plan, NeverGivenUp
<1>6. CASE FailToConnect \/ Closed \/ CallBack \/ Invalidated
  BY <1>1, <1>6 DEF FailToConnect, Closed, CallBack, Lost, Invalidated, ForceDisconnect
<1>7. CASE Connected
  BY <1>7 DEF Connected, NeverGivenUp
<1>8. CASE ReceiveApp
  <2>1. http' = Refresh("login", http) /\ UNCHANGED <<timer, dying, ready, tcp>>
    BY <1>8 DEF ReceiveApp, backoff
  <2>2. "login" \in Purposes /\ http'["login"] > 0
    BY <1>2, <2>1, SessionAssumption DEF SessionTypeOK, Refresh, Purposes
  <2> QED
    BY <2>1, <2>2, StillAhead
<1>9. CASE ReceiveRefreshed
  BY <1>2, <1>3, <1>9 DEF ReceiveRefreshed, Receive, backoff
<1>10. CASE ReceiveAccount
  <2>1. {"symbols"} \cup Errors \in SUBSET Said
    BY DEF Said
  <2>2. tcp = "up" => answers' # <<>>
    BY <1>2, <1>10, <2>1, SentIsAnswered DEF ReceiveAccount, Receive
  <2> QED
    BY <1>10, <2>2, StillAhead DEF ReceiveAccount, backoff
<1>11. CASE ReceiveSymbols
  BY <1>11 DEF ReceiveSymbols, IInv, NeverGivenUp
<1>12. CASE ReceiveTokenError \/ TokenExpires
  <2> PICK known : TokenError(known)
    BY <1>12 DEF ReceiveTokenError, TokenExpires
  <2>1. CASE ForceDisconnect
    BY <1>1, <2>1 DEF ForceDisconnect
  <2>2. CASE ~ForceDisconnect
    <3>1. http' = Refresh("error", http) /\ UNCHANGED <<timer, dying, ready, tcp>>
      BY <2>2 DEF TokenError, backoff
    <3>2. "error" \in Purposes /\ http'["error"] > 0
      BY <1>2, <3>1, SessionAssumption DEF SessionTypeOK, Refresh, Purposes
    <3> QED
      BY <3>1, <3>2, StillAhead
  <2> QED
    BY <2>1, <2>2
<1>13. CASE \E p \in Purposes : HttpOk(p)
  BY <1>2, <1>3, <1>13 DEF HttpOk, backoff
<1>14. CASE \E p \in Purposes : FailLogin(p)
  <2> PICK p \in Purposes : FailLogin(p)
    BY <1>14
  <2>1. UNCHANGED <<timer, dying, ready, tcp>>
    BY DEF FailLogin, backoff
  <2>2. CASE p = "login" /\ MayFallBack
    <3>1. http' = Refresh("loginEnv", [http EXCEPT ![p] = @ - 1])
      BY <2>2 DEF FailLogin
    <3>2. "loginEnv" \in Purposes /\ http'["loginEnv"] > 0
      BY <1>2, <2>2, <3>1, SessionAssumption DEF SessionTypeOK, Refresh, Purposes
    <3> QED
      BY <2>1, <3>2, StillAhead
  <2>3. CASE ~(p = "login" /\ MayFallBack)
    <3>1. {"refreshed"} \cup Errors \in SUBSET Said
      BY DEF Said
    <3>2. tcp = "up" => answers' # <<>>
      BY <1>2, <2>3, <3>1, SentIsAnswered DEF FailLogin
    <3> QED
      BY <2>1, <3>2, StillAhead
  <2> QED
    BY <2>2, <2>3
<1>15. CASE FailError
  <2>1. CASE ForceDisconnect
    BY <1>1, <2>1 DEF ForceDisconnect
  <2>2. CASE ~ForceDisconnect
    <3>1. /\ http' = Refresh("errorEnv", [http EXCEPT !["error"] = @ - 1])
          /\ UNCHANGED <<timer, dying, ready, tcp>>
      BY <1>15, <2>2 DEF FailError, link, backoff
    <3>2. "errorEnv" \in Purposes /\ http'["errorEnv"] > 0
      BY <1>2, <3>1, SessionAssumption DEF SessionTypeOK, Refresh, Purposes
    <3> QED
      BY <3>1, <3>2, StillAhead
  <2> QED
    BY <2>1, <2>2
<1>16. CASE FailErrorEnv
  BY <1>2, <1>3, <1>16 DEF FailErrorEnv, backoff
<1>17. CASE Limited \/ PauseEnds \/ (\E s \in SUBSET Pairs : Wish(s)) \/ RefreshNow
  BY <1>17 DEF Limited, PauseEnds, Wish, RefreshNow, link, backoff, credentials, IInv, NeverGivenUp
<1>18. CASE Cooldown
  BY <1>18 DEF Cooldown, link, credentials, IInv, NeverGivenUp
<1>19. CASE RefreshSpots
  <2>1. UNCHANGED <<timer, dying, ready, tcp, answers, http>> /\ (skipped => skipped')
        /\ refused \subseteq refused'
    BY <1>19 DEF RefreshSpots, Subscribe, Asked, Denied, backoff, credentials
  <2> QED
    BY <2>1 DEF IInv, NeverGivenUp
<1>20. CASE \E a \in Errors : ReceiveError(a)
  <2>1. "login" \in refused' /\ UNCHANGED <<timer, dying, ready, tcp>>
    BY <1>20 DEF ReceiveError, backoff
  <2> QED
    BY <2>1, StillAhead
<1>21. CASE UNCHANGED session
  BY <1>21 DEF session, link, backoff, credentials, IInv, NeverGivenUp
<1> QED
  BY <1>4, <1>5, <1>6, <1>7, <1>8, <1>9, <1>10, <1>11, <1>12, <1>13, <1>14, <1>15, <1>16, <1>17,
     <1>18, <1>19, <1>20, <1>21 DEF SessionNext

-----------------------------------------------------------------------------
\* Every step keeps the invariant.
LEMMA NextIInv ==
    ASSUME IInv, [SessionNext]_session
    PROVE  IInv'
BY BackoffStep, TypesStep, SpotsStep, GoesOnStep DEF BackoffOK, SpotsOK, IInv

\* The invariant holds of every behaviour.
LEMMA Invariance == SessionSpec => []IInv
<1>1. SessionInit => IInv
  BY InitIInv
<1>2. IInv /\ [SessionNext]_session => IInv'
  BY NextIInv
<1> QED
  BY <1>1, <1>2, PTL DEF SessionSpec

\* Every variable of the session keeps its type (CTraderClient's fields).
THEOREM TypeCorrect == SessionSpec => []SessionTypeOK
<1>1. IInv => SessionTypeOK
  BY DEF IInv
<1> QED
  BY <1>1, Invariance, PTL

\* Whatever callback, answer or refresh comes last, of whatever connection, a reconnect, a
\* connection or an answer is ahead (scheduleReconnect, onConnection, handleFrame), unless a
\* login of this connection was kept back by a pause or refused for good (handleOaError).
THEOREM SessionGoesOn == SessionSpec => []NeverGivenUp
<1>1. IInv => NeverGivenUp
  BY DEF IInv
<1> QED
  BY <1>1, Invariance, PTL

\* No subscription of an earlier connection is taken for one of this one
\* (subscribedSpotIds_), nor is one taken for made that the server has not refused.
THEOREM SpotsAreStreamed == SessionSpec => []WatchedAreSubscribed
<1>1. IInv => WatchedAreSubscribed
  BY DEF IInv
<1> QED
  BY <1>1, Invariance, PTL

\* While the circuit breaker is open one connect is made, the one that was scheduled as it
\* opened (noteReconnectAttempt, scheduleReconnect).
THEOREM BreakerIsHeeded == SessionSpec => []BreakerHolds
<1>1. IInv => BreakerHolds
  BY DEF IInv
<1> QED
  BY <1>1, Invariance, PTL

\* The session goes on, with what it takes for subscribed, at the pace of its breaker
\* (CTraderClient, whatever callback of which connection comes when).
THEOREM SessionIsKept == SessionSpec => []SessionKept
BY TypeCorrect, SessionGoesOn, SpotsAreStreamed, BreakerIsHeeded, PTL DEF SessionKept
=============================================================================
