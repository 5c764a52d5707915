---------------------------- MODULE CTraderSession ----------------------------
(***************************************************************************)
(* The session of CTraderClient with the broker: connecting, logging in,   *)
(* refreshing tokens, subscribing to the spots the planner asks for, and   *)
(* connecting again.  The client works on a loop of its own; the answers   *)
(* to token refreshes come on another one, whenever they come, whatever    *)
(* connection is there by then; the planner's wishes come from the worker. *)
(*                                                                         *)
(* Abstractions: delays are left out, so a timer fires at some time; the   *)
(* one of the circuit breaker fires when it has closed.  A symbol list     *)
(* always holds the pairs wanted.  A refresh token is configured, symbols  *)
(* are subscribed by pair and in one batch.  Trend bars are TrendbarQueue. *)
(* Any request may be answered by an error; what the code does about it    *)
(* hangs on three kinds of them, and on CANT_ROUTE_REQUEST, which ends the *)
(* session at any time.                                                    *)
(* Of trantor the code relies on: a connection that is destroyed calls     *)
(* back as disconnected before its successor is up; one that was only shut *)
(* down goes on receiving until the server closes it.                      *)
(***************************************************************************)
EXTENDS Naturals, Sequences

CONSTANTS
    Pairs,
    Threshold,      \* reconnectCircuitBreakerThreshold
    MaxHttp,        \* bound: refreshes under way
    MaxPosted,      \* bound: wishes the client's loop has not run
    MaxUnrest       \* bound: failures and changes of the wish

\* The bounds are numbers.
ASSUME SessionAssumption ==
    Threshold \in Nat /\ MaxHttp \in Nat /\ MaxPosted \in Nat /\ MaxUnrest \in Nat

VARIABLES
    state,          \* state_
    ready,          \* ready_
    tcp,            \* the connection of client_: conn_ is set while it is "up"
    dying,          \* its predecessor has yet to call back as disconnected
    flag,           \* reconnectScheduled_
    timer,          \* the reconnect that is scheduled
    breaker,        \* the circuit breaker is open
    attempts,       \* reconnectAttemptsInWindow_
    tries,          \* history: connects since the breaker opened
    http,           \* refreshes under way, by what they are for
    tokens,         \* which pair cfg_ holds
    fellBack,       \* envFallbackUsed_
    failures,       \* tokenRefreshFailures_, up to where it is no longer looked at
    paused,         \* outboundPausedUntil_ is ahead
    skipped,        \* history: this connection was not sent something for that
    refused,        \* history: what its server has refused without anything to be done about it
    streamed,       \* the spots the server streams on this connection
    answers,        \* what it has yet to say to it
    subscribed,     \* subscribedSpotIds_
    pending,        \* pendingSpotIds_
    wanted,         \* what the planner computes
    refresh,        \* subscriptionRefreshPending
    posted,         \* refreshSpotSubscriptions calls queued in the loop
    unrest          \* what MaxUnrest bounds

link == <<state, ready, tcp, dying, streamed, answers, skipped, refused>>
backoff == <<flag, timer, breaker, attempts, tries>>
credentials == <<http, tokens, fellBack, failures>>
spots == <<subscribed, pending>>
wishes == <<wanted, refresh, posted>>
session == <<link, backoff, credentials, paused, spots, wishes, unrest>>

States == {"Disconnected", "Connecting", "AppAuth", "RefreshingToken", "AccountAuth",
           "LoadingSymbols", "Ready"}
\* The purposes of a refresh: logging in, with the stored or the environment's tokens, and
\* answering a token error, likewise.
Purposes == {"login", "loginEnv", "error", "errorEnv"}
\* What the server says to a login: an answer, or an error, by what handleOaError does about it.
Errors == {"tokenError", "blocked", "otherError"}
Said == {"app", "refreshed", "account", "symbols"} \cup Errors

SessionInit ==
    /\ state = "Disconnected" /\ ready = FALSE /\ tcp = "none" /\ dying = FALSE
    /\ flag = TRUE /\ timer = "soon"                    \* start queues the first connect
    /\ breaker = FALSE /\ attempts = 0 /\ tries = 0
    /\ http = [p \in Purposes |-> 0] /\ tokens \in {"stored", "env"} /\ fellBack = FALSE
    /\ failures = 0 /\ paused = FALSE /\ skipped = FALSE /\ refused = {}
    /\ streamed = {} /\ answers = <<>>
    /\ subscribed = {} /\ pending = {} /\ wanted = {} /\ refresh = FALSE /\ posted = <<>>
    /\ unrest = 0

Trouble == unrest < MaxUnrest /\ unrest' = unrest + 1
Calm == UNCHANGED unrest

-----------------------------------------------------------------------------
(* Connecting again *)

\* scheduleReconnect once no reconnect is scheduled, with the breaker open or not: an
\* attempt is noted, in a window that may be new, and the threshold opens the breaker.
Plan(open, tried) ==
    /\ flag' = TRUE
    /\ IF open
       THEN timer' = "cooldown" /\ breaker' = TRUE /\ tries' = tried /\ UNCHANGED attempts
       ELSE /\ timer' = "soon"
            /\ \E n \in {1, attempts + 1} :
                   /\ breaker' = (n >= Threshold)
                   /\ tries' = IF n >= Threshold THEN 0 ELSE tried
                   /\ attempts' = IF n >= Threshold THEN 0 ELSE n
ScheduleReconnect == IF flag THEN UNCHANGED backoff ELSE Plan(breaker, tries)

\* The timer of a reconnect: connect destroys the connection there was. Names may not
\* resolve. The breaker's own timer fires when it closes.
Open == breaker /\ timer # "cooldown"
Tried == IF Open THEN tries + 1 ELSE 0
Leave == /\ timer # "none" /\ ~dying
         /\ state' = "Connecting" /\ ready' = FALSE
         /\ dying' = (tcp \in {"up", "half"})
         /\ streamed' = {} /\ answers' = <<>> /\ skipped' = FALSE /\ refused' = {}
Connect == /\ Leave /\ tcp' = "connecting"
           /\ flag' = FALSE /\ timer' = "none"
           /\ breaker' = Open /\ tries' = Tried
           /\ Calm /\ UNCHANGED <<attempts, credentials, paused, spots, wishes>>
FailToResolve == /\ Leave /\ tcp' = "none"
                 /\ Plan(Open, Tried)
                 /\ Trouble /\ UNCHANGED <<credentials, paused, spots, wishes>>

\* The connection error callback.
FailToConnect == /\ tcp = "connecting" /\ tcp' = "none"
                 /\ ScheduleReconnect /\ Trouble
                 /\ UNCHANGED <<state, ready, dying, streamed, answers, skipped, refused,
                                credentials, paused, spots, wishes>>

\* onConnection, connected: the application logs in.
Connected == /\ tcp = "connecting" /\ ~dying /\ tcp' = "up"
             /\ state' = "AppAuth"
             /\ \E a \in {"app"} \cup Errors : answers' = <<a>>
             /\ Calm /\ UNCHANGED <<ready, dying, streamed, skipped, refused, backoff, credentials,
                                    paused, spots, wishes>>

\* onConnection, disconnected: the server has closed the connection, or it is the callback
\* of the one that connect destroyed.
EmptiedNot == subscribed                                  \* mutant: the subscriptions are kept
Emptied == {}
Lost == /\ ready' = FALSE /\ state' = "Disconnected"
        /\ subscribed' = Emptied
        /\ ScheduleReconnect
        /\ UNCHANGED <<skipped, refused, credentials, paused, pending, wishes>>
Closed == /\ tcp \in {"up", "half"} /\ tcp' = "none"
          /\ streamed' = {} /\ answers' = <<>>
          /\ Lost /\ UNCHANGED dying
          /\ IF tcp = "up" THEN Trouble ELSE Calm
CallBack == /\ dying /\ dying' = FALSE
            /\ Lost /\ Calm /\ UNCHANGED <<tcp, streamed, answers>>

\* forceDisconnectAndReconnect: the connection is shut down and dropped; what the server
\* still sends is still handled.
ForceDisconnect == /\ ready' = FALSE /\ state' = "Disconnected"
                   /\ subscribed' = {}
                   /\ tcp' = IF tcp = "up" THEN "half" ELSE tcp
                   /\ ScheduleReconnect
                   /\ UNCHANGED <<dying, streamed, skipped, refused, pending>>

-----------------------------------------------------------------------------
(* Logging in *)

\* sendFramed: the server's answer to a request that reaches it.
Send(known, said) ==
    IF tcp = "up" THEN \E a \in said : answers' = Append(known, a) ELSE answers' = known
\* sendAccountAuth, which says nothing while output is paused.
SendAccountAuth(known) ==
    IF paused THEN skipped' = TRUE /\ answers' = known
              ELSE UNCHANGED skipped /\ Send(known, {"account"} \cup Errors)

\* tryHttpTokenRefresh, and tryEnvTokenFallback when there is something to fall back to.
Refresh(purpose, by) == [by EXCEPT ![purpose] = @ + 1]
MayFallBack == ~fellBack /\ tokens # "env"
FallBack == fellBack' = TRUE /\ tokens' = "env" /\ failures' = 0

\* afterApplicationAuth
Receive(a) == /\ tcp \in {"up", "half"} /\ answers # <<>> /\ Head(answers) = a
ReceiveApp == /\ Receive("app") /\ answers' = Tail(answers)
              /\ http["login"] < MaxHttp /\ http' = Refresh("login", http)
              /\ Calm /\ UNCHANGED <<state, ready, tcp, dying, streamed, skipped, refused, backoff, tokens,
                                     fellBack, failures, paused, spots, wishes>>

\* The answer to a refresh, on the other loop. New tokens log the account in, on whatever
\* connection there is.
HttpOk(p) == /\ http[p] > 0 /\ http' = [http EXCEPT ![p] = @ - 1]
             /\ tokens' = "new" /\ failures' = 0
             /\ state' = "AccountAuth" /\ SendAccountAuth(answers)
             /\ Calm /\ UNCHANGED <<ready, tcp, dying, streamed, refused, backoff, fellBack, paused, spots, wishes>>
\* Without them: the environment's tokens, then a refresh over the connection.
FailLogin(p) ==
    /\ p \in {"login", "loginEnv"} /\ http[p] > 0
    /\ IF p = "login" /\ MayFallBack
       THEN /\ FallBack /\ http["loginEnv"] < MaxHttp
            /\ http' = Refresh("loginEnv", [http EXCEPT ![p] = @ - 1])
            /\ UNCHANGED <<state, answers>>
       ELSE /\ http' = [http EXCEPT ![p] = @ - 1]
            /\ state' = "RefreshingToken" /\ Send(answers, {"refreshed"} \cup Errors)
            /\ UNCHANGED <<tokens, fellBack, failures>>
    /\ Trouble /\ UNCHANGED <<ready, tcp, dying, streamed, skipped, refused, backoff, paused, spots, wishes>>
\* After a token error: the environment's tokens, then the account as it is, or a new session.
FailError ==
    /\ http["error"] > 0
    /\ IF MayFallBack
       THEN /\ FallBack /\ http["errorEnv"] < MaxHttp
            /\ http' = Refresh("errorEnv", [http EXCEPT !["error"] = @ - 1])
            /\ UNCHANGED <<link, backoff, spots>>
       ELSE /\ http' = [http EXCEPT !["error"] = @ - 1]
            /\ ForceDisconnect /\ UNCHANGED <<answers, tokens, fellBack, failures>>
    /\ Trouble /\ UNCHANGED <<paused, wishes>>
FailErrorEnv == /\ http["errorEnv"] > 0 /\ http' = [http EXCEPT !["errorEnv"] = @ - 1]
                /\ state' = "AccountAuth" /\ SendAccountAuth(answers)
                /\ Trouble /\ UNCHANGED <<ready, tcp, dying, streamed, refused, backoff, tokens, fellBack,
                                         failures, paused, spots, wishes>>

\* The server's own refresh.
ReceiveRefreshed == /\ Receive("refreshed")
                    /\ tokens' = "new" /\ failures' = 0
                    /\ state' = "AccountAuth" /\ SendAccountAuth(Tail(answers))
                    /\ Calm /\ UNCHANGED <<ready, tcp, dying, streamed, refused, backoff, http, fellBack,
                                           paused, spots, wishes>>
ReceiveAccount == /\ Receive("account")
                  /\ state' = "LoadingSymbols"
                  /\ Send(Tail(answers), {"symbols"} \cup Errors)
                  /\ Calm /\ UNCHANGED <<ready, tcp, dying, streamed, skipped, refused, backoff, credentials,
                                         paused, spots, wishes>>

-----------------------------------------------------------------------------
(* Spots *)

\* subscribeSpotsBatched and unsubscribeSpotsBatched: the first says nothing while output
\* is paused, the second always. The server may refuse what is asked.
Asked(ids, less) ==
    /\ skipped' = (skipped \/ (paused /\ ids # {}))
    /\ streamed' = IF tcp # "up" THEN streamed
                   ELSE (streamed \ less) \cup (IF paused THEN {} ELSE ids)
    /\ Calm /\ UNCHANGED refused
Denied(ids, less) ==
    /\ tcp = "up" /\ ~paused /\ ids # {}
    /\ streamed' = streamed \ less /\ refused' = refused \cup {"spots"}
    /\ Trouble /\ UNCHANGED skipped
Subscribe(ids, less) == Asked(ids, less) \/ Denied(ids, less)

\* The list of symbols: what waits is subscribed, and the session is ready. Both callbacks
\* ask for the planner's wishes again.
AsksNot == refresh                                        \* mutant: nobody asks for them then
Asks == TRUE
ReceiveSymbols ==
    /\ Receive("symbols") /\ answers' = Tail(answers)
    /\ Subscribe(pending, {})
    /\ subscribed' = IF pending # {} THEN pending ELSE subscribed
    /\ pending' = {}
    /\ state' = "Ready" /\ ready' = TRUE /\ refresh' = Asks
    /\ breaker' = FALSE /\ attempts' = 0 /\ tries' = 0
    /\ UNCHANGED <<tcp, dying, flag, timer, credentials, paused, wanted, posted>>

\* The planner's wish changes; the worker computes it if the session is ready.
Wish(s) == /\ s # wanted /\ wanted' = s /\ refresh' = TRUE
           /\ Trouble /\ UNCHANGED <<link, backoff, credentials, paused, spots, posted>>
RefreshNow == /\ refresh /\ refresh' = FALSE /\ Len(posted) < MaxPosted
              /\ posted' = IF ready THEN Append(posted, wanted) ELSE posted
              /\ Calm /\ UNCHANGED <<link, backoff, credentials, paused, spots, wanted>>
\* refreshSpotSubscriptions, in the loop.
RefreshSpots ==
    /\ posted # <<>> /\ posted' = Tail(posted)
    /\ LET ids == Head(posted)
       IN  IF ~ready \/ state # "Ready"
           THEN pending' = ids /\ Calm /\ UNCHANGED <<subscribed, streamed, skipped, refused>>
           ELSE /\ Subscribe(ids \ subscribed, subscribed \ ids)
                /\ subscribed' = ids /\ UNCHANGED pending
    /\ UNCHANGED <<state, ready, tcp, dying, answers, backoff, credentials, paused, wanted, refresh>>

-----------------------------------------------------------------------------
(* Errors (handleOaError) and what ends a session *)

\* A token error, in answer to a login or to anything else: twice refreshed, then the
\* environment's tokens, then as it is.
TokenError(known) ==
    /\ answers' = known
    /\ \/ /\ failures < 2 /\ http["error"] < MaxHttp
          /\ failures' = failures + 1 /\ http' = Refresh("error", http)
          /\ UNCHANGED <<state, ready, tcp, dying, streamed, skipped, refused, backoff, tokens, fellBack, spots>>
       \/ /\ failures >= 2 /\ ForceDisconnect /\ UNCHANGED http
          /\ IF MayFallBack THEN FallBack ELSE failures' = 3 /\ UNCHANGED <<tokens, fellBack>>
    /\ Trouble /\ UNCHANGED <<paused, wishes>>
ReceiveTokenError == Receive("tokenError") /\ TokenError(Tail(answers))
TokenExpires == tcp \in {"up", "half"} /\ ready /\ TokenError(answers)

\* Any other error in answer to a login: it is written down, and for BLOCKED_PAYLOAD_TYPE
\* output pauses. Nothing is sent again, and the connection stays.
ReceiveError(a) ==
    /\ a \in {"blocked", "otherError"} /\ Receive(a)
    /\ answers' = Tail(answers) /\ refused' = refused \cup {"login"}
    /\ paused' = (paused \/ a = "blocked")
    /\ Trouble /\ UNCHANGED <<state, ready, tcp, dying, streamed, skipped, backoff, credentials, spots, wishes>>

\* CANT_ROUTE_REQUEST, or the session is declared invalid.
Invalidated == /\ tcp \in {"up", "half"}
               /\ ForceDisconnect /\ Trouble
               /\ UNCHANGED <<answers, credentials, paused, wishes>>
\* BLOCKED_PAYLOAD_TYPE, and the end of the pause.
Limited == /\ tcp \in {"up", "half"} /\ ~paused /\ paused' = TRUE
           /\ Trouble /\ UNCHANGED <<link, backoff, credentials, spots, wishes>>
PauseEnds == /\ paused /\ paused' = FALSE
             /\ Calm /\ UNCHANGED <<link, backoff, credentials, spots, wishes>>
Cooldown == /\ breaker /\ breaker' = FALSE /\ tries' = 0
            /\ Calm /\ UNCHANGED <<link, flag, timer, attempts, credentials, paused, spots, wishes>>

-----------------------------------------------------------------------------
SessionNext ==
    \/ Connect \/ FailToResolve \/ FailToConnect \/ Connected \/ Closed \/ CallBack
    \/ ReceiveApp \/ ReceiveRefreshed \/ ReceiveAccount \/ ReceiveSymbols \/ ReceiveTokenError
    \/ (\E a \in Errors : ReceiveError(a))
    \/ TokenExpires \/ Invalidated \/ Limited \/ PauseEnds \/ Cooldown
    \/ \E p \in Purposes : HttpOk(p) \/ FailLogin(p)
    \/ FailError \/ FailErrorEnv
    \/ (\E s \in SUBSET Pairs : Wish(s)) \/ RefreshNow \/ RefreshSpots

\* The worker and the client's loop run what is queued: this is what they do to it.
Refreshes == /\ refresh /\ Len(posted) < MaxPosted /\ refresh' = FALSE
             /\ posted' = IF ready THEN Append(posted, wanted) ELSE posted
Runs == posted # <<>> /\ posted' = Tail(posted) /\ UNCHANGED refresh
SessionFair == WF_<<refresh, posted>>(Refreshes) /\ WF_<<refresh, posted>>(Runs)
SessionSpec == SessionInit /\ [][SessionNext]_session /\ SessionFair

-----------------------------------------------------------------------------
(* Properties *)

\* Every variable has its type.
SessionTypeOK ==
    /\ state \in States /\ ready \in BOOLEAN /\ dying \in BOOLEAN /\ skipped \in BOOLEAN
    /\ tcp \in {"none", "connecting", "up", "half"}
    /\ answers \in Seq(Said) /\ refused \subseteq {"login", "spots"}
    /\ flag \in BOOLEAN /\ timer \in {"none", "soon", "cooldown"}
    /\ breaker \in BOOLEAN /\ attempts \in 0..Threshold /\ tries \in Nat
    /\ http \in [Purposes -> 0..MaxHttp] /\ tokens \in {"stored", "env", "new"}
    /\ fellBack \in BOOLEAN /\ failures \in 0..3 /\ paused \in BOOLEAN
    /\ streamed \subseteq Pairs /\ subscribed \subseteq Pairs /\ pending \subseteq Pairs /\ wanted \subseteq Pairs
    /\ refresh \in BOOLEAN /\ posted \in Seq(SUBSET Pairs) /\ unrest \in 0..MaxUnrest

\* The client is never left unready with nothing ahead that would go on, whatever callback
\* of which connection, answer or refresh came last, but for the two ways the code gives up:
\* a login that a pause has kept, and one that the server refused with an error about which
\* handleOaError does nothing more. Of those it is not true that the client goes on.
NeverGivenUp ==
    \/ timer # "none" \/ dying \/ tcp = "connecting"
    \/ ready /\ tcp = "up"
    \/ tcp = "up" /\ (answers # <<>> \/ (\E p \in Purposes : http[p] > 0))
    \/ tcp = "up" /\ (skipped \/ "login" \in refused)

\* What the client takes for subscribed the server streams on this connection, unless it was
\* told to pause or has refused a subscription: no subscription of an earlier connection is
\* taken for one of this one.
WatchedAreSubscribed ==
    tcp = "up" /\ ~skipped /\ "spots" \notin refused => subscribed \subseteq streamed

\* An open circuit breaker lets through the reconnect that was scheduled as it opened, no more.
BreakerHolds == tries <= 1

\* The session goes on, with what it takes for subscribed, at the pace of its breaker.
SessionKept == SessionTypeOK /\ NeverGivenUp /\ WatchedAreSubscribed /\ BreakerHolds

\* If the session stays and the server refuses no spots, those the planner wants are streamed
\* in the end.
WatchedInTheEnd ==
    \A s \in SUBSET Pairs :
        <>[](ready /\ state = "Ready" /\ tcp = "up" /\ ~skipped /\ "spots" \notin refused /\ wanted = s)
            => <>[](subscribed = s /\ s \subseteq streamed)
=============================================================================
