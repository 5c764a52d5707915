--------------------------- MODULE TrendbarQueue ---------------------------
(***************************************************************************)
(* Requests for historical trend bars in CTraderClient.  Any thread may    *)
(* ask; everything else happens on the client's event loop.  Equal         *)
(* requests share one job, one job at a time is out, and after each one    *)
(* the loop pauses before it sends the next.  An answer is matched by its  *)
(* message id, a timer gives up on a lost one, and a lost session fails    *)
(* everything that waits.                                                  *)
(*                                                                         *)
(* The session is an environment: it comes up, becomes ready, and goes     *)
(* down whenever it likes.  Frames of a connection that was given up may   *)
(* still be read, so answers to old requests come at any time, or never.   *)
(* A token refresh that fails drops the session from the thread of its     *)
(* HTTP callback; here that is a step of the loop like the others.         *)
(* A request is abstracted to its key (symbol, period, range, count), and  *)
(* the bars of an answer to the key they are for.                          *)
(***************************************************************************)
EXTENDS Naturals, Sequences

CONSTANTS
    Calls,     \* calls of getTrendbars
    Keys,      \* what can be asked for
    KeyOf,     \* what each call asks for
    NoKey      \* of no request

ASSUME CallAssumption == KeyOf \in [Calls -> Keys] /\ NoKey \notin Keys

\* TrendbarJob
Job    == [key : Keys \cup {NoKey}, waiters : SUBSET Calls]
NoJob  == [key |-> NoKey, waiters |-> {}]

\* TrendbarsResult
Result == [ok : BOOLEAN, key : Keys \cup {NoKey}]
FailedBlank == [ok |-> FALSE]                             \* mutant: half a result
Failed  == [ok |-> FALSE, key |-> NoKey]
Bars(k) == [ok |-> TRUE, key |-> k]

VARIABLES
    isReady, conn,     \* ready_; conn_ is set
    fresh,             \* calls not made yet
    posted,            \* calls on their way to the loop (queueInLoop)
    jobs, active,      \* trendbarQueue_, trendbarActive_
    busy, gap,         \* trendbarBusy_, trendbarGapPending_ and its timer
    pending,           \* pendingTrendbars_: ids with a timeout timer
    lastId,            \* msgIdCounter_
    wire,              \* requests sent and not answered by the server
    answer             \* history: the results each call was given

session == <<isReady, conn>>
requests == <<jobs, active, busy, pending, lastId, wire>>
trendbars == <<session, fresh, posted, requests, gap, answer>>

BarsInit == /\ isReady = FALSE /\ conn = FALSE
            /\ fresh = Calls /\ posted = {}
            /\ jobs = <<>> /\ active = NoJob
            /\ busy = FALSE /\ gap = FALSE
            /\ pending = {} /\ lastId = 0 /\ wire = {}
            /\ answer = [c \in Calls |-> <<>>]

-----------------------------------------------------------------------------
Give(S, r) == answer' = [c \in Calls |-> IF c \in S THEN Append(answer[c], r) ELSE answer[c]]

\* The calls that wait for a job of q.
WaitersOf(q) == UNION {q[i].waiters : i \in DOMAIN q}

\* abandonTrendbars, with q as the queue: everything that waits fails.
AbandonQueue(q) ==                                        \* mutant: the active job is forgotten
    /\ Give(WaitersOf(q), Failed)
    /\ jobs' = <<>> /\ active' = NoJob /\ busy' = FALSE /\ pending' = {}
    /\ UNCHANGED lastId
Abandon(q) ==
    /\ Give(active.waiters \cup WaitersOf(q), Failed)
    /\ jobs' = <<>> /\ active' = NoJob /\ busy' = FALSE /\ pending' = {}
    /\ UNCHANGED lastId

\* The front of q is sent and gets a timer.  What a dying connection loses is on the wire
\* too: it is never answered.
Start(q) ==
    /\ jobs' = Tail(q) /\ active' = Head(q) /\ busy' = TRUE
    /\ lastId' = lastId + 1
    /\ pending' = pending \cup {lastId + 1}
    /\ wire' = wire \cup {[id |-> lastId + 1, key |-> Head(q).key]}
    /\ UNCHANGED answer

\* pumpTrendbarQueue, with q as the queue and g as the gap.
Pump(q, g) ==
    \/ /\ busy \/ g \/ q = <<>>
       /\ jobs' = q
       /\ UNCHANGED <<active, busy, pending, lastId, wire, answer>>
    \/ /\ ~busy /\ ~g /\ q # <<>> /\ ~(isReady /\ conn)
       /\ Abandon(q)
       /\ UNCHANGED wire
    \/ /\ ~busy /\ ~g /\ q # <<>> /\ isReady /\ conn
       /\ Start(q)

\* finishTrendbarRequest: the active job is done, its waiters get r.
Finish(r) == /\ Give(active.waiters, r)
             /\ active' = NoJob /\ busy' = FALSE /\ gap' = TRUE

-----------------------------------------------------------------------------
\* getTrendbars, on the calling thread.
Ask(c) == /\ c \in fresh
          /\ fresh' = fresh \ {c}
          /\ posted' = posted \cup {c}
          /\ UNCHANGED <<session, requests, gap, answer>>

\* The first job of the queue that asks for the same as c.
Same(c) == {i \in DOMAIN jobs : jobs[i].key = KeyOf[c]}

\* The same, on the loop: it fails, joins an equal request, or queues its own.
RunAsk(c) ==
    /\ c \in posted
    /\ posted' = posted \ {c}
    /\ \/ /\ ~isReady
          /\ Give({c}, Failed)
          /\ UNCHANGED requests
       \/ /\ isReady /\ busy /\ active.key = KeyOf[c]
          /\ active' = [active EXCEPT !.waiters = @ \cup {c}]
          /\ UNCHANGED <<jobs, busy, pending, lastId, wire, answer>>
       \/ /\ isReady /\ ~(busy /\ active.key = KeyOf[c]) /\ Same(c) # {}
          /\ \E i \in Same(c) : /\ \A j \in Same(c) : i <= j
                                /\ jobs' = [jobs EXCEPT ![i].waiters = @ \cup {c}]
          /\ UNCHANGED <<active, busy, pending, lastId, wire, answer>>
       \/ /\ isReady /\ ~(busy /\ active.key = KeyOf[c]) /\ Same(c) = {}
          /\ Pump(Append(jobs, [key |-> KeyOf[c], waiters |-> {c}]), gap)
    /\ UNCHANGED <<session, fresh, gap>>

\* The answer m belongs to a request that is still waited for.
AwaitedAny(m) == busy                                     \* mutant: whoever waits takes it
Awaited(m) == m.id \in pending

\* handleFrame: trend bars, or an error that names the request.
Receive(m, r) ==
    /\ m \in wire
    /\ wire' = wire \ {m}
    /\ \/ /\ Awaited(m)
          /\ pending' = pending \ {m.id}
          /\ Finish(r)
       \/ /\ ~Awaited(m)
          /\ UNCHANGED <<pending, active, busy, gap, answer>>
    /\ UNCHANGED <<session, fresh, posted, jobs, lastId>>

\* An error on which handleOaError drops the session first: by the time the request is
\* looked up, it has failed with all the others.
ReceiveFatal(m) ==
    /\ m \in wire
    /\ wire' = wire \ {m}
    /\ isReady' = FALSE /\ conn' = FALSE
    /\ Abandon(jobs)
    /\ UNCHANGED <<fresh, posted, gap>>

\* requestTimeoutSeconds after the request.
Timeout(id) == /\ id \in pending
               /\ pending' = pending \ {id}
               /\ Finish(Failed)
               /\ UNCHANGED <<session, fresh, posted, jobs, lastId, wire>>

\* The pause is over.
GapEndsIdle ==                                            \* mutant: nobody pumps
    /\ gap /\ gap' = FALSE
    /\ UNCHANGED <<session, fresh, posted, requests, answer>>
GapEnds == /\ gap /\ gap' = FALSE
           /\ Pump(jobs, FALSE)
           /\ UNCHANGED <<session, fresh, posted>>

-----------------------------------------------------------------------------
(* The session *)

\* onConnection: connected.
Connected == /\ ~conn /\ conn' = TRUE
             /\ UNCHANGED <<isReady, fresh, posted, requests, gap, answer>>

\* The symbols have been loaded, possibly over a connection that was given up since.
BecomeReady == /\ ~isReady /\ isReady' = TRUE
               /\ UNCHANGED <<conn, fresh, posted, requests, gap, answer>>

\* onConnection: disconnected; forceDisconnectAndReconnect.
Disconnected == /\ isReady' = FALSE /\ conn' = FALSE
                /\ Abandon(jobs)
                /\ UNCHANGED <<fresh, posted, gap, wire>>

\* connect() drops a session without failing what waits for it.
Reconnect == /\ conn /\ conn' = FALSE /\ isReady' = FALSE
             /\ UNCHANGED <<fresh, posted, requests, gap, answer>>

-----------------------------------------------------------------------------
Loop == (\E c \in posted : RunAsk(c)) \/ (\E id \in pending : Timeout(id)) \/ GapEnds

BarsNext == \/ \E c \in Calls : Ask(c)
            \/ Loop
            \/ \E m \in wire : \E r \in {Failed, Bars(m.key)} : Receive(m, r)
            \/ \E m \in wire : ReceiveFatal(m)
            \/ Connected \/ BecomeReady \/ Disconnected \/ Reconnect

BarsSpec == BarsInit /\ [][BarsNext]_trendbars

\* The loop runs its tasks and its timers.  Nothing obliges the server to answer.
BarsFairSpec == /\ BarsSpec
                /\ \A c \in Calls : WF_trendbars(RunAsk(c))
                /\ WF_trendbars(\E id \in pending : Timeout(id))
                /\ WF_trendbars(GapEnds)

-----------------------------------------------------------------------------
(* Properties *)

\* Every variable has its type.
BarsTypeOK == /\ isReady \in BOOLEAN /\ conn \in BOOLEAN /\ busy \in BOOLEAN /\ gap \in BOOLEAN
              /\ fresh \subseteq Calls /\ posted \subseteq Calls
              /\ jobs \in Seq(Job) /\ active \in Job
              /\ lastId \in Nat /\ pending \subseteq Nat
              /\ wire \subseteq [id : Nat, key : Keys]
              /\ answer \in [Calls -> Seq(Result)]

\* A queue that is not empty has somebody to go on with it, the answer or the timeout of
\* the request that is out or the end of the pause; and a job that is out has exactly
\* one of those.
NeverStalls == /\ jobs # <<>> => busy \/ gap
               /\ pending = IF busy THEN {lastId} ELSE {}

\* Every call is either answered, once, or waits in exactly one place.
Places(c) == {i \in DOMAIN jobs : c \in jobs[i].waiters}
                \cup (IF c \in active.waiters THEN {0} ELSE {})

EachOnce == \A c \in Calls :
    /\ \A x, y \in Places(c) : x = y
    /\ \/ c \in fresh \cup posted /\ Places(c) = {} /\ answer[c] = <<>>
       \/ c \notin fresh \cup posted /\ Places(c) # {} /\ answer[c] = <<>>
       \/ c \notin fresh \cup posted /\ Places(c) = {} /\ Len(answer[c]) = 1

\* Nobody is given the bars that somebody else asked for, however late they come.
RightBars == \A c \in Calls : \A i \in DOMAIN answer[c] :
                 answer[c][i].ok => answer[c][i].key = KeyOf[c]

\* Every call is answered in the end, whatever becomes of the server and the session.
EachIsAnswered == \A c \in Calls : c \in posted ~> answer[c] # <<>>

=============================================================================
