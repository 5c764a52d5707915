------------------------------ MODULE WsObserve ------------------------------
(***************************************************************************)
(* The observers of WsObserveController: web sockets to which every tick   *)
(* of MarketHub sends a frame, which carries the alerts of the observer's  *)
(* user.  Connections are opened and closed on the I/O loops, the frames   *)
(* are built and sent on the main loop, and alerts change on any thread.   *)
(*                                                                         *)
(* The lists of alerts are copied into the connection and copied again     *)
(* only when the user's revision has moved.  A change of an alert is in    *)
(* the cache of AlertManager before its row is written; the revision moves *)
(* after that, and not at all when the write fails and the change is taken *)
(* back.  A frame is abstracted to the set of changes its lists show.      *)
(* Only ticks that reach the sink are modelled: the market is open and the *)
(* client is ready.  Chart streams carry no alerts and are left out.  The  *)
(* order of the list is, too: any member of a group may come first.        *)
(***************************************************************************)
EXTENDS Naturals, FiniteSets

CONSTANTS
    Conns, Users, Ips, Loops,
    UserOf, IpOf, LoopOf,   \* of each connection
    IpLimit,                \* wsMaxConnectionsPerIp
    Changes, OwnerOf,       \* changes of alerts, and whose they are
    Nobody

VARIABLES
    socket,     \* "new", "shaking" (limit passed), "up", "gone" (handler due), "closed"
    listed,     \* conns_
    perIp,      \* wsConnsPerIp_
    activeWs,   \* activeWs_ of the hub
    silent,     \* peers whose last pong is older than staleAfter
    inflight,   \* WsConnContext::inflightBytes, in frames
    settle,     \* the timers that release what was sent, the newest of each connection marked
    cut,        \* history: connections the server closed by force
    change,     \* "todo", "applied" (in the cache), "kept" (written), "undone"
    rev,        \* userAlertsRevision_
    copy,       \* cachedAlerts and lastAlertsRevision of each connection
    snap,       \* targets of the tick whose group has not been sent
    reading,    \* the group being built and the revision read for it
    shown       \* history: the lists last sent to each observer

network == <<socket, listed, perIp, activeWs, silent, cut>>
sending == <<inflight, settle>>
alerts == <<change, rev>>
ws == <<network, sending, alerts, copy, snap, reading, shown>>

NoCopy == [has |-> FALSE, rev |-> 0, lists |-> {}]
NotReading == [user |-> Nobody, rev |-> 0]

\* What getAllAlertsForUser returns.
ListsOf(u) == {h \in Changes : OwnerOf[h] = u /\ change[h] \in {"applied", "kept"}}

WsInit == /\ socket = [c \in Conns |-> "new"] /\ listed = {}
          /\ perIp = [i \in Ips |-> 0] /\ activeWs = 0
          /\ silent = {} /\ cut = {}
          /\ inflight = [c \in Conns |-> 0] /\ settle = {}
          /\ change = [h \in Changes |-> "todo"] /\ rev = [u \in Users |-> 0]
          /\ copy = [c \in Conns |-> NoCopy] /\ shown = [c \in Conns |-> {}]
          /\ snap = {} /\ reading = NotReading

-----------------------------------------------------------------------------
(* Connections, on the I/O loops *)

\* handleNewConnection up to the limit.  A loop is in one handler at a time.
AtLimit(c) == perIp[IpOf[c]] >= IpLimit
Shake(c) == /\ socket[c] = "new"
            /\ \A d \in Conns : LoopOf[d] = LoopOf[c] => socket[d] # "shaking"
            /\ socket' = [socket EXCEPT ![c] = IF AtLimit(c) THEN "closed" ELSE "shaking"]
            /\ UNCHANGED <<listed, perIp, activeWs, silent, cut, sending, alerts, copy, snap, reading, shown>>

\* The rest of it: the client of the broker is not ready, or the connection is listed and
\* counted.
Refuse(c) == /\ socket[c] = "shaking"
             /\ socket' = [socket EXCEPT ![c] = "closed"]
             /\ UNCHANGED <<listed, perIp, activeWs, silent, cut, sending, alerts, copy, snap, reading, shown>>
Enlist(c) == /\ socket[c] = "shaking"
             /\ socket' = [socket EXCEPT ![c] = "up"]
             /\ listed' = listed \cup {c}
             /\ perIp' = [perIp EXCEPT ![IpOf[c]] = @ + 1]
             /\ activeWs' = activeWs + 1
             /\ UNCHANGED <<silent, cut, sending, alerts, copy, snap, reading, shown>>

\* The peer closes the connection, or has answered no ping for longer than staleAfter.
PeerGone(c) == /\ socket[c] = "up" /\ socket' = [socket EXCEPT ![c] = "gone"]
               /\ UNCHANGED <<listed, perIp, activeWs, silent, cut, sending, alerts, copy, snap, reading, shown>>
FallSilent(c) == /\ socket[c] = "up" /\ silent' = silent \cup {c}
                 /\ UNCHANGED <<socket, listed, perIp, activeWs, cut, sending, alerts, copy, snap, reading, shown>>

\* handleConnectionClosed.  The context goes with the connection, or with the tick that
\* still holds it.
Forget(c) == /\ copy' = IF c \in snap THEN copy ELSE [copy EXCEPT ![c] = NoCopy]
             /\ shown' = [shown EXCEPT ![c] = {}]
             /\ inflight' = [inflight EXCEPT ![c] = 0]
HandleClose(c) == socket[c] = "gone" /\ socket' = [socket EXCEPT ![c] = "closed"]
Uncount(c) == [perIp EXCEPT ![IpOf[c]] = @ - 1]
CloseHandled(c) == /\ HandleClose(c)
                   /\ listed' = listed \ {c}
                   /\ perIp' = Uncount(c)
                   /\ activeWs' = activeWs - 1
                   /\ Forget(c)
                   /\ UNCHANGED <<silent, cut, settle, alerts, snap, reading>>

-----------------------------------------------------------------------------
(* Alerts, on any thread: the cache, the row, and then the revision *)

Apply(h) == /\ change[h] = "todo" /\ change' = [change EXCEPT ![h] = "applied"]
            /\ UNCHANGED <<network, sending, rev, copy, snap, reading, shown>>
Keep(h) == /\ change[h] = "applied" /\ change' = [change EXCEPT ![h] = "kept"]
           /\ rev' = [rev EXCEPT ![OwnerOf[h]] = @ + 1]
           /\ UNCHANGED <<network, sending, copy, snap, reading, shown>>
TakeBack(h) == /\ change[h] = "applied" /\ change' = [change EXCEPT ![h] = "undone"]
               /\ UNCHANGED <<network, sending, rev, copy, snap, reading, shown>>
EndWrite(h) == change[h] = "applied" /\ \E end \in {"kept", "undone"} : change' = [change EXCEPT ![h] = end]

-----------------------------------------------------------------------------
(* A tick, on the main loop *)

\* broadcastToAll takes its targets.  Dead links leave the list, silent peers are closed.
\* Timers that are due run before the next tick.
DeadNever == {}                                           \* mutant: nobody asks for pongs
Dead == {c \in listed : socket[c] = "up" /\ c \in silent}
TakeTargets == /\ snap = {} /\ settle = {}
               /\ listed' = {c \in listed : socket[c] = "up"} \ Dead
               /\ snap' = listed' /\ UNCHANGED <<reading, settle>>
Tick == /\ TakeTargets
        /\ socket' = [c \in Conns |-> IF c \in Dead THEN "gone" ELSE socket[c]]
        /\ cut' = cut \cup Dead
        /\ UNCHANGED <<perIp, activeWs, silent, inflight, alerts, copy, shown>>

\* The targets of one user are a group; the first of them is asked for its copy.
Group(u) == {c \in snap : UserOf[c] = u}

\* enrich reads the revision,
BeginGroup(u) == /\ reading = NotReading /\ Group(u) # {}
                 /\ reading' = [user |-> u, rev |-> rev[u]]
                 /\ UNCHANGED <<listed, snap, settle>>
ReadRevision(u) == /\ BeginGroup(u)
                   /\ UNCHANGED <<socket, perIp, activeWs, silent, cut, inflight, alerts, copy, shown>>

\* and then the lists, if the copy of the first member is of another revision.
CopyForLate(first) ==                                     \* mutant: the revision is read after them
    LET mine == copy[first]
        now == rev[UserOf[first]]
    IN  IF mine.has /\ mine.rev = now THEN mine
        ELSE [has |-> TRUE, rev |-> now + 1, lists |-> ListsOf(UserOf[first])]
CopyFor(first) ==
    LET mine == copy[first]
    IN  IF mine.has /\ mine.rev = reading.rev THEN mine
        ELSE [has |-> TRUE, rev |-> reading.rev, lists |-> ListsOf(UserOf[first])]

\* sendWithBackpressure: a connection that still owes an earlier frame is too slow, the
\* others are sent the frame and a timer will release it.
Owing == {c \in Conns : inflight[c] > 0}
Up(u) == {c \in Group(u) : socket[c] = "up"}
Sent(u) == Up(u) \ Owing
EndGroup(u) ==
    /\ reading.user = u /\ reading' = NotReading
    /\ snap' = snap \ Group(u)
    /\ settle' = {[s EXCEPT !.newest = @ /\ s.conn \notin Sent(u)] : s \in settle}
                    \cup {[conn |-> c, newest |-> TRUE] : c \in Sent(u)}
    /\ UNCHANGED listed
SendGroup(u) ==
    /\ EndGroup(u)
    /\ \E first \in Group(u) :
          /\ copy' = [c \in Conns |-> IF c \in Group(u) THEN CopyFor(first) ELSE copy[c]]
          /\ shown' = [c \in Conns |-> IF c \in Sent(u) THEN CopyFor(first).lists ELSE shown[c]]
    /\ inflight' = [c \in Conns |-> IF c \in Sent(u) THEN inflight[c] + 1 ELSE inflight[c]]
    /\ socket' = [c \in Conns |-> IF c \in Up(u) \cap Owing THEN "gone" ELSE socket[c]]
    /\ cut' = cut \cup (Up(u) \cap Owing)
    /\ UNCHANGED <<perIp, activeWs, silent, alerts>>

\* The timer of a frame, after the tick.  Only the newest frame is released.
Settle(s) == s \in settle /\ snap = {} /\ settle' = settle \ {s} /\ UNCHANGED <<listed, snap, reading>>
Release(s) == /\ Settle(s)
              /\ inflight' = IF socket[s.conn] = "up" /\ s.newest
                             THEN [inflight EXCEPT ![s.conn] = @ - 1] ELSE inflight
              /\ UNCHANGED <<socket, perIp, activeWs, silent, cut, alerts, copy, shown>>

-----------------------------------------------------------------------------
MainLoop == Tick \/ (\E u \in Users : ReadRevision(u) \/ SendGroup(u)) \/ (\E s \in settle : Release(s))
\* What it does to its own state.
Loop == TakeTargets \/ (\E u \in Users : BeginGroup(u) \/ EndGroup(u)) \/ (\E s \in settle : Settle(s))

Handlers == \E c \in Conns : \/ Shake(c) \/ Refuse(c) \/ Enlist(c) \/ CloseHandled(c)
                             \/ PeerGone(c) \/ FallSilent(c)
WsNext == \/ Handlers
          \/ \E h \in Changes : Apply(h) \/ Keep(h) \/ TakeBack(h)
          \/ MainLoop

\* The loops run, the hub ticks, and a write ends one way or the other.
WsFair == /\ WF_<<listed, snap, reading, settle>>(Loop)
          /\ \A c \in Conns : WF_socket(HandleClose(c))
          /\ \A h \in Changes : WF_change(EndWrite(h))

WsSpec == WsInit /\ [][WsNext]_ws /\ WsFair

-----------------------------------------------------------------------------
(* Properties *)

\* What the proofs assume of the constants; a limit of 0 is none, and is left out.
WsConstants == /\ IsFiniteSet(Conns) /\ IsFiniteSet(Loops)
               /\ UserOf \in [Conns -> Users] /\ IpOf \in [Conns -> Ips] /\ LoopOf \in [Conns -> Loops]
               /\ OwnerOf \in [Changes -> Users] /\ Nobody \notin Users
               /\ IpLimit \in Nat \ {0}

\* Every variable has its type.
WsTypeOK == /\ socket \in [Conns -> {"new", "shaking", "up", "gone", "closed"}]
            /\ listed \subseteq Conns /\ snap \subseteq Conns
            /\ perIp \in [Ips -> Nat] /\ activeWs \in Nat
            /\ silent \subseteq Conns /\ cut \subseteq Conns
            /\ inflight \in [Conns -> Nat] /\ settle \subseteq [conn : Conns, newest : BOOLEAN]
            /\ change \in [Changes -> {"todo", "applied", "kept", "undone"}]
            /\ rev \in [Users -> Nat]
            /\ copy \in [Conns -> [has : BOOLEAN, rev : Nat, lists : SUBSET Changes]]
            /\ reading \in [user : Users \cup {Nobody}, rev : Nat]
            /\ shown \in [Conns -> SUBSET Changes]

\* However connections end, closed by the peer, for silence or as too slow, each is
\* counted once and uncounted once; whoever is up is on the list, and nobody is whom his
\* handler has finished with.
Counted(c) == socket[c] \in {"up", "gone"}
CountsMatch == /\ \A i \in Ips : perIp[i] = Cardinality({c \in Conns : IpOf[c] = i /\ Counted(c)})
               /\ activeWs = Cardinality({c \in Conns : Counted(c)})
               /\ \A c \in Conns : socket[c] = "up" => c \in listed
               /\ \A c \in listed : Counted(c)

\* The limit is read before the connection is counted, on several loops: it can be
\* exceeded, but by no more than the other loops have in the handler at once.
LimitSlips == \A i \in Ips : perIp[i] <= IpLimit + Cardinality(Loops) - 1

\* As long as no write of the user has failed: a copy that carries the current revision
\* shows what the cache holds, whatever was applied and not yet written when it was made.
Settled(u) == \A h \in Changes : OwnerOf[h] = u => change[h] \in {"todo", "kept"}
CopyIsCurrent == \A c \in Conns :
    LET u == UserOf[c]
    IN  copy[c].has /\ copy[c].rev = rev[u] /\ Settled(u) => copy[c].lists = ListsOf(u)

\* The server cuts off nobody who answers its pings.
OnlyTheSilentAreCut == cut \subseteq silent

\* An observer that stays is in the end shown the alerts as they are, unless a write failed.
ShownInTheEnd == \A c \in Conns :
    <>[](socket[c] = "up" /\ Settled(UserOf[c]) => shown[c] = ListsOf(UserOf[c]))

\* A peer that has fallen silent does not stay connected.
SilentAreDropped == \A c \in Conns : c \in silent ~> socket[c] = "closed"

\* Observers are counted, up to date, and cut off for their silence only.
ObserversKept == WsTypeOK /\ CountsMatch /\ CopyIsCurrent /\ OnlyTheSilentAreCut /\ LimitSlips
\* In the end they are shown the alerts, or gone.
ObserversServed == ShownInTheEnd /\ SilentAreDropped
=============================================================================
